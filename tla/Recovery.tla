------------------------------ MODULE Recovery ------------------------------
(***************************************************************************)
(* Crash-testing the recovery (check.rs, fn check_with_recovery): check    *)
(* runs on the workload with a checker that recovers each crash state,     *)
(* notes each recovery that wrote something, and verifies the result; then *)
(* each noted recovery is checked like a workload of its own.              *)
(*                                                                         *)
(* check itself is what Engine specifies and appears here through what it  *)
(* does with its checker: it calls it once per job from a pool of threads, *)
(* then, to explain a failure, one call after another on further states;   *)
(* and through what it may say of its failures, up to its limit explain.   *)
(* A tree names the content of a directory.  recover is deterministic, so  *)
(* its trace, whose initial snapshot is the crash state, is named by the   *)
(* tree it ran on.                                                         *)
(***************************************************************************)
EXTENDS Integers, FiniteSets, FiniteSetsExt, Sequences

CONSTANTS
    MarksBefore,    \* how many marks precede each crash point, from 0
    Jobs,           \* the sequences of crash states check may enumerate
    Trials,         \* further crash states minimizing may build
    Trees,          \* contents of a directory
    Recover,        \* what recover does to a tree: "fails", "quiet" or "writes"
    SecondCrash,    \* for a recovery that writes: the unique states of its trace
    Causes,         \* what a failure is put down to: a kind of bug and files
    Workers,        \* the checker threads (Options::jobs)
    MaxStates,      \* Options::max_states
    ExplainLimit    \* Options::explain

Crash(point, tree) == [point |-> point, marks |-> MarksBefore[point + 1], tree |-> tree]

FirstCrashes == {Crash(k, t) : k \in 0..(Len(MarksBefore) - 1), t \in Trees}
Marks == {MarksBefore[k] : k \in DOMAIN MarksBefore}
Writing == {t \in Trees : Recover[t] = "writes"}

ASSUME RecoveryAssumption ==
    /\ MarksBefore \in Seq(Nat)
    /\ Recover \in [Trees -> {"fails", "quiet", "writes"}]
    /\ SecondCrash \in [Writing -> Seq(Trees)]
    /\ Trials \subseteq FirstCrashes /\ Jobs \subseteq Seq(FirstCrashes)
    /\ IsFiniteSet(Workers) /\ Workers # {}
    /\ MaxStates \in Nat /\ ExplainLimit \in Nat

VARIABLES
    rejects,        \* the pairs <<tree, marks>> on which verify complains
    jobs,           \* the crash states the workload's check enumerated
    phase,          \* pool, explain, explore or done
    next,           \* how many jobs were claimed
    worker,         \* per thread: Idle or the crash it is at, and its next step
    called,         \* the pairs <<tree, marks>> the workload's checker was called on
    seen,           \* the recovery traces noted, by hash
    recoveries,     \* the recoveries to explore, with their first crash
    explored,       \* history: the recoveries explored
    reported,       \* history: what each check named, and if it met its limit
    report          \* the report being filled in, or Err

recoveryVars ==
    <<rejects, jobs, phase, next, worker, called, seen, recoveries, explored, reported,
      report>>

Idle == [step |-> "idle"]
Err == [error |-> TRUE]

RecoveryInit ==
    /\ rejects \in SUBSET {p \in Trees \X Marks : Recover[p[1]] # "fails"}
    /\ jobs \in Jobs
    /\ phase = "pool" /\ next = 0
    /\ worker = [w \in Workers |-> Idle]
    /\ called = {} /\ seen = {} /\ recoveries = {} /\ explored = {} /\ reported = {}
    /\ report = [recovery_states |-> 0, failures |-> 0, truncated |-> FALSE,
                 vulnerabilities |-> [v \in {} |-> 0]]

\* The checker's verdict on a crash state: recover, then verify.
Rejected(tree, marks) == Recover[tree] = "fails" \/ <<tree, marks>> \in rejects

-----------------------------------------------------------------------------
(* The workload's check: the checker in the pool of threads *)

\* Faulty variant: a recovery is another one when other marks precede it.
TraceHashWithMarks(c) == <<c.tree, c.marks>>

\* trace_hash: the crash state recover started from, and what it did there.
TraceHash(c) == c.tree

Call(c) == called' = called \cup {<<c.tree, c.marks>>}

\* A thread claims a job, materializes it and runs recover on it.
StartJob(w) ==
    /\ phase = "pool" /\ worker[w] = Idle /\ next < Len(jobs)
    /\ next' = next + 1
    /\ LET c == jobs[next + 1]
       IN  \/ /\ Recover[c.tree] = "fails"
              /\ Call(c)
              /\ UNCHANGED worker
           \/ /\ Recover[c.tree] = "quiet"
              /\ worker' = [worker EXCEPT ![w] = [crash |-> c, step |-> "verify"]]
              /\ UNCHANGED called
           \/ /\ Recover[c.tree] = "writes"
              /\ worker' = [worker EXCEPT ![w] = [crash |-> c, step |-> "insert"]]
              /\ UNCHANGED called
    /\ UNCHANGED <<rejects, jobs, phase, seen, recoveries, explored, reported, report>>

At(w, step) == worker[w].step = step
Goto(w, step) == worker' = [worker EXCEPT ![w].step = step]

\* seen.lock().insert(..): one thread at a time looks and puts the hash in.
Insert(w) ==
    /\ At(w, "insert")
    /\ Goto(w, IF TraceHash(worker[w].crash) \in seen THEN "verify" ELSE "push")
    /\ seen' = seen \cup {TraceHash(worker[w].crash)}
    /\ UNCHANGED <<rejects, jobs, phase, next, called, recoveries,
                   explored, reported, report>>

\* Faulty variant: try_lock, and a thread that finds recoveries locked goes on.
TryPush(w) ==
    /\ At(w, "push")
    /\ recoveries' = IF \E u \in Workers \ {w} : At(u, "push") THEN recoveries
                     ELSE recoveries \cup {worker[w].crash}
    /\ Goto(w, "verify")
    /\ UNCHANGED <<rejects, jobs, phase, next, called, seen, explored, reported, report>>

\* recoveries.lock().push(..), after seen was unlocked.
Push(w) ==
    /\ At(w, "push")
    /\ recoveries' = recoveries \cup {worker[w].crash}
    /\ Goto(w, "verify")
    /\ UNCHANGED <<rejects, jobs, phase, next, called, seen, explored, reported, report>>

Verify(w) ==
    /\ At(w, "verify")
    /\ Call(worker[w].crash)
    /\ worker' = [worker EXCEPT ![w] = Idle]
    /\ UNCHANGED <<rejects, jobs, phase, next, seen, recoveries,
                   explored, reported, report>>

Thread(w) == StartJob(w) \/ Insert(w) \/ Push(w) \/ Verify(w)

-----------------------------------------------------------------------------
(* The workload's check: explaining its failures *)

AllIdle == \A w \in Workers : worker[w] = Idle
FailingJobs == {i \in DOMAIN jobs : Rejected(jobs[i].tree, jobs[i].marks)}

PoolEnds ==
    /\ phase = "pool" /\ next = Len(jobs) /\ AllIdle
    /\ phase' = "explain"
    /\ UNCHANGED <<rejects, jobs, next, worker, called, seen, recoveries,
                   explored, reported, report>>

\* A rejected state judged again as if nothing had been acknowledged.
Unacknowledged ==
    {[c EXCEPT !.marks = 0] : c \in {d \in Trials \cup {jobs[i] : i \in DOMAIN jobs} :
        <<d.tree, d.marks>> \in called /\ Rejected(d.tree, d.marks)}}

\* Minimizing calls the checker on states its cache does not have.
Explain ==
    /\ phase = "explain" /\ FailingJobs # {} /\ ExplainLimit > 0
    /\ \E c \in Trials \cup Unacknowledged :
         LET new == Recover[c.tree] = "writes" /\ TraceHash(c) \notin seen
         IN  /\ <<c.tree, c.marks>> \notin called
             /\ Call(c)
             /\ seen' = IF new THEN seen \cup {TraceHash(c)} ELSE seen
             /\ recoveries' = IF new THEN recoveries \cup {c} ELSE recoveries
    /\ UNCHANGED <<rejects, jobs, phase, next, worker, explored, reported, report>>

\* Faulty variant: a covered failure, too, counts towards the limit.
AttributedEarly(failing, minimized, cause) ==
    /\ minimized \subseteq DOMAIN cause /\ Cardinality(minimized) <= ExplainLimit
    /\ \A i \in failing \ minimized :
          \/ i \in DOMAIN cause /\ cause[i] \in {cause[j] : j \in minimized}
          \/ i \notin DOMAIN cause /\ Cardinality(DOMAIN cause) >= ExplainLimit

\* One check's loop over its failures.  What is lost in each, so the order they
\* come in and the causes found, is left out: each is minimized and put down to
\* a cause; or it is covered by a cause that a minimized one was put down to; or
\* it is dropped, which takes as many minimized ones as the limit allows.
Attributed(failing, minimized, cause) ==
    /\ minimized \subseteq DOMAIN cause /\ Cardinality(minimized) <= ExplainLimit
    /\ \A i \in failing \ minimized :
          \/ i \in DOMAIN cause /\ cause[i] \in {cause[j] : j \in minimized}
          \/ i \notin DOMAIN cause /\ Cardinality(minimized) = ExplainLimit

\* The vulnerabilities of one check, and the failures each stands for.
Tally(cause) ==
    [c \in {cause[i] : i \in DOMAIN cause} |->
        Cardinality({i \in DOMAIN cause : cause[i] = c})]

\* What one check may say of its failures, and if it met its limit.
Explanations(failing) ==
    LET causes == UNION {[kept -> Causes] : kept \in SUBSET failing}
    IN  {[tally |-> Tally(a[2]), limit_met |-> Cardinality(a[1]) = ExplainLimit] :
            a \in {b \in (SUBSET failing) \X causes : Attributed(failing, b[1], b[2])}}

CheckEnds ==
    /\ phase = "explain"
    /\ phase' = "explore"
    /\ \E e \in Explanations(FailingJobs), truncated \in BOOLEAN :
         /\ report' = [recovery_states |-> 0, failures |-> Cardinality(FailingJobs),
                       truncated |-> truncated,
                       vulnerabilities |-> [v \in {<<"workload", c>> : c \in DOMAIN e.tally} |->
                                              [occurrences |-> e.tally[v[2]]]]]
         /\ reported' = {[where |-> "workload", named |-> DOMAIN e.tally,
                          limit_met |-> e.limit_met]}
    /\ UNCHANGED <<rejects, jobs, next, worker, called, seen, recoveries, explored>>

\* check(..)? returned an I/O error: threads left the pool, or a verdict failed.
CheckFails ==
    /\ phase \in {"pool", "explain"} /\ AllIdle
    /\ phase' = "done" /\ report' = Err
    /\ UNCHANGED <<rejects, jobs, next, worker, called, seen, recoveries,
                   explored, reported>>

-----------------------------------------------------------------------------
(* Exploring the recoveries *)

\* Faulty variant: every recovery may use all of max_states.
FullBudget == MaxStates

Budget == IF report.recovery_states < MaxStates THEN MaxStates - report.recovery_states ELSE 0

\* Faulty variant: any vulnerability with the same kind and files will do.
SlotAnywhere(cause) ==
    IF <<"workload", cause>> \in DOMAIN report.vulnerabilities
        THEN <<"workload", cause>> ELSE <<"recovery", cause>>

\* The vulnerability a recovery's is added to: one found in recovery.
Slot(cause) == <<"recovery", cause>>

Merge(tally, point) ==
    LET old == report.vulnerabilities
        hit == {Slot(c) : c \in DOMAIN tally}
    IN  [v \in DOMAIN old \cup hit |->
            IF v \notin DOMAIN old THEN [occurrences |-> tally[v[2]], in_recovery |-> point]
            ELSE IF v \in hit THEN [old[v] EXCEPT !.occurrences = @ + tally[v[2]]]
            ELSE old[v]]

\* The states a check of r's trace with this budget takes.
Taken(r, budget) ==
    SubSeq(SecondCrash[r.tree], 1, Min({budget, Len(SecondCrash[r.tree])}))

\* Those of them recovering again and verifying with r's marks rejects.
Failing(r, states) == {i \in DOMAIN states : Rejected(states[i], r.marks)}

\* Faulty variant: the recoveries stay in the order the threads pushed them.
SomeRecovery(r) == r \in recoveries

\* recoveries.sort_by_key: by point (and then by a hash, in no known order).
NextRecovery(r) == r \in recoveries /\ \A q \in recoveries : r.point <= q.point

Explore ==
    /\ phase = "explore" /\ Budget > 0
    /\ \E r \in recoveries : \E e \in Explanations(Failing(r, Taken(r, Budget))) :
         LET states  == Taken(r, Budget)
             failing == Failing(r, states)
         IN  /\ NextRecovery(r)
             /\ recoveries' = recoveries \ {r}
             /\ explored' = explored \cup {r}
             /\ report' = [recovery_states |-> report.recovery_states + Len(states),
                           failures |-> report.failures + Cardinality(failing),
                           truncated |-> report.truncated \/ Len(SecondCrash[r.tree]) > Budget,
                           vulnerabilities |-> Merge(e.tally, r.point)]
             /\ reported' = reported \cup {[where |-> "recovery", point |-> r.point,
                                            named |-> DOMAIN e.tally,
                                            limit_met |-> e.limit_met]}
    /\ UNCHANGED <<rejects, jobs, phase, next, worker, called, seen>>

\* check(&t, ..)? failed: the trace does not compile, or I/O did.
ExploreFails ==
    /\ phase = "explore" /\ recoveries # {} /\ Budget > 0
    /\ phase' = "done" /\ report' = Err
    /\ UNCHANGED <<rejects, jobs, next, worker, called, seen, recoveries,
                   explored, reported>>

OutOfBudget ==
    /\ phase = "explore" /\ recoveries # {} /\ Budget = 0
    /\ phase' = "done" /\ report' = [report EXCEPT !.truncated = TRUE]
    /\ UNCHANGED <<rejects, jobs, next, worker, called, seen, recoveries,
                   explored, reported>>

Finish ==
    /\ phase = "explore" /\ recoveries = {}
    /\ phase' = "done"
    /\ UNCHANGED <<rejects, jobs, next, worker, called, seen, recoveries,
                   explored, reported, report>>

\* check_with_recovery has returned.
Done == phase = "done" /\ UNCHANGED recoveryVars

RecoveryNext ==
    \/ \E w \in Workers : Thread(w)
    \/ PoolEnds \/ Explain \/ CheckEnds \/ CheckFails
    \/ Explore \/ ExploreFails \/ OutOfBudget \/ Finish \/ Done

RecoverySpec == RecoveryInit /\ [][RecoveryNext]_recoveryVars

-----------------------------------------------------------------------------
(* Properties *)

Returned == phase = "done" /\ report # Err

\* Every recovery is explored with the marks its crash point really has,
\* although the checker is also called as if nothing had been acknowledged:
\* such a call must never be the first on its tree (explain's durability
\* question against the dedupe in check_with_recovery).
RecoveryMarksAreReal ==
    \A r \in recoveries \cup explored : r.marks = MarksBefore[r.point + 1]

\* A report that was not cut short explored every recovery that writes, from
\* whatever call of the checker, and no recovery trace twice, in whatever order
\* the threads met it; its states are all of theirs (check_with_recovery).
ExploredOnce ==
    (Returned /\ ~report.truncated) =>
        LET found == {t \in Writing : \E m \in Marks : <<t, m>> \in called}
        IN  /\ {r.tree : r \in explored} = found
            /\ report.recovery_states =
                   SumFunction([t \in found |-> Len(SecondCrash[t])])

\* All recoveries together use at most max_states, and a report that did not
\* run out of them says so (check_with_recovery, budget).
WithinBudget ==
    Returned =>
        /\ report.recovery_states <= MaxStates
        /\ recoveries # {} => report.truncated

\* A failure in recovery is counted for a vulnerability in recovery, and one
\* of the workload for one of the workload, although both may have the same
\* kind and files; none is counted twice, and none is left out where no check
\* minimized as many as it may (check_with_recovery, same; Options::explain).
CountedApart ==
    Returned =>
        LET failures == [workload |-> Cardinality(FailingJobs),
                         recovery |-> report.failures - Cardinality(FailingJobs)]
            count(where) ==
              SumFunction([v \in {u \in DOMAIN report.vulnerabilities : u[1] = where} |->
                             report.vulnerabilities[v].occurrences])
        IN  \A where \in {"workload", "recovery"} :
              /\ count(where) <= failures[where]
              /\ (\A s \in reported : s.where = where => ~s.limit_met)
                    => count(where) = failures[where]

\* The first crashes after which a check of the recovery named this cause.
NamedAt(cause) ==
    {s.point : s \in {q \in reported : q.where = "recovery" /\ cause \in q.named}}

\* Every cause a check named is in the report, and in_recovery names the
\* earliest first crash of those after which the check of the recovery named it,
\* however the threads ran (recoveries.sort_by_key).
EarliestFirstCrash ==
    Returned =>
        /\ \A s \in reported : \A c \in s.named : <<s.where, c>> \in DOMAIN report.vulnerabilities
        /\ \A v \in {u \in DOMAIN report.vulnerabilities : u[1] = "recovery"} :
              /\ report.vulnerabilities[v].in_recovery \in NamedAt(v[2])
              /\ \A p \in NamedAt(v[2]) : report.vulnerabilities[v].in_recovery <= p

\* verify asks for more when more was acknowledged.
Demanding == \A r \in rejects, m \in Marks : m >= r[2] => <<r[1], m>> \in rejects

\* "A recovery that passes this survives a second crash at any point", where
\* surviving is to be verified "against the marks of the *first* crash"
\* (docs/model.md; check_with_recovery): when the report is clean, no second
\* crash after any of the first ones is rejected.
CleanMeansRecoverable ==
    (Demanding /\ Returned /\ ~report.truncated /\ report.failures = 0) =>
        \A i \in DOMAIN jobs :
            jobs[i].tree \in Writing =>
                \A k \in DOMAIN SecondCrash[jobs[i].tree] :
                    ~Rejected(SecondCrash[jobs[i].tree][k], jobs[i].marks)
=============================================================================
