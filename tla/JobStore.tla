------------------------------ MODULE JobStore ------------------------------
(***************************************************************************)
(* The job table of app/storage/db.py, one SQLite connection behind one    *)
(* asyncio.Lock, and the callers that write to it: the job coroutines of   *)
(* app/workers, the log callbacks of their executor threads, the pruning   *)
(* task and the recovery that app/main.py's lifespan runs at boot.         *)
(***************************************************************************)
EXTENDS Naturals, Sequences

CONSTANTS
  Jobs,        \* job ids
  Kinds,       \* which kinds of job there are, of AllKinds
  Janitor,     \* the pruning task, or POST /jobs/prune
  NoRow,       \* the table has no such job
  MaxCrashes   \* how often the process dies

AllKinds == {"drop", "provision", "retire", "apply", "sweep"}
Statuses == {"queued", "completed", "failed", "interrupted"}
Lines    == {"queued", "begun", "driver", "error", "interrupted"}
Terminal == {"completed", "failed", "interrupted"}
Rows     == [status : Statuses, logs : SUBSET Lines]

ASSUME KindsAssumption   == Kinds \subseteq AllKinds
ASSUME CrashesAssumption == MaxCrashes \in Nat
ASSUME NamesAssumption   == NoRow \notin Rows

\* A caller of the store: a job's coroutine, the thread its driver runs in,
\* or the janitor.
Main(j)   == <<j, "main">>
Thread(j) == <<j, "thread">>
Sweeping  == <<Janitor, "janitor">>
Callers   == (Jobs \X {"main", "thread"}) \cup {Sweeping}
Nobody    == <<NoRow, "nobody">>

VARIABLES
  disk,    \* the committed table
  conn,    \* the table the connection sees: disk and what is not committed yet
  lock,    \* who holds the asyncio.Lock
  call,    \* the call each caller has made
  job,     \* the coroutine of each job: its kind, its state, the calls to come
  aged,    \* the jobs older than the retention window
  server,  \* "boot", "recovered" (not committed yet), "up"
  crashes

table == <<disk, conn>>
vars  == <<disk, conn, lock, call, job, aged, server, crashes>>

Free == [op |-> "none", step |-> "none"]
Ask(op) == [op |-> op, step |-> "waits"]

\* What a call writes: a line of log, a status, or a row.
Appends == {"begun", "driver", "error"}
Updates == {"completed", "failed"}
Ops     == Appends \cup Updates \cup {"create", "prune"}

Init ==
  /\ disk = [j \in Jobs |-> NoRow] /\ conn = disk
  /\ lock = Nobody
  /\ call = [c \in Callers |-> Free]
  /\ \E kinds \in [Jobs -> Kinds] :
       job = [j \in Jobs |-> [kind |-> kinds[j], state |-> "absent", todo |-> <<>>]]
  /\ aged = {}
  /\ server = "boot"
  /\ crashes = 0

-----------------------------------------------------------------------------
(* One call *)

Call(c, op) == call[c] = Free /\ call' = [call EXCEPT ![c] = Ask(op)]

\* Mutant: append_log reads the row before it has the lock.
AcquireUnlocked(c) ==
  /\ call[c].step = "waits"
  /\ \/ lock = Nobody /\ lock' = c
     \/ call[c].op \in Appends /\ UNCHANGED lock
  /\ call' = [call EXCEPT ![c] = [op |-> @.op, step |-> "holds", seen |-> conn]]
  /\ UNCHANGED <<disk, conn, job, aged, server, crashes>>

\* The lock is taken and, by append_log, the row is read.
Acquire(c) ==
  /\ call[c].step = "waits" /\ lock = Nobody
  /\ lock' = c
  /\ call' = [call EXCEPT ![c] = [op |-> @.op, step |-> "holds", seen |-> conn]]
  /\ UNCHANGED <<disk, conn, job, aged, server, crashes>>

Effect(c, op, seen) ==
  LET j == c[1] IN
  CASE op = "create"   -> [conn EXCEPT ![j] = [status |-> "queued", logs |-> {"queued"}]]
    [] op = "prune"    -> [i \in Jobs |-> IF i \in aged /\ conn[i] # NoRow /\ conn[i].status \in Terminal
                                          THEN NoRow ELSE conn[i]]
    [] op \in Appends  -> IF seen[j] = NoRow THEN conn
                          ELSE [conn EXCEPT ![j].logs = seen[j].logs \cup {op}]
    [] op \in Updates  -> IF conn[j] = NoRow THEN conn ELSE [conn EXCEPT ![j].status = op]

\* append_log without a row and prune_old_jobs without a victim do not commit.
Barren(c, op, seen) ==
  \/ op \in Appends /\ seen[c[1]] = NoRow
  \/ op = "prune" /\ Effect(c, op, seen) = conn

Execute(c) ==
  LET k == call[c] IN
  /\ k.step = "holds"
  /\ conn' = Effect(c, k.op, k.seen)
  /\ call' = [call EXCEPT ![c] = [op |-> k.op, step |-> IF Barren(c, k.op, k.seen) THEN "void"
                                                       ELSE "wrote"]]
  /\ UNCHANGED <<disk, lock, job, aged, server, crashes>>

\* The caller's coroutine goes on with its next call, or starts its work.
Resumed(j) ==
  CASE job[j].todo # <<>> -> job[j]
    [] job[j].todo = <<>> /\ job[j].state = "starts" -> [job[j] EXCEPT !.state = "works"]
    [] job[j].todo = <<>> /\ job[j].state = "ends"   -> [job[j] EXCEPT !.state = "over"]

\* The commit writes all that is in the connection's transaction, also what a
\* cancelled caller left in it.
Commit(c) ==
  /\ call[c].step \in {"wrote", "void"}
  /\ disk' = IF call[c].step = "wrote" THEN conn ELSE disk
  /\ lock' = Nobody
  /\ call' = [call EXCEPT ![c] = Free]
  /\ IF c[2] = "main" THEN job' = [job EXCEPT ![c[1]] = Resumed(c[1])] ELSE UNCHANGED job
  /\ UNCHANGED <<conn, aged, server, crashes>>

-----------------------------------------------------------------------------
(* Jobs *)

\* enqueue_*, reconcile_workload and reconcile_cluster: a row, then the work.
Enqueue(j) ==
  /\ server = "up"
  /\ job[j].state = "absent"
  /\ job' = [job EXCEPT ![j].state = "starts", ![j].todo = <<"create", "begun">>]
  /\ UNCHANGED <<disk, conn, lock, call, aged, server, crashes>>

NextCall(j) ==
  /\ job[j].state \in {"starts", "ends"} /\ job[j].todo # <<>>
  /\ Call(Main(j), Head(job[j].todo))
  /\ job' = [job EXCEPT ![j].todo = Tail(@)]
  /\ UNCHANGED <<disk, conn, lock, aged, server, crashes>>

\* The driver reports from its thread; nobody waits for the line to be written.
DriverLogs(j) ==
  /\ job[j].state \in {"works", "stray"} /\ job[j].kind \notin {"drop", "sweep"}
  /\ conn[j] # NoRow /\ "driver" \notin conn[j].logs
  /\ Call(Thread(j), "driver")
  /\ UNCHANGED <<disk, conn, lock, job, aged, server, crashes>>

\* The calls that end a job of each kind.  A provisioned guest is reported as
\* completed before NetBox is written, which may fail.  The reconcile branch
\* completes the job after the power and the configuration task, if they ran, have
\* reported their own outcome.
Endings(kind) ==
  CASE kind \in {"drop", "sweep"} -> {<<"completed">>}
    [] kind = "retire"    -> {<<"completed">>, <<"error", "failed">>}
    [] kind = "provision" -> {<<"completed">>, <<"error", "failed">>,
                              <<"completed", "error", "failed">>}
    [] kind = "apply"     -> {power \o config \o <<"completed">> :
                                power  \in {<<>>, <<"error">>},
                                config \in {<<>>, <<"completed">>, <<"error", "failed">>}}

WorkEnds(j) ==
  /\ job[j].state = "works"
  /\ \E calls \in Endings(job[j].kind) : job' = [job EXCEPT ![j].state = "ends", ![j].todo = calls]
  /\ UNCHANGED <<disk, conn, lock, call, aged, server, crashes>>

\* An exception nobody catches: a payload without a name, a status the client
\* library does not expect.  Nothing is written.
WorkRaises(j) ==
  /\ job[j].state = "works" /\ job[j].kind \in {"drop", "apply"}
  /\ job' = [job EXCEPT ![j].state = "lost"]
  /\ UNCHANGED <<disk, conn, lock, call, aged, server, crashes>>

\* asyncio.wait_for cancels the sweep and the job it is in, wherever they are: a
\* lock is released, a statement that was executed stays in the open transaction,
\* and the driver's thread goes on.
Cancel(j) ==
  LET c == Main(j) IN
  /\ job[j].kind # "drop" /\ job[j].state \in {"starts", "works", "ends"}
  /\ job' = [job EXCEPT ![j].state = IF @ = "works" THEN "stray" ELSE "lost", ![j].todo = <<>>]
  /\ call' = [call EXCEPT ![c] = Free]
  /\ lock' = IF lock = c THEN Nobody ELSE lock
  /\ UNCHANGED <<disk, conn, aged, server, crashes>>

\* Retention: at least a day, far longer than a job lives.
Age(j) ==
  /\ job[j].state \in {"over", "lost", "stray", "killed"} /\ j \notin aged
  /\ aged' = aged \cup {j}
  /\ UNCHANGED <<disk, conn, lock, call, job, server, crashes>>

Prune ==
  /\ server = "up" /\ aged # {}
  /\ Call(Sweeping, "prune")
  /\ UNCHANGED <<disk, conn, lock, job, aged, server, crashes>>

-----------------------------------------------------------------------------
(* Crash and recovery *)

\* The process dies and is started again: only what was committed is left.
Crash ==
  /\ crashes < MaxCrashes /\ crashes' = crashes + 1
  /\ conn' = disk
  /\ lock' = Nobody
  /\ call' = [c \in Callers |-> Free]
  /\ job' = [j \in Jobs |-> IF job[j].state \in {"absent", "over"} THEN job[j]
                            ELSE [job[j] EXCEPT !.state = "killed", !.todo = <<>>]]
  /\ server' = "boot"
  /\ UNCHANGED <<disk, aged>>

Orphans == {j \in Jobs : conn[j] # NoRow /\ conn[j].status = "queued"}

Marked(j) == [status |-> "interrupted", logs |-> conn[j].logs \cup {"interrupted"}]

\* Mutant: only rows that say they are running are orphans.
RecoverRunning ==
  /\ server = "boot"
  /\ server' = "recovered"
  /\ UNCHANGED <<disk, conn, lock, call, job, aged, crashes>>

\* Mutant: requests are served while the recovery is under way.
RecoverWhileUp ==
  /\ \/ server = "boot" /\ server' = "up" /\ UNCHANGED conn
     \/ /\ server = "up" /\ UNCHANGED server
        /\ conn' = [j \in Jobs |-> IF j \in Orphans THEN Marked(j) ELSE conn[j]]
  /\ UNCHANGED <<disk, lock, call, job, aged, crashes>>

\* recover_orphaned_jobs, before lifespan yields and any request is served.
Recover ==
  /\ server = "boot"
  /\ conn' = [j \in Jobs |-> IF j \in Orphans THEN Marked(j) ELSE conn[j]]
  /\ server' = "recovered"
  /\ UNCHANGED <<disk, lock, call, job, aged, crashes>>

\* Mutant: the recovery forgets to commit.
ServeUncommitted ==
  /\ server = "recovered" /\ server' = "up"
  /\ UNCHANGED <<disk, conn, lock, call, job, aged, crashes>>

Serve ==
  /\ server = "recovered"
  /\ disk' = conn
  /\ server' = "up"
  /\ UNCHANGED <<conn, lock, call, job, aged, crashes>>

-----------------------------------------------------------------------------

JobSteps(j) == NextCall(j) \/ WorkEnds(j) \/ WorkRaises(j)

Next ==
  \/ \E c \in Callers : Acquire(c) \/ Execute(c) \/ Commit(c)
  \/ \E j \in Jobs : Enqueue(j) \/ JobSteps(j) \/ DriverLogs(j) \/ Cancel(j) \/ Age(j)
  \/ Prune \/ Crash \/ Recover \/ Serve

\* The event loop runs what can run and SQLite answers; asyncio.Lock is first
\* come, first served, hence strong fairness of Acquire.
Fairness ==
  /\ \A c \in Callers : SF_vars(Acquire(c)) /\ WF_vars(Execute(c)) /\ WF_vars(Commit(c))
  /\ \A j \in Jobs : WF_vars(JobSteps(j))
  /\ WF_vars(Recover) /\ WF_vars(Serve)

Spec == Init /\ [][Next]_vars /\ Fairness

-----------------------------------------------------------------------------

Steps == {"waits", "wrote", "void"}
Calls == {Free} \cup [op : Ops, step : Steps]
           \cup [op : Ops, step : {"holds"}, seen : [Jobs -> Rows \cup {NoRow}]]

\* Every variable has its type, and the lock is held by the one caller that is
\* between its lock and its commit (Database._lock).
TypeOK ==
  /\ disk \in [Jobs -> Rows \cup {NoRow}] /\ conn \in [Jobs -> Rows \cup {NoRow}]
  /\ call \in [Callers -> Calls]
  /\ job \in [Jobs -> [kind : Kinds, todo : Seq(Ops),
                       state : {"absent", "starts", "works", "ends", "over", "lost", "stray", "killed"}]]
  /\ aged \subseteq Jobs
  /\ server \in {"boot", "recovered", "up"} /\ crashes \in 0..MaxCrashes
  /\ \A c \in Callers : call[c].step \in {"holds", "wrote", "void"} <=> lock = c
  /\ lock \in Callers \cup {Nobody}

\* Once requests are served, every job that an earlier process took with it is
\* marked in the table on disk, so that a second crash cannot unmark it
\* (recover_orphaned_jobs).
OrphansMarked ==
  \A j \in Jobs : server = "up" /\ job[j].state = "killed" /\ disk[j] # NoRow
                    => disk[j].status \in Terminal

\* No line of a job's log is lost to a concurrent writer, to a crash in the
\* middle of another call or to a cancelled sweep (append_log reads, extends and
\* writes back).
LogsKept ==
  [][\A j \in Jobs : disk[j] # NoRow /\ disk'[j] # NoRow => disk[j].logs \subseteq disk'[j].logs]_vars

\* A job reported as interrupted is dead: nothing reports another outcome for
\* it later.
InterruptedStands ==
  [][\A j \in Jobs : disk[j] # NoRow /\ disk'[j] # NoRow /\ disk[j].status = "interrupted"
                       => disk'[j].status = "interrupted"]_vars

\* Every row leaves "queued", through crashes and recoveries, but for that of a
\* job that raised or was cancelled, which waits for the next restart.
RowsEnd ==
  \A j \in Jobs :
    (disk[j] # NoRow /\ disk[j].status = "queued")
      ~> (disk[j] = NoRow \/ disk[j].status # "queued" \/ job[j].state \in {"lost", "stray"})
=============================================================================
