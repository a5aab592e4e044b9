--------------------------- MODULE JobStore_proofs ---------------------------
(***************************************************************************)
(* Proofs about JobStore: for any jobs, of any kinds, and any number of    *)
(* crashes, every orphan is marked durably, no line of a log is lost and   *)
(* an interrupted job stays interrupted.                                   *)
(***************************************************************************)
EXTENDS JobStore, TLAPS, SequenceTheorems

\* The calls a job begins with.
First == <<"create", "begun">>

\* Who calls what: a coroutine has a call under way only while it starts or
\* ends, a thread only appends, the janitor only prunes; a row is created by the
\* first call of a coroutine; a holder of the lock has seen the table as it is;
\* until requests are served nobody calls.
FlowInv ==
  /\ \A j \in Jobs :
       /\ call[Main(j)] # Free => job[j].state \in {"starts", "ends"}
       /\ call[Thread(j)].op \in {"none", "driver"}
       /\ job[j].todo = First => job[j].state = "starts" /\ call[Main(j)] = Free
       /\ job[j].todo # First => \A i \in 1..Len(job[j].todo) : job[j].todo[i] # "create"
  /\ call[Sweeping].op \in {"none", "prune"}
  /\ \A c \in Callers : call[c].step = "holds" => call[c].seen = conn
  /\ server # "up" =>
       /\ \A c \in Callers : call[c] = Free
       /\ \A j \in Jobs : job[j].state \in {"absent", "over", "killed"}

\* The row of j is still to be created.
Unborn(j) ==
  \/ job[j].state = "absent"
  \/ job[j].todo = First
  \/ call[Main(j)].op = "create" /\ call[Main(j)].step \in {"waits", "holds"}

Done(T, j) == T[j] # NoRow => T[j].status \in Terminal
Dead(T, j) == T[j] # NoRow /\ T[j].status = "interrupted" => job[j].state \in {"over", "killed"}

\* How the committed table and the connection's relate, row by row.
Follows(j) ==
  disk[j] # NoRow /\ conn[j] # NoRow =>
    /\ disk[j].logs \subseteq conn[j].logs
    /\ disk[j].status = "interrupted" => conn[j].status = "interrupted"

\* The tables and the jobs: what is still to be created is in neither table, only
\* the dead and the finished are interrupted, and the killed are marked.
RowsInv ==
  \A j \in Jobs :
    /\ Unborn(j) => disk[j] = NoRow /\ conn[j] = NoRow
    /\ Follows(j)
    /\ Dead(disk, j) /\ Dead(conn, j)
    /\ job[j].state = "killed" /\ server # "boot" => Done(conn, j)
    /\ job[j].state = "killed" /\ server = "up" => Done(disk, j)

IInv == TypeOK /\ FlowInv /\ RowsInv

USE KindsAssumption, CrashesAssumption, NamesAssumption
    DEF KindsAssumption, CrashesAssumption, NamesAssumption

-----------------------------------------------------------------------------
(* Callers *)

LEMMA CallersDiffer ==
  /\ Sweeping \in Callers /\ Nobody \notin Callers
  /\ \A j \in Jobs : Main(j) \in Callers /\ Thread(j) \in Callers
  /\ \A i, j \in Jobs : Main(i) # Thread(j) /\ Main(i) # Sweeping /\ Thread(i) # Sweeping
  /\ \A i, j \in Jobs : (Main(i) = Main(j) => i = j) /\ (Thread(i) = Thread(j) => i = j)
BY DEF Callers, Main, Thread, Sweeping, Nobody

LEMMA CallerIs ==
  ASSUME NEW c \in Callers
  PROVE  c = Sweeping \/ \E j \in Jobs : c \in {Main(j), Thread(j)}
BY DEF Callers, Main, Thread, Sweeping

LEMMA MainOrNot ==
  /\ \A j \in Jobs : Main(j)[1] = j /\ Main(j)[2] = "main" /\ Thread(j)[1] = j /\ Thread(j)[2] # "main"
  /\ Sweeping[2] # "main"
BY DEF Main, Thread, Sweeping

\* What the type says of a call under way.
LEMMA CallFacts ==
  ASSUME NEW k \in Calls
  PROVE  /\ k = Free \/ k.op \in Ops
         /\ k.step = "none" <=> k = Free
         /\ k.step \in {"none", "waits", "holds", "wrote", "void"}
         /\ k.step = "holds" => k.seen \in [Jobs -> Rows \cup {NoRow}]
BY DEF Calls, Steps, Free

LEMMA CallTypes ==
  /\ Free \in Calls
  /\ \A op \in Ops : Ask(op) \in Calls
  /\ \A op \in Ops : [op |-> op, step |-> "void"] \in Calls /\ [op |-> op, step |-> "wrote"] \in Calls
  /\ \A op \in Ops, T \in [Jobs -> Rows \cup {NoRow}] : [op |-> op, step |-> "holds", seen |-> T] \in Calls
BY DEF Free, Ask, Calls, Steps

JobRecords == [kind : Kinds, todo : Seq(Ops),
               state : {"absent", "starts", "works", "ends", "over", "lost", "stray", "killed"}]

LEMMA FirstFacts == First \in Seq(Ops) /\ First # <<>> /\ Len(First) = 2 /\ First[1] = "create"
BY DEF First, Ops, Appends

LEMMA NotFirst ==
  ASSUME NEW q, \A i \in 1..Len(q) : q[i] # "create" PROVE q # First
BY FirstFacts

\* Calls that create nothing.
Plain(q) == q \in Seq(Ops) /\ \A i \in 1..Len(q) : q[i] # "create"

LEMMA ShortEndings ==
  ASSUME NEW a \in Ops \ {"create"}, NEW b \in Ops \ {"create"}, NEW c \in Ops \ {"create"}
  PROVE  Plain(<<>>) /\ Plain(<<a>>) /\ Plain(<<a, b>>) /\ Plain(<<a, b, c>>)
<1>1. <<a>> \in Seq(Ops) /\ \A i \in 1..Len(<<a>>) : <<a>>[i] # "create"
  OBVIOUS
<1>2. <<a, b>> \in Seq(Ops) /\ \A i \in 1..Len(<<a, b>>) : <<a, b>>[i] # "create"
  OBVIOUS
<1>3. <<a, b, c>> \in Seq(Ops) /\ \A i \in 1..Len(<<a, b, c>>) : <<a, b, c>>[i] # "create"
  OBVIOUS
<1>4. <<>> \in Seq(Ops) /\ \A i \in 1..Len(<<>>) : FALSE
  OBVIOUS
<1> QED BY <1>1, <1>2, <1>3, <1>4 DEF Plain

LEMMA JoinedEndings ==
  ASSUME NEW p, NEW q, Plain(p), Plain(q) PROVE Plain(p \o q)
BY DEF Plain

LEMMA NoCalls == <<>> \in Seq(Ops) /\ Len(<<>>) = 0
OBVIOUS

LEMMA StateSet ==
  ASSUME NEW k \in JobRecords, NEW s \in {"works", "ends", "over", "lost", "stray", "killed"}
  PROVE  [k EXCEPT !.state = s] \in JobRecords
BY DEF JobRecords

LEMMA JobType ==
  IInv => job \in [Jobs -> JobRecords]
BY DEF IInv, TypeOK, JobRecords

-----------------------------------------------------------------------------
(* One call *)

LEMMA AcquireStep ==
  ASSUME IInv, NEW c \in Callers, Acquire(c) PROVE IInv'
<1> USE DEF IInv, Acquire
<1>1. call[c] \in Calls /\ call[c].op \in Ops /\ call[c].step = "waits"
  BY CallFacts DEF TypeOK, Free
<1>2. TypeOK'
  BY <1>1, CallTypes, CallersDiffer DEF TypeOK
<1>3. FlowInv'
  BY <1>1, CallersDiffer DEF FlowInv, TypeOK, Free
<1>4. RowsInv'
  BY <1>1, CallersDiffer DEF RowsInv, TypeOK, Unborn, Follows, Dead, Done
<1> QED BY <1>2, <1>3, <1>4

\* What a statement does to one row of the connection's table.
LEMMA EffectFacts ==
  ASSUME IInv, NEW c \in Callers, call[c].step = "holds"
  PROVE  /\ call[c].op \in Ops /\ call[c].seen = conn
         /\ Effect(c, call[c].op, conn) \in [Jobs -> Rows \cup {NoRow}]
         /\ \A j \in Jobs :
              LET row == Effect(c, call[c].op, conn)[j]
              IN  /\ (c # Main(j) \/ call[c].op # "create") /\ row # NoRow => conn[j] # NoRow
                  /\ conn[j] # NoRow /\ row # NoRow =>
                       \/ /\ conn[j].logs \subseteq row.logs
                          /\ \/ row.status = conn[j].status
                             \/ c = Main(j) /\ row.status \in {"completed", "failed"}
                       \/ c = Main(j) /\ call[c].op = "create"
                  /\ c = Main(j) /\ call[c].op = "create" /\ row # NoRow => row.status = "queued"
<1> DEFINE op == call[c].op
           T == Effect(c, op, conn)
<1>1. call[c] \in Calls /\ op \in Ops /\ conn \in [Jobs -> Rows \cup {NoRow}]
  BY CallFacts DEF IInv, TypeOK, Free
<1>2. call[c].seen = conn
  BY DEF IInv, FlowInv
<1>3. op \in {"create", "prune", "begun", "driver", "error", "completed", "failed"}
  BY <1>1 DEF Ops, Appends, Updates
<1>4. op # "prune" => \E j \in Jobs : c \in {Main(j), Thread(j)}
  BY <1>1, CallerIs DEF IInv, FlowInv, Ops, Appends, Updates
<1>5. c # Sweeping /\ op # "driver" => \E j \in Jobs : c = Main(j)
  BY <1>1, <1>4, CallerIs DEF IInv, FlowInv, Ops, Appends, Updates
<1>6. CASE op = "prune"
  <2>1. T = [i \in Jobs |-> IF i \in aged /\ conn[i] # NoRow /\ conn[i].status \in Terminal
                            THEN NoRow ELSE conn[i]]
    BY <1>2, <1>6 DEF Effect, Appends, Updates
  <2> QED BY <1>1, <1>2, <1>6, <2>1
<1>7. CASE op # "prune"
  <2>1. PICK j \in Jobs : c \in {Main(j), Thread(j)}
    BY <1>4, <1>7
  <2>2. c[1] = j /\ (op # "driver" => c = Main(j))
    BY <2>1, <1>5, <1>7, CallersDiffer, MainOrNot
  <2>3. CASE op = "create"
    <3>1. T = [conn EXCEPT ![j] = [status |-> "queued", logs |-> {"queued"}]]
      BY <2>2, <2>3 DEF Effect, Appends, Updates
    <3>2. [status |-> "queued", logs |-> {"queued"}] \in Rows
      BY DEF Rows, Statuses, Lines
    <3> QED BY <1>1, <1>2, <2>2, <2>3, <3>1, <3>2, CallersDiffer
  <2>4. CASE op \in Appends
    <3>1. T = IF conn[j] = NoRow THEN conn ELSE [conn EXCEPT ![j].logs = conn[j].logs \cup {op}]
      BY <1>7, <2>2, <2>4 DEF Effect, Appends, Updates
    <3>2. conn[j] # NoRow => [conn[j] EXCEPT !.logs = conn[j].logs \cup {op}] \in Rows
      BY <1>1, <2>4 DEF Rows, Lines, Appends
    <3> QED BY <1>1, <1>2, <2>1, <2>4, <3>1, <3>2 DEF Rows, Appends
  <2>5. CASE op \in Updates
    <3>1. T = IF conn[j] = NoRow THEN conn ELSE [conn EXCEPT ![j].status = op]
      BY <2>2, <2>5 DEF Effect, Updates, Appends
    <3>2. conn[j] # NoRow => [conn[j] EXCEPT !.status = op] \in Rows
      BY <1>1, <2>5 DEF Rows, Statuses, Updates
    <3> QED BY <1>1, <1>2, <2>2, <2>5, <3>1, <3>2 DEF Rows, Updates
  <2> QED BY <1>1, <1>7, <2>3, <2>4, <2>5 DEF Ops
<1> QED BY <1>6, <1>7

LEMMA ExecuteStep ==
  ASSUME IInv, NEW c \in Callers, Execute(c) PROVE IInv'
<1> DEFINE T == Effect(c, call[c].op, conn)
<1>1. /\ call[c].step = "holds" /\ lock = c /\ call[c] # Free
      /\ call[c].op \in Ops /\ conn' = T
      /\ T \in [Jobs -> Rows \cup {NoRow}]
  BY EffectFacts DEF Execute, IInv, TypeOK, Free
<1>2. PICK s \in {"void", "wrote"} : call' = [call EXCEPT ![c] = [op |-> call[c].op, step |-> s]]
  BY DEF Execute
<1>3. server = "up"
  BY <1>1 DEF IInv, FlowInv, TypeOK
<1>4. TypeOK'
  <2> HIDE DEF T
  <2>1. call' \in [Callers -> Calls]
    BY <1>1, <1>2, CallTypes DEF IInv, TypeOK
  <2>2. \A e \in Callers : call'[e].step \in {"holds", "wrote", "void"} <=> lock' = e
    BY <1>1, <1>2 DEF IInv, TypeOK, Execute
  <2> QED BY <1>1, <2>1, <2>2 DEF IInv, TypeOK, Execute
<1>5. FlowInv'
  <2>1. \A e \in Callers : call'[e].step # "holds"
    BY <1>1, <1>2 DEF IInv, TypeOK
  <2> QED BY <1>1, <1>2, <1>3, <2>1, CallersDiffer DEF IInv, FlowInv, TypeOK, Execute
<1>6. ASSUME NEW j \in Jobs
      PROVE  /\ Unborn(j)' => disk'[j] = NoRow /\ conn'[j] = NoRow
             /\ Follows(j)'
             /\ Dead(disk, j)' /\ Dead(conn, j)'
             /\ job'[j].state = "killed" /\ server' # "boot" => Done(conn, j)'
             /\ job'[j].state = "killed" /\ server' = "up" => Done(disk, j)'
  <2> DEFINE creates == c = Main(j) /\ call[c].op = "create"
  <2>0. disk' = disk /\ job' = job /\ server' = server
    BY DEF Execute
  <2>1. creates => /\ Unborn(j) /\ disk[j] = NoRow /\ conn[j] = NoRow
                   /\ job[j].state \in {"starts", "ends"} /\ job[j].todo # First
                   /\ ~Unborn(j)'
    BY <1>1, <1>2, CallersDiffer DEF IInv, FlowInv, RowsInv, Unborn, TypeOK, Execute
  <2>2. ~creates => (Unborn(j)' => Unborn(j))
    BY <1>1, <1>2, CallersDiffer DEF Unborn, Execute, IInv, TypeOK
  <2>3. c = Main(j) => job[j].state \in {"starts", "ends"}
    BY <1>1 DEF IInv, FlowInv
  <2>4. /\ ~creates /\ T[j] # NoRow => conn[j] # NoRow
        /\ conn[j] # NoRow /\ T[j] # NoRow /\ ~creates =>
             /\ conn[j].logs \subseteq T[j].logs
             /\ T[j].status = conn[j].status \/ (c = Main(j) /\ T[j].status \in {"completed", "failed"})
        /\ creates /\ T[j] # NoRow => T[j].status = "queued"
    BY <1>1, EffectFacts
  <2>5. /\ Unborn(j) => disk[j] = NoRow /\ conn[j] = NoRow
        /\ Follows(j) /\ Dead(disk, j) /\ Dead(conn, j)
        /\ job[j].state = "killed" /\ server # "boot" => Done(conn, j)
        /\ job[j].state = "killed" /\ server = "up" => Done(disk, j)
    BY DEF IInv, RowsInv
  <2> HIDE DEF T
  <2>6. CASE creates
    BY <1>1, <2>0, <2>1, <2>4, <2>5, <2>6 DEF Follows, Dead, Done
  <2>7. CASE ~creates
    <3>1. Unborn(j)' => disk'[j] = NoRow /\ conn'[j] = NoRow
      BY <1>1, <2>0, <2>2, <2>4, <2>5, <2>7
    <3>2. Follows(j)' /\ Dead(disk, j)' /\ Dead(conn, j)'
      BY <1>1, <2>0, <2>3, <2>4, <2>5, <2>7 DEF Follows, Dead
    <3>3. job'[j].state = "killed" => Done(conn, j)' /\ Done(disk, j)'
      BY <1>1, <1>3, <2>0, <2>3, <2>4, <2>5, <2>7 DEF Done
    <3> QED BY <3>1, <3>2, <3>3
  <2> QED BY <2>6, <2>7
<1>7. RowsInv'
  BY <1>6 DEF RowsInv
<1> QED BY <1>4, <1>5, <1>7 DEF IInv

LEMMA CommitStep ==
  ASSUME IInv, NEW c \in Callers, Commit(c) PROVE IInv'
<1>1. /\ call[c].step \in {"wrote", "void"} /\ lock = c /\ call[c] # Free
      /\ disk' \in {disk, conn} /\ conn' = conn /\ lock' = Nobody /\ server' = server
      /\ call' = [call EXCEPT ![c] = Free]
  BY DEF Commit, IInv, TypeOK, Free
<1>2. server = "up"
  BY <1>1 DEF IInv, FlowInv, TypeOK
<1>3. ASSUME NEW j \in Jobs
      PROVE  \/ job'[j] = job[j]
             \/ /\ c = Main(j) /\ job[j].todo = <<>> /\ job[j].state \in {"starts", "ends"}
                /\ \E s \in {"works", "over"} : job'[j] = [job[j] EXCEPT !.state = s]
  <2>1. CASE c = Main(j)
    <3>1. job[j].state \in {"starts", "ends"} /\ job[j] \in [kind : Kinds, todo : Seq(Ops),
            state : {"absent", "starts", "works", "ends", "over", "lost", "stray", "killed"}]
      BY <1>1, <2>1 DEF IInv, FlowInv, TypeOK
    <3>2. job' = [job EXCEPT ![j] = Resumed(j)]
      BY <2>1, MainOrNot DEF Commit
    <3>3. \/ Resumed(j) = job[j]
          \/ job[j].todo = <<>> /\ \E s \in {"works", "over"} : Resumed(j) = [job[j] EXCEPT !.state = s]
      BY <3>1 DEF Resumed
    <3> QED BY <2>1, <3>1, <3>2, <3>3 DEF IInv, TypeOK
  <2>2. CASE c # Main(j)
    <3>1. c[2] = "main" => c[1] # j /\ c[1] \in Jobs
      BY <2>2, CallerIs, MainOrNot
    <3> QED BY <3>1 DEF Commit, IInv, TypeOK
  <2> QED BY <2>1, <2>2
<1>4. job' \in [Jobs -> JobRecords]
  <2>1. job' = [j \in Jobs |-> job'[j]]
    BY JobType DEF Commit
  <2>2. ASSUME NEW j \in Jobs PROVE job'[j] \in JobRecords
    <3>1. job[j] \in JobRecords
      BY JobType
    <3>2. \A s \in {"works", "over"} : [job[j] EXCEPT !.state = s] \in JobRecords
      BY <3>1, StateSet
    <3> QED BY <1>3, <3>1, <3>2
  <2> QED BY <2>1, <2>2
<1>5. TypeOK'
  <2>1. call' \in [Callers -> Calls]
    BY <1>1, CallTypes DEF IInv, TypeOK
  <2>2. \A e \in Callers : call'[e].step \in {"holds", "wrote", "void"} <=> lock' = e
    BY <1>1, CallersDiffer DEF IInv, TypeOK, Free
  <2> QED BY <1>1, <1>4, <2>1, <2>2 DEF IInv, TypeOK, Commit, JobRecords
<1>6. FlowInv'
  <2>1. ASSUME NEW j \in Jobs
        PROVE  /\ call'[Main(j)] # Free => job'[j].state \in {"starts", "ends"}
               /\ call'[Thread(j)].op \in {"none", "driver"}
               /\ job'[j].todo = First => job'[j].state = "starts" /\ call'[Main(j)] = Free
               /\ job'[j].todo # First =>
                    \A i \in 1..Len(job'[j].todo) : job'[j].todo[i] # "create"
    <3>1. job[j] \in JobRecords
      BY JobType
    <3>2. CASE job'[j] = job[j]
      BY <1>1, <3>2, CallersDiffer DEF IInv, FlowInv, TypeOK, Free
    <3>3. CASE /\ c = Main(j) /\ job[j].todo = <<>>
               /\ \E s \in {"works", "over"} : job'[j] = [job[j] EXCEPT !.state = s]
      <4>1. job'[j].todo = <<>>
        BY <3>1, <3>3 DEF JobRecords
      <4>2. call'[Main(j)] = Free /\ call'[Thread(j)] = call[Thread(j)]
        BY <1>1, <3>3, CallersDiffer DEF IInv, TypeOK
      <4> QED BY <4>1, <4>2, FirstFacts DEF IInv, FlowInv
    <3> QED BY <1>3, <3>2, <3>3
  <2>2. call'[Sweeping].op \in {"none", "prune"}
    BY <1>1, CallersDiffer DEF IInv, FlowInv, TypeOK, Free
  <2>3. \A e \in Callers : call'[e].step = "holds" => call'[e].seen = conn'
    BY <1>1 DEF IInv, FlowInv, TypeOK, Free
  <2> QED BY <1>1, <1>2, <2>1, <2>2, <2>3 DEF FlowInv
<1>7. RowsInv'
  <2>1. ASSUME NEW j \in Jobs
        PROVE  /\ Unborn(j)' => Unborn(j)
               /\ job[j].state \in {"over", "killed"} => job'[j].state \in {"over", "killed"}
               /\ job'[j].state = "killed" => job[j].state = "killed"
    BY <1>1, <1>3, JobType, CallersDiffer, FirstFacts DEF Unborn, IInv, TypeOK, Free, JobRecords
  <2> QED BY <1>1, <1>2, <2>1 DEF IInv, RowsInv, Follows, Dead, Done
<1> QED BY <1>5, <1>6, <1>7 DEF IInv

-----------------------------------------------------------------------------
(* Jobs *)

\* Steps that touch neither table.
LEMMA RowsStay ==
  ASSUME RowsInv, UNCHANGED <<disk, conn, server>>,
         \A j \in Jobs :
           /\ Unborn(j)' => Unborn(j)
           /\ job[j].state \in {"over", "killed"} => job'[j].state \in {"over", "killed"}
           /\ job'[j].state = "killed" => job[j].state = "killed"
  PROVE  RowsInv'
BY DEF RowsInv, Follows, Dead, Done

LEMMA EnqueueStep ==
  ASSUME IInv, NEW j \in Jobs, Enqueue(j) PROVE IInv'
<1>1. /\ server = "up" /\ job[j].state = "absent" /\ call[Main(j)] = Free
      /\ job' = [job EXCEPT ![j] = [@ EXCEPT !.state = "starts", !.todo = First]]
      /\ UNCHANGED <<disk, conn, lock, call, aged, server, crashes>>
  BY DEF Enqueue, IInv, TypeOK, FlowInv, First
<1>2. job' \in [Jobs -> JobRecords]
  BY <1>1, JobType, FirstFacts DEF JobRecords
<1>3. TypeOK'
  BY <1>1, <1>2 DEF IInv, TypeOK, JobRecords
<1>4. FlowInv'
  BY <1>1 DEF IInv, TypeOK, FlowInv
<1>5. RowsInv'
  BY <1>1, RowsStay DEF IInv, TypeOK, Unborn
<1> QED BY <1>3, <1>4, <1>5 DEF IInv

LEMMA NextCallStep ==
  ASSUME IInv, NEW j \in Jobs, NextCall(j) PROVE IInv'
<1> DEFINE todo == job[j].todo
           op == Head(todo)
<1>1. /\ job[j].state \in {"starts", "ends"} /\ todo # <<>> /\ todo \in Seq(Ops)
      /\ call[Main(j)] = Free /\ call' = [call EXCEPT ![Main(j)] = Ask(op)]
      /\ job' = [job EXCEPT ![j] = [@ EXCEPT !.todo = Tail(todo)]]
      /\ UNCHANGED <<disk, conn, lock, aged, server, crashes>>
  BY DEF NextCall, Call, IInv, TypeOK
<1>2. /\ op \in Ops /\ Tail(todo) \in Seq(Ops) /\ Len(Tail(todo)) = Len(todo) - 1
      /\ \A i \in 1..Len(Tail(todo)) : Tail(todo)[i] = todo[i + 1]
  BY <1>1, HeadTailProperties
<1>3. server = "up"
  BY <1>1 DEF IInv, FlowInv, TypeOK
<1>4. /\ \A i \in 1..Len(Tail(todo)) : Tail(todo)[i] # "create"
      /\ Tail(todo) # First
      /\ op = "create" => todo = First
  <2>1. CASE todo = First
    <3>1. Tail(todo) = <<"begun">>
      BY <2>1 DEF First
    <3> QED BY <2>1, <3>1 DEF First
  <2>2. CASE todo # First
    <3>1. \A i \in 1..Len(todo) : todo[i] # "create"
      BY <2>2 DEF IInv, FlowInv
    <3>2. op = todo[1] /\ Len(todo) \in Nat /\ Len(todo) # 0
      BY <1>1
    <3>3. \A i \in 1..Len(Tail(todo)) : Tail(todo)[i] # "create"
      BY <1>2, <3>1, <3>2
    <3>4. Tail(todo) # First
      BY <3>3, NotFirst
    <3> QED BY <3>1, <3>2, <3>3, <3>4
  <2> QED BY <2>1, <2>2
<1> HIDE DEF todo, op
<1>5. TypeOK'
  <2>1. call' \in [Callers -> Calls]
    BY <1>1, <1>2, CallTypes DEF IInv, TypeOK
  <2>2. job' \in [Jobs -> JobRecords]
    BY <1>1, <1>2, JobType DEF JobRecords
  <2>3. \A e \in Callers : call'[e].step \in {"holds", "wrote", "void"} <=> lock' = e
    BY <1>1 DEF IInv, TypeOK, Ask, Free
  <2> QED BY <1>1, <2>1, <2>2, <2>3 DEF IInv, TypeOK, JobRecords
<1>6. FlowInv'
  BY <1>1, <1>3, <1>4, CallersDiffer DEF IInv, TypeOK, FlowInv, Ask
<1>7. Unborn(j)' => Unborn(j)
  BY <1>1, <1>4, CallersDiffer DEF IInv, TypeOK, Unborn, Ask, todo
<1>8. RowsInv'
  BY <1>1, <1>7, RowsStay, CallersDiffer DEF IInv, TypeOK, Unborn
<1> QED BY <1>5, <1>6, <1>8 DEF IInv

LEMMA WorkEndsStep ==
  ASSUME IInv, NEW j \in Jobs, WorkEnds(j) PROVE IInv'
<1>1. PICK calls \in Endings(job[j].kind) :
        job' = [job EXCEPT ![j] = [@ EXCEPT !.state = "ends", !.todo = calls]]
  BY JobType DEF WorkEnds, JobRecords
<1>2. job[j].state = "works" /\ UNCHANGED <<disk, conn, lock, call, aged, server, crashes>>
  BY DEF WorkEnds
<1>3. job[j].kind \in AllKinds
  BY JobType DEF JobRecords
<1>4. /\ calls \in Seq(Ops) /\ calls # First
      /\ \A i \in 1..Len(calls) : calls[i] # "create"
  <2>1. {"completed", "error", "failed"} \subseteq Ops \ {"create"}
    BY DEF Ops, Appends, Updates
  <2>2. /\ Plain(<<>>) /\ Plain(<<"completed">>) /\ Plain(<<"error">>)
        /\ Plain(<<"error", "failed">>) /\ Plain(<<"completed", "error", "failed">>)
    BY <2>1, ShortEndings
  <2>3. ASSUME job[j].kind # "apply" PROVE Plain(calls)
    BY <1>1, <1>3, <2>2, <2>3 DEF Endings, AllKinds
  <2>4. ASSUME job[j].kind = "apply" PROVE Plain(calls)
    <3>1. PICK power \in {<<>>, <<"error">>},
               config \in {<<>>, <<"completed">>, <<"error", "failed">>} :
            calls = power \o config \o <<"completed">>
      BY <1>1, <2>4 DEF Endings
    <3>2. Plain(power) /\ Plain(config)
      BY <2>2
    <3>3. Plain(power \o config)
      BY <3>2, JoinedEndings
    <3> QED
      BY <2>2, <3>1, <3>3, JoinedEndings
  <2>5. Plain(calls)
    BY <2>3, <2>4
  <2> QED BY <2>5, NotFirst DEF Plain
<1>5. TypeOK'
  <2>1. job' \in [Jobs -> JobRecords]
    BY <1>1, <1>4, JobType DEF JobRecords
  <2> QED BY <1>2, <2>1 DEF IInv, TypeOK, JobRecords
<1>6. FlowInv'
  BY <1>1, <1>2, <1>4 DEF IInv, TypeOK, FlowInv
<1>7. RowsInv'
  BY <1>1, <1>2, <1>4, RowsStay DEF IInv, TypeOK, Unborn
<1> QED BY <1>5, <1>6, <1>7 DEF IInv

LEMMA WorkRaisesStep ==
  ASSUME IInv, NEW j \in Jobs, WorkRaises(j) PROVE IInv'
<1>1. /\ job[j].state = "works" /\ job' = [job EXCEPT ![j] = [@ EXCEPT !.state = "lost"]]
      /\ UNCHANGED <<disk, conn, lock, call, aged, server, crashes>>
  BY DEF WorkRaises
<1>2. TypeOK'
  <2>1. job' \in [Jobs -> JobRecords]
    BY <1>1, JobType, StateSet
  <2> QED BY <1>1, <2>1 DEF IInv, TypeOK, JobRecords
<1>3. FlowInv'
  BY <1>1 DEF IInv, TypeOK, FlowInv
<1>4. RowsInv'
  BY <1>1, RowsStay DEF IInv, TypeOK, Unborn
<1> QED BY <1>2, <1>3, <1>4 DEF IInv

\* A caller other than a coroutine makes its one kind of call.
LEMMA SideCall ==
  ASSUME IInv, NEW c \in Callers, NEW op \in Ops, Call(c, op), server = "up",
         UNCHANGED <<disk, conn, lock, job, aged, server, crashes>>,
         \/ c = Sweeping /\ op = "prune"
         \/ op = "driver" /\ \E j \in Jobs : c = Thread(j)
  PROVE  IInv'
<1>1. call[c] = Free /\ call' = [call EXCEPT ![c] = Ask(op)]
  BY DEF Call
<1>2. \A j \in Jobs : c # Main(j) /\ call'[Main(j)] = call[Main(j)]
  BY <1>1, CallersDiffer DEF IInv, TypeOK
<1>3. TypeOK'
  <2>1. call' \in [Callers -> Calls]
    BY <1>1, CallTypes DEF IInv, TypeOK
  <2>2. \A e \in Callers : call'[e].step \in {"holds", "wrote", "void"} <=> lock' = e
    BY <1>1 DEF IInv, TypeOK, Ask, Free
  <2> QED BY <2>1, <2>2 DEF IInv, TypeOK
<1>4. FlowInv'
  BY <1>1, <1>2, CallersDiffer DEF IInv, TypeOK, FlowInv, Ask
<1>5. RowsInv'
  BY <1>2, RowsStay DEF IInv, Unborn
<1> QED BY <1>3, <1>4, <1>5 DEF IInv

LEMMA DriverLogsStep ==
  ASSUME IInv, NEW j \in Jobs, DriverLogs(j) PROVE IInv'
<1>1. server = "up"
  BY DEF DriverLogs, IInv, FlowInv, TypeOK
<1>2. Thread(j) \in Callers /\ "driver" \in Ops
  BY CallersDiffer DEF Ops, Appends
<1> QED BY <1>1, <1>2, SideCall DEF DriverLogs

LEMMA PruneStep ==
  ASSUME IInv, Prune PROVE IInv'
<1>1. Sweeping \in Callers /\ "prune" \in Ops
  BY CallersDiffer DEF Ops
<1> QED BY <1>1, SideCall DEF Prune

LEMMA CancelStep ==
  ASSUME IInv, NEW j \in Jobs, Cancel(j) PROVE IInv'
<1> DEFINE c == Main(j)
<1>1. PICK s \in {"stray", "lost"} : job' = [job EXCEPT ![j] = [@ EXCEPT !.state = s, !.todo = <<>>]]
  BY JobType DEF Cancel, JobRecords
<1>2. /\ job[j].state \in {"starts", "works", "ends"} /\ c \in Callers
      /\ call' = [call EXCEPT ![c] = Free]
      /\ lock' = IF lock = c THEN Nobody ELSE lock
      /\ UNCHANGED <<disk, conn, aged, server, crashes>>
  BY CallersDiffer DEF Cancel
<1>3. server = "up"
  BY <1>2 DEF IInv, FlowInv, TypeOK
<1> HIDE DEF c
<1>4. TypeOK'
  <2>1. call' \in [Callers -> Calls]
    BY <1>2, CallTypes DEF IInv, TypeOK
  <2>2. job' \in [Jobs -> JobRecords]
    BY <1>1, JobType, NoCalls DEF JobRecords
  <2>3. \A e \in Callers : call'[e].step \in {"holds", "wrote", "void"} <=> lock' = e
    BY <1>2, CallersDiffer DEF IInv, TypeOK, Free
  <2> QED BY <1>2, <2>1, <2>2, <2>3 DEF IInv, TypeOK, JobRecords
<1>5. /\ call'[Main(j)] = Free /\ job'[j].todo = <<>>
      /\ \A e \in Callers : call'[e] \in {Free, call[e]}
      /\ \A i \in Jobs : i # j => call'[Main(i)] = call[Main(i)] /\ job'[i] = job[i]
  BY <1>1, <1>2, JobType, CallersDiffer DEF IInv, TypeOK, JobRecords, c
<1>6. FlowInv'
  <2>1. \A i \in Jobs : call'[Thread(i)].op \in {"none", "driver"}
    BY <1>5, CallersDiffer DEF IInv, FlowInv, Free
  <2>2. call'[Sweeping].op \in {"none", "prune"}
    BY <1>5, CallersDiffer DEF IInv, FlowInv, Free
  <2>3. \A e \in Callers : call'[e].step = "holds" => call'[e].seen = conn'
    BY <1>2, <1>5 DEF IInv, FlowInv, Free
  <2>4. \A i \in Jobs :
          /\ call'[Main(i)] # Free => job'[i].state \in {"starts", "ends"}
          /\ job'[i].todo = First => job'[i].state = "starts" /\ call'[Main(i)] = Free
          /\ job'[i].todo # First => \A k \in 1..Len(job'[i].todo) : job'[i].todo[k] # "create"
    BY <1>5, FirstFacts DEF IInv, FlowInv
  <2> QED BY <1>2, <1>3, <2>1, <2>2, <2>3, <2>4 DEF FlowInv
<1>7. RowsInv'
  <2>1. job'[j].state = s
    BY <1>1, JobType DEF JobRecords
  <2> QED BY <1>2, <1>5, <2>1, RowsStay, FirstFacts DEF IInv, Unborn, Free
<1> QED BY <1>4, <1>6, <1>7 DEF IInv

LEMMA AgeStep ==
  ASSUME IInv, NEW j \in Jobs, Age(j) PROVE IInv'
<1>1. aged' \subseteq Jobs /\ UNCHANGED <<disk, conn, lock, call, job, server, crashes>>
  BY DEF Age, IInv, TypeOK
<1> QED BY <1>1, RowsStay DEF IInv, TypeOK, FlowInv, Unborn

-----------------------------------------------------------------------------
(* Crash and recovery *)

LEMMA CrashStep ==
  ASSUME IInv, Crash PROVE IInv'
<1>1. /\ crashes < MaxCrashes /\ crashes' = crashes + 1
      /\ conn' = disk /\ disk' = disk /\ lock' = Nobody /\ aged' = aged /\ server' = "boot"
      /\ call' = [c \in Callers |-> Free]
  BY DEF Crash
<1>2. ASSUME NEW j \in Jobs
      PROVE  /\ job'[j] \in JobRecords /\ job'[j].state \in {"absent", "over", "killed"}
             /\ job[j].state \in {"absent", "over"} => job'[j] = job[j]
             /\ job[j].state \notin {"absent", "over"} => job'[j].state = "killed" /\ job'[j].todo = <<>>
  BY JobType, NoCalls DEF Crash, JobRecords
<1>3. TypeOK'
  <2>1. job' \in [Jobs -> JobRecords]
    BY <1>2 DEF Crash
  <2> QED BY <1>1, <2>1, CallTypes, CallersDiffer DEF IInv, TypeOK, JobRecords, Free
<1>4. FlowInv'
  BY <1>1, <1>2, CallersDiffer, FirstFacts DEF IInv, FlowInv, Free
<1>5. RowsInv'
  <2>1. \A j \in Jobs : Unborn(j)' => Unborn(j)
    BY <1>1, <1>2, CallersDiffer, FirstFacts DEF Unborn, Free
  <2> QED BY <1>1, <1>2, <2>1 DEF IInv, RowsInv, Follows, Dead, Done
<1> QED BY <1>3, <1>4, <1>5 DEF IInv

LEMMA RecoverStep ==
  ASSUME IInv, Recover PROVE IInv'
<1>1. /\ server = "boot" /\ server' = "recovered"
      /\ UNCHANGED <<disk, lock, call, job, aged, crashes>>
      /\ conn \in [Jobs -> Rows \cup {NoRow}]
      /\ \A j \in Jobs : job[j].state \in {"absent", "over", "killed"}
  BY DEF Recover, IInv, TypeOK, FlowInv
<1>2. ASSUME NEW j \in Jobs
      PROVE  /\ conn'[j] \in Rows \cup {NoRow}
             /\ conn[j] = NoRow => conn'[j] = NoRow
             /\ conn[j] # NoRow =>
                  /\ conn'[j] # NoRow /\ conn[j].logs \subseteq conn'[j].logs
                  /\ conn'[j].status \in Terminal
                  /\ conn[j].status = "interrupted" => conn'[j].status = "interrupted"
  <2>1. CASE j \in Orphans
    <3>1. conn'[j] = Marked(j) /\ conn[j] # NoRow /\ conn[j].status = "queued"
      BY <2>1 DEF Recover, Orphans
    <3>2. Marked(j) \in Rows
      BY <1>1, <3>1 DEF Marked, Rows, Statuses, Lines
    <3> QED BY <3>1, <3>2 DEF Marked, Terminal
  <2>2. CASE j \notin Orphans
    BY <1>1, <2>2 DEF Recover, Orphans, Rows, Statuses, Terminal
  <2> QED BY <2>1, <2>2
<1>3. TypeOK'
  <2>1. conn' \in [Jobs -> Rows \cup {NoRow}]
    BY <1>2 DEF Recover
  <2> QED BY <1>1, <2>1 DEF IInv, TypeOK
<1>4. FlowInv'
  BY <1>1 DEF IInv, TypeOK, FlowInv, Free
<1>5. RowsInv'
  <2>1. ASSUME NEW j \in Jobs
        PROVE  /\ Unborn(j)' => disk'[j] = NoRow /\ conn'[j] = NoRow
               /\ Follows(j)' /\ Dead(disk, j)' /\ Dead(conn, j)' /\ Done(conn, j)'
    <3>1. Unborn(j)' <=> Unborn(j)
      BY <1>1 DEF Unborn
    <3>2. Unborn(j) => disk[j] = NoRow /\ conn[j] = NoRow
      BY DEF IInv, RowsInv
    <3>3. Follows(j) /\ Dead(disk, j)
      BY DEF IInv, RowsInv
    <3>4. job[j].state = "absent" => conn[j] = NoRow
      BY <3>2 DEF Unborn
    <3> QED BY <1>1, <1>2, <3>1, <3>2, <3>3, <3>4 DEF Follows, Dead, Done
  <2> QED BY <1>1, <2>1 DEF RowsInv
<1> QED BY <1>3, <1>4, <1>5 DEF IInv

LEMMA ServeStep ==
  ASSUME IInv, Serve PROVE IInv'
<1>1. /\ server = "recovered" /\ server' = "up" /\ disk' = conn
      /\ UNCHANGED <<conn, lock, call, job, aged, crashes>>
  BY DEF Serve
<1>2. TypeOK' /\ FlowInv'
  BY <1>1 DEF IInv, TypeOK, FlowInv
<1>3. RowsInv'
  BY <1>1 DEF IInv, RowsInv, Unborn, Follows, Dead, Done
<1> QED BY <1>2, <1>3 DEF IInv

-----------------------------------------------------------------------------
(* The theorems *)

LEMMA InitIInv == Init => IInv
<1> SUFFICES ASSUME Init PROVE IInv
  OBVIOUS
<1>1. job \in [Jobs -> JobRecords] /\ \A j \in Jobs : job[j].state = "absent" /\ job[j].todo = <<>>
  BY NoCalls DEF Init, JobRecords
<1>2. TypeOK
  BY <1>1, CallTypes, CallersDiffer DEF Init, TypeOK, JobRecords, Free
<1>3. FlowInv
  BY <1>1, CallersDiffer, NoCalls, FirstFacts DEF Init, FlowInv, Free
<1>4. RowsInv
  BY DEF Init, RowsInv, Follows, Dead, Done
<1> QED BY <1>2, <1>3, <1>4 DEF IInv

LEMMA NextIInv == IInv /\ [Next]_vars => IInv'
<1> SUFFICES ASSUME IInv, [Next]_vars PROVE IInv'
  OBVIOUS
<1>1. CASE \E c \in Callers : Acquire(c) \/ Execute(c) \/ Commit(c)
  BY <1>1, AcquireStep, ExecuteStep, CommitStep
<1>2. CASE \E j \in Jobs : Enqueue(j) \/ JobSteps(j) \/ DriverLogs(j) \/ Cancel(j) \/ Age(j)
  BY <1>2, EnqueueStep, NextCallStep, WorkEndsStep, WorkRaisesStep, DriverLogsStep, CancelStep,
     AgeStep DEF JobSteps
<1>3. CASE Prune \/ Crash \/ Recover \/ Serve
  BY <1>3, PruneStep, CrashStep, RecoverStep, ServeStep
<1>4. CASE UNCHANGED vars
  BY <1>4 DEF vars, IInv, TypeOK, FlowInv, RowsInv, Unborn, Follows, Dead, Done
<1> QED BY <1>1, <1>2, <1>3, <1>4 DEF Next

LEMMA IInvAlways == Spec => []IInv
BY InitIInv, NextIInv, PTL DEF Spec

\* Type correctness of the job store and its callers, and that its lock has one
\* holder at a time (Database._lock).
THEOREM TypeCorrect == Spec => []TypeOK
<1>1. IInv => TypeOK
  BY DEF IInv
<1> QED BY <1>1, IInvAlways, PTL

\* Every job that a crash took with it is marked in the table on disk before the
\* first request is served, and stays marked (recover_orphaned_jobs, lifespan).
THEOREM OrphansAreMarked == Spec => []OrphansMarked
<1>1. IInv => OrphansMarked
  BY DEF IInv, RowsInv, OrphansMarked, Done
<1> QED BY <1>1, IInvAlways, PTL

\* What a step does to the committed table: nothing, or it commits the
\* connection's, or that is all that is left of the connection's.
LEMMA DiskSteps == [Next]_vars => disk' = disk \/ disk' = conn
BY DEF Next, vars, JobSteps, Acquire, Execute, Commit, Enqueue, NextCall, WorkEnds, WorkRaises,
       DriverLogs, Cancel, Age, Prune, Crash, Recover, Serve

\* No line of a log is lost, whatever calls, cancellations and crashes come
\* between (append_log reads, extends and writes back).
THEOREM LogsAreKept == Spec => LogsKept
<1>1. IInv /\ [Next]_vars =>
        [\A j \in Jobs : disk[j] # NoRow /\ disk'[j] # NoRow => disk[j].logs \subseteq disk'[j].logs]_vars
  BY DiskSteps DEF IInv, RowsInv, Follows
<1> QED BY <1>1, IInvAlways, PTL DEF Spec, LogsKept

\* A job reported as interrupted gets no other outcome: whoever could report one
\* died before the recovery marked it.
THEOREM InterruptedIsFinal == Spec => InterruptedStands
<1>1. IInv /\ [Next]_vars =>
        [\A j \in Jobs : disk[j] # NoRow /\ disk'[j] # NoRow /\ disk[j].status = "interrupted"
                       => disk'[j].status = "interrupted"]_vars
  BY DiskSteps DEF IInv, RowsInv, Follows
<1> QED BY <1>1, IInvAlways, PTL DEF Spec, InterruptedStands
=============================================================================
