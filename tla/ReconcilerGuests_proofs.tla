----------------------- MODULE ReconcilerGuests_proofs -----------------------
(***************************************************************************)
(* Whose guest a job of Reconciler acts on: the lock excludes, a guest has *)
(* one name and its workload no other guest, a quarantine stands, and one  *)
(* pass heals any drift, for every set of records, coroutines, VMIDs and   *)
(* statuses and every bound.                                               *)
(***************************************************************************)
EXTENDS Reconciler_proofs

\* One job at a time is past the lock of a workload.
LockInv ==
  \A t, u \in Tasks : Working(t) /\ Working(u) /\ job[t].rec = job[u].rec => t = u

\* Only t's job changes: it ends, waits for the lock, or goes on for the workload
\* whose lock it has or takes.
LEMMA LockStep ==
  ASSUME LockInv, Shape, NEW t \in Tasks, NEW k, job' = [job EXCEPT ![t] = k],
         \/ k.phase \in {"idle", "lock"}
         \/ k.rec = job[t].rec /\ (Working(t) \/ ~Locked(job[t].rec))
  PROVE  LockInv'
<1>1. \A u \in Tasks \ {t} : job'[u] = job[u]
  BY DEF Shape, JobsInv
<1>2. job'[t] = k
  BY DEF Shape, JobsInv
<1>3. ASSUME NEW u \in Tasks \ {t}, Working(t)', Working(u)', job'[t].rec = job'[u].rec
      PROVE  FALSE
  <2>1. k.rec = job[t].rec /\ Working(u) /\ job[u].rec = job[t].rec
    BY <1>1, <1>2, <1>3 DEF Working
  <2>2. ~Working(t)
    BY <2>1 DEF LockInv
  <2> QED BY <1>2, <1>3, <2>1, <2>2 DEF Working, Locked
<1> QED BY <1>1, <1>3 DEF LockInv, Working

\* A worker holds the lock of its workload from its decision to its end.
LEMMA WorkMoves ==
  ASSUME Assumed, Shape, NEW t \in Tasks, Work(t) \/ CloneOutlasts(t)
  PROVE  /\ Working(t) /\ todo' = todo /\ stray' = stray
         /\ \E k : /\ job' = [job EXCEPT ![t] = k]
                   /\ \/ k = Idle
                      \/ /\ k.rec = job[t].rec /\ k.event = job[t].event
                         /\ k.hint = job[t].hint
<1> DEFINE Going(k) == k.rec = job[t].rec /\ k.event = job[t].event /\ k.hint = job[t].hint
           Goal == \E k : job' = [job EXCEPT ![t] = k] /\ (k = Idle \/ Going(k))
<1>1. job[t] \in Jobs /\ job \in [Tasks -> Jobs]
  BY DEF Shape, JobsInv
<1>2. Working(t) /\ todo' = todo /\ stray' = stray
  BY DEF Work, Decide, Purge, Quarantine, Tag, Adopt, Provision, Clone, Writeback, PowerSync,
         ConfigSync, CloneOutlasts, Working
<1>3. ASSUME End(t) PROVE Goal
  BY <1>3 DEF End
<1>4. ASSUME NEW ph, Goto(t, ph) PROVE Goal
  <2>1. Going([job[t] EXCEPT !.phase = ph]) /\ job' = [job EXCEPT ![t] = [job[t] EXCEPT !.phase = ph]]
    BY <1>1, <1>4 DEF Goto, Jobs
  <2> QED BY <2>1
<1>5. ASSUME NEW k, Proceed(t, k), Going(k) PROVE Goal
  BY <1>5 DEF Proceed
<1>6. ASSUME Decide(t) PROVE Goal
  <2>1. ASSUME NEW v, NEW g, Dispatch(t, v, g) PROVE Goal
    <3>1. Going(Plan(job[t], v, g))
      BY <1>1 DEF Plan, Jobs
    <3> QED BY <1>3, <1>5, <2>1, <3>1 DEF Dispatch
  <2> QED BY <1>6, <2>1 DEF Decide
<1>7. ASSUME Purge(t) \/ Tag(t) \/ Writeback(t) \/ ConfigSync(t) \/ CloneOutlasts(t) PROVE Goal
  BY <1>3, <1>7 DEF Purge, Tag, Writeback, ConfigSync, CloneOutlasts
<1>8. ASSUME Quarantine(t) \/ Clone(t) PROVE Goal
  BY <1>3, <1>4, <1>8 DEF Quarantine, Clone
<1>9. ASSUME Adopt(t) PROVE Goal
  <2> DEFINE k == [job[t] EXCEPT !.phase = Transitions(job[t].power, job[t].config),
                                 !.decl.vmid = job[t].target]
  <2>1. Going(k)
    BY <1>1 DEF Jobs
  <2>2. Proceed(t, k)
    BY <1>9 DEF Adopt
  <2> HIDE DEF k
  <2> QED BY <1>5, <2>1, <2>2
<1>10. ASSUME PowerSync(t) PROVE Goal
  <2> DEFINE k == [job[t] EXCEPT !.phase = Transitions("keep", job[t].config)]
  <2>1. Going(k)
    BY <1>1 DEF Jobs
  <2>2. Proceed(t, k)
    BY <1>10 DEF PowerSync
  <2> HIDE DEF k
  <2> QED BY <1>5, <2>1, <2>2
<1>11. ASSUME Provision(t) PROVE Goal
  <2>1. ASSUME NEW v, job' = [job EXCEPT ![t].phase = "clone", ![t].target = v] PROVE Goal
    <3> DEFINE k == [job[t] EXCEPT !.phase = "clone", !.target = v]
    <3>1. Going(k)
      BY <1>1 DEF Jobs
    <3>2. job' = [job EXCEPT ![t] = k]
      BY <1>1, <2>1
    <3> HIDE DEF k
    <3> QED BY <3>1, <3>2
  <2> QED BY <1>3, <1>11, <2>1 DEF Provision, Refuse
<1>12. Goal
  BY <1>6, <1>7, <1>8, <1>9, <1>10, <1>11 DEF Work
<1> QED BY <1>2, <1>12

\* FetchDeclared takes the lock, for the record or the payload it then goes by.
LEMMA FetchMoves ==
  ASSUME Assumed, Shape, NEW t \in Tasks, FetchDeclared(t)
  PROVE  /\ job[t].phase = "lock" /\ ~Locked(job[t].rec) /\ job[t].rec \in Recs
         /\ \E d : job' = [job EXCEPT ![t] = [job[t] EXCEPT !.phase = "inspect", !.decl = d]]
<1>1. PICK d : job' = [job EXCEPT ![t].phase = "inspect", ![t].decl = d]
  BY DEF FetchDeclared
<1>2. job' = [job EXCEPT ![t] = [job[t] EXCEPT !.phase = "inspect", !.decl = d]]
  BY <1>1 DEF Shape, JobsInv
<1> QED BY <1>2 DEF FetchDeclared, Shape, JobsInv, WellFormed

LEMMA NextLock ==
  ASSUME Assumed, Shape, LockInv, [Next]_vars PROVE LockInv'
<1>1. CASE job' = job
  BY <1>1 DEF LockInv, Working
<1>2. ASSUME NEW t \in Tasks, NEW e, Begin(t, e) PROVE LockInv'
  <2> DEFINE k == [Idle EXCEPT !.phase = "lock", !.rec = e.rec, !.event = e.event, !.hint = e.hint]
  <2>1. k.phase = "lock" /\ job' = [job EXCEPT ![t] = k]
    BY <1>2 DEF Begin, Idle
  <2> HIDE DEF k
  <2> QED BY <2>1, LockStep
<1>3. ASSUME NEW t \in Tasks, FetchDeclared(t) PROVE LockInv'
  <2>1. PICK d : job' = [job EXCEPT ![t] = [job[t] EXCEPT !.phase = "inspect", !.decl = d]]
    BY <1>3, FetchMoves
  <2> DEFINE k == [job[t] EXCEPT !.phase = "inspect", !.decl = d]
  <2>2. k.rec = job[t].rec
    BY DEF Shape, JobsInv, Jobs
  <2> HIDE DEF k
  <2> QED BY <1>3, <2>1, <2>2, FetchMoves, LockStep DEF k
<1>4. ASSUME NEW t \in Tasks, Work(t) \/ CloneOutlasts(t) PROVE LockInv'
  <2>1. Idle.phase = "idle"
    BY DEF Idle
  <2> QED BY <1>4, <2>1, WorkMoves, LockStep
<1>5. CASE SweepTimesOut
  <2>1. Sweeper \in Tasks /\ job' = [job EXCEPT ![Sweeper] = Idle] /\ Idle.phase = "idle"
    BY <1>5 DEF SweepTimesOut, End, Tasks, Idle
  <2> QED BY <2>1, LockStep
<1>6. CASE Restart
  BY <1>6 DEF Restart, LockInv, Working, Idle
<1>7. CASE People \/ SweepStarts \/ UNCHANGED vars
           \/ (\E v \in Vmids : Expire(v) \/ AbandonedEnds(v)) \/ (\E j \in stray : StrayEnds(j))
  <2>1. job' = job
    BY <1>7 DEF People, Edit, Delete, Ask, Drift, OutsideDelete, SweepStarts, vars, Expire,
                AbandonedEnds, StrayEnds
  <2> QED BY <1>1, <2>1
<1>8. CASE SweepNext \/ \E t \in Hooks : Deliver(t)
  BY <1>2, <1>8 DEF SweepNext, Deliver, Tasks
<1> QED BY <1>3, <1>4, <1>5, <1>6, <1>7, <1>8 DEF Next, Interruption

\* A workload's asyncio.Lock admits one job at a time, through timeouts and
\* restarts too (the threads these leave behind have no lock).
THEOREM OneJobPerWorkload == Spec => []LockInv
<1>0. Assumed
  BY FlagsAssumption, SizesAssumption, NamesAssumption DEF Assumed
<1>1. Init => LockInv
  BY DEF Init, LockInv, Working, Idle
<1>2. Shape /\ LockInv /\ [Next]_vars => LockInv'
  BY <1>0, NextLock
<1> QED BY <1>1, <1>2, ShapeAlways, PTL DEF Spec

-----------------------------------------------------------------------------
(* Whose guests.  Nobody deletes records or guests and nothing is cut short. *)

\* Deletions free VMIDs that stale links and payloads still point to, and what
\* is cut short acts without its lock: either breaks what follows.
Undisturbed == ~Deletes /\ ~OutsideDeletes /\ ~Interrupts

\* The guest is complete, and r's.
Owned(v, r) == v \in Vmids /\ Usable(v) /\ guest[v].name = r

\* A record, or the copy of one in a payload or a job: however old, it points to
\* r's guest or to none.
Faithful(d, r) == d # NoRecord => d.name = r /\ (d.vmid # NoVmid => Owned(d.vmid, r))

Acting == {"adopt", "quarantine", "tag", "power", "config", "writeback"}

OwnJob(j) ==
  /\ j.event # "deleted" /\ j.phase # "purge"
  /\ Faithful(j.hint, j.rec) /\ Faithful(j.decl, j.rec)
  /\ j.phase = "inspect" /\ j.decl = NoRecord => DefaultNamed = {}
  /\ j.phase \in {"idle", "lock", "inspect", "provision"} => j.target = NoVmid
  /\ j.phase \in Acting => Owned(j.target, j.rec)
  /\ j.phase = "clone" => Exists(j.target) /\ guest[j.target].name = j.rec

FaithfulStores ==
  /\ stray = {}
  /\ \A r \in Recs : record[r] # NoRecord /\ Faithful(record[r], r)
  /\ \A e \in pending \cup todo : e.event # "deleted" /\ Faithful(e.hint, e.rec)

OwnInv ==
  /\ FaithfulStores
  /\ \A t \in Tasks : OwnJob(job[t])
  /\ \A v \in Vmids : Exists(v) /\ guest[v].building => \E t \in Tasks : Cloning(job[t], v)

\* What every step does to a complete guest: it stays, and keeps its name.
KeepsGuests ==
  \A v \in Vmids : Usable(v) => Usable(v)' /\ guest'[v].name = guest[v].name

LEMMA OwnedStays ==
  ASSUME KeepsGuests, NEW v, NEW r, Owned(v, r) PROVE Owned(v, r)'
BY DEF KeepsGuests, Owned, Vmids

LEMMA FaithfulStays ==
  ASSUME KeepsGuests, NEW d, NEW r, Faithful(d, r) PROVE Faithful(d, r)'
BY OwnedStays DEF Faithful

\* A job that does not move, and whose clone nobody touches.
LEMMA OwnJobStays ==
  ASSUME Assumed, Shape, KeepsGuests, NEW t \in Tasks, OwnJob(job[t]), job'[t] = job[t],
         \A w \in Vmids : Cloning(job[t], w) => guest'[w] = guest[w]
  PROVE  OwnJob(job[t])'
<1> DEFINE j == job[t]
<1>1. j.phase = "clone" => guest'[j.target] = guest[j.target]
  BY DEF Cloning, Shape, JobsInv, WellFormed, Phases, Threaded
<1>2. Faithful(j.hint, j.rec)' /\ Faithful(j.decl, j.rec)'
  BY FaithfulStays DEF OwnJob, Faithful, Owned, KeepsGuests, Vmids
<1>3. j.phase \in Acting => Owned(j.target, j.rec)'
  BY OwnedStays DEF OwnJob, Owned, KeepsGuests, Vmids
<1>4. j.phase = "clone" => Exists(j.target)' /\ guest'[j.target].name = j.rec
  BY <1>1 DEF OwnJob, Exists
<1> QED BY <1>2, <1>3, <1>4 DEF OwnJob, Acting

\* No job moves, and no clone begins or ends.
LEMMA OwnStays ==
  ASSUME Assumed, Shape, OwnInv, KeepsGuests, FaithfulStores', job' = job,
         \A w \in Vmids : Exists(w) /\ guest[w].building => guest'[w] = guest[w],
         \A w \in Vmids : Exists(w)' /\ guest'[w].building => Exists(w) /\ guest[w].building
  PROVE  OwnInv'
<1>1. ASSUME NEW t \in Tasks PROVE OwnJob(job[t])'
  <2>1. \A w \in Vmids : Cloning(job[t], w) => guest'[w] = guest[w]
    BY DEF Shape, CloneInv, Running
  <2> QED BY <2>1, OwnJobStays DEF OwnInv
<1>2. (\A v \in Vmids : Exists(v) /\ guest[v].building => \E t \in Tasks : Cloning(job[t], v))'
  BY DEF OwnInv, Vmids
<1> QED BY <1>1, <1>2 DEF OwnInv

\* Only t's job moves.
LEMMA OwnMoves ==
  ASSUME Assumed, Shape, OwnInv, KeepsGuests, FaithfulStores',
         NEW t \in Tasks, NEW k, job' = [job EXCEPT ![t] = k], OwnJob(job[t])',
         \A w \in Vmids : Exists(w) /\ guest[w].building /\ ~Cloning(job[t], w)
                            => guest'[w] = guest[w],
         \A w \in Vmids : Exists(w)' /\ guest'[w].building
                            => \/ Cloning(k, w)
                               \/ Exists(w) /\ guest[w].building /\ ~Cloning(job[t], w)
  PROVE  OwnInv'
<1>1. job'[t] = k /\ \A u \in Tasks \ {t} : job'[u] = job[u]
  BY DEF Shape, JobsInv
<1>2. ASSUME NEW u \in Tasks \ {t} PROVE OwnJob(job[u])'
  <2>1. \A w \in Vmids : Cloning(job[u], w) => guest'[w] = guest[w]
    BY DEF Shape, CloneInv, Running
  <2> QED BY <1>1, <2>1, OwnJobStays DEF OwnInv
<1>3. ASSUME NEW v \in Vmids, Exists(v)', guest'[v].building
      PROVE  \E u \in Tasks : Cloning(job'[u], v)
  BY <1>1, <1>3 DEF OwnInv
<1>4. (\A v \in Vmids : Exists(v) /\ guest[v].building => \E u \in Tasks : Cloning(job[u], v))'
  BY <1>3 DEF Cloning, Vmids
<1> QED BY <1>2, <1>4 DEF OwnInv

\* Stores that nobody writes to stay faithful; so they do if the payloads on
\* their way become fewer.
LEMMA StoresStay ==
  ASSUME KeepsGuests, FaithfulStores, record' = record, stray' = stray,
         \A e \in pending' \cup todo' : e \in pending \cup todo
  PROVE  FaithfulStores'
<1>1. \A r \in Recs : record'[r] # NoRecord /\ Faithful(record[r], r)'
  BY FaithfulStays DEF FaithfulStores, Faithful, Owned, KeepsGuests, Vmids
<1>2. \A e \in pending' \cup todo' : e.event # "deleted" /\ Faithful(e.hint, e.rec)'
  BY FaithfulStays DEF FaithfulStores
<1> QED BY <1>1, <1>2 DEF FaithfulStores

\* A write to r's record changes no name, and no link but to r's guest.
LEMMA StoresWritten ==
  ASSUME Assumed, Shape, FaithfulStores, NEW r \in Recs, NEW d \in Records,
         d.name = record[r].name, d.vmid = record[r].vmid \/ Owned(d.vmid, r),
         record' = record \/ record' = [record EXCEPT ![r] = d],
         Echo(r), UNCHANGED <<guest, todo, stray>>
  PROVE  FaithfulStores'
<1>1. KeepsGuests
  BY DEF KeepsGuests, Usable, Exists
<1>2. ASSUME NEW q \in Recs PROVE record'[q] # NoRecord /\ Faithful(record'[q], q)
  <2>1. Faithful(record[q], q) /\ Faithful(record[r], r) /\ record[q] # NoRecord
        /\ record[r] # NoRecord
    BY DEF FaithfulStores
  <2>2. Faithful(d, r)
    BY <2>1 DEF Faithful
  <2>3. d # NoRecord
    BY DEF Assumed, NamesAssumption
  <2> QED BY <2>1, <2>2, <2>3 DEF Shape, StoresInv
<1>3. \A q \in Recs : record'[q] # NoRecord /\ Faithful(record[q], q)'
  BY <1>2 DEF Faithful, Owned, Usable, Exists, Vmids
<1>4. \A e \in pending' : e \in pending \/ (e.event = "updated" /\ e.rec = r /\ e.hint = record'[r])
  BY DEF Echo, Notify, Updated
<1>5. \A e \in pending' \cup todo' : e.event # "deleted" /\ Faithful(e.hint, e.rec)
  BY <1>2, <1>4 DEF FaithfulStores
<1>6. \A e \in pending' \cup todo' : Faithful(e.hint, e.rec)'
  BY <1>5 DEF Faithful, Owned, Usable, Exists, Vmids
<1> QED BY <1>3, <1>5, <1>6 DEF FaithfulStores

\* The notification of a change to r's guest carries the record as it is.
LEMMA StoresNotified ==
  ASSUME KeepsGuests, FaithfulStores, NEW r \in Recs, UNCHANGED <<record, todo, stray>>,
         \/ pending' = pending
         \/ Notify([rec |-> r, event |-> "updated", hint |-> record[r]])
  PROVE  FaithfulStores'
<1>1. \A q \in Recs : record'[q] # NoRecord /\ Faithful(record[q], q)'
  BY FaithfulStays DEF FaithfulStores, Faithful, Owned, KeepsGuests, Vmids
<1>2. \A e \in pending' :
        e \in pending \/ (e.event = "updated" /\ e.rec = r /\ e.hint = record[r])
  BY DEF Notify
<1>3. \A e \in pending' \cup todo' : e.event # "deleted" /\ Faithful(e.hint, e.rec)
  BY <1>2 DEF FaithfulStores
<1>4. \A e \in pending' \cup todo' : Faithful(e.hint, e.rec)'
  BY <1>3, FaithfulStays
<1> QED BY <1>1, <1>3, <1>4 DEF FaithfulStores, Faithful, Owned, Usable, Exists, Vmids

-----------------------------------------------------------------------------
(* What the steps do to the guests. *)

\* No guest comes into being and none changes its name or is being built again.
NoNewGuests ==
  \A w \in Vmids : Exists(w)' => /\ Exists(w) /\ guest'[w].name = guest[w].name
                                 /\ guest'[w].building => guest[w].building

\* A driver writes the name the guest has.
LEMMA ChangedKeepsName ==
  ASSUME Assumed, NEW g \in Guests, NEW op \in Ops, NEW d,
         op = "config" => d \in Records /\ d.name = g.name,
         NEW h, h = Changed(op, d, g) \/ h \in Interrupted(op, d, g)
  PROVE  h \in Guests /\ h.name = g.name /\ h.building = g.building
<1>1. Changed(op, d, g).name = g.name
  BY DEF Changed, Started, Stopped, Configured, Guests, Ops
<1>2. CASE h = Changed(op, d, g)
  BY <1>1, <1>2, ChangedIsGuest
<1>3. CASE h \in Interrupted(op, d, g)
  <2> DEFINE c == Changed(op, d, g)
  <2>1. PICK done \in Partial(op) : h = [f \in DOMAIN g |-> IF f \in done THEN c[f] ELSE g[f]]
    BY <1>3 DEF Interrupted
  <2>2. "name" \in DOMAIN g
    BY DEF Guests
  <2> HIDE DEF c
  <2>3. h.name = g.name
    BY <1>1, <2>1, <2>2 DEF c
  <2> QED BY <1>3, <2>3, InterruptedIsGuest
<1> QED BY <1>2, <1>3

LEMMA DriveOwns ==
  ASSUME Assumed, StoresInv, NEW op \in Ops, NEW v \in Vmids, NEW d,
         op = "config" => d \in Records /\ (Usable(v) => d.name = guest[v].name),
         Drive(op, d, v)
  PROVE  KeepsGuests /\ NoNewGuests
<1>1. CASE Usable(v) /\ \E h : /\ h = Changed(op, d, guest[v]) \/ h \in Interrupted(op, d, guest[v])
                               /\ guest' = [guest EXCEPT ![v] = h]
  <2>1. PICK h : /\ h = Changed(op, d, guest[v]) \/ h \in Interrupted(op, d, guest[v])
                 /\ guest' = [guest EXCEPT ![v] = h]
    BY <1>1
  <2>2. guest[v] \in Guests /\ guest[v] # NoGuest /\ ~guest[v].building
    BY <1>1 DEF Usable, Exists, StoresInv
  <2>3. h \in Guests /\ h.name = guest[v].name /\ h.building = guest[v].building
    BY <1>1, <2>1, <2>2, ChangedKeepsName
  <2>4. h # NoGuest
    BY <2>3 DEF Assumed, NamesAssumption
  <2>5. guest'[v] = h /\ \A w \in Vmids \ {v} : guest'[w] = guest[w]
    BY <2>1 DEF StoresInv
  <2> QED BY <2>2, <2>3, <2>4, <2>5 DEF KeepsGuests, NoNewGuests, Usable, Exists
<1>2. CASE UNCHANGED guest
  BY <1>2 DEF KeepsGuests, NoNewGuests, Usable, Exists
<1> QED BY <1>1, <1>2 DEF Drive

\* A clone that ends well leaves its guest complete and with its name.
LEMMA CloneEndsOwns ==
  ASSUME Assumed, Shape, NEW v \in Vmids, Exists(v), guest[v].building,
         CloneSucceeds(v) \/ CloneBreaks(v)
  PROVE  /\ KeepsGuests /\ NoNewGuests
         /\ \A w \in Vmids \ {v} : guest'[w] = guest[w]
         /\ Exists(v)' => ~guest'[v].building
         /\ CloneSucceeds(v) => Exists(v)' /\ guest'[v].name = guest[v].name
<1>1. guest[v] \in Guests
  BY DEF Exists, Shape, StoresInv
<1>2. \A w \in Vmids \ {v} : guest'[w] = guest[w]
  BY CloneEndsKeeps DEF Shape
<1>3. ASSUME NEW g \in Copies(v) PROVE g \in Guests /\ g.name = guest[v].name /\ ~g.building
  BY <1>1 DEF Copies, Guests
<1>4. ASSUME NEW g \in Guests, NEW b \in BOOLEAN
      PROVE  LET h == [g EXCEPT !.power = "running", !.onboot = b, !.building = FALSE]
             IN  h \in Guests /\ h.name = g.name /\ ~h.building
  BY DEF Guests, Power
<1> DEFINE Done(h) == h \in Guests /\ h.name = guest[v].name /\ ~h.building
<1>5. ASSUME CloneSucceeds(v) PROVE Done(guest'[v])
  <2>1. PICK g \in Guests, b \in BOOLEAN :
          /\ g.name = guest[v].name
          /\ guest' = [guest EXCEPT ![v] =
                         [g EXCEPT !.power = "running", !.onboot = b, !.building = FALSE]]
    BY <1>1, <1>3, <1>5 DEF CloneSucceeds, Shape, StoresInv
  <2> DEFINE h == [g EXCEPT !.power = "running", !.onboot = b, !.building = FALSE]
  <2>2. h \in Guests /\ h.name = g.name /\ ~h.building
    BY <1>4
  <2> HIDE DEF h
  <2>3. guest'[v] = h
    BY <2>1 DEF h, Shape, StoresInv
  <2> QED BY <2>1, <2>2, <2>3
<1>6. ASSUME CloneBreaks(v) PROVE guest'[v] = NoGuest \/ Done(guest'[v])
  BY <1>3, <1>6 DEF CloneBreaks, Shape, StoresInv
<1>7. NoGuest \notin Guests
  BY DEF Assumed, NamesAssumption
<1> QED BY <1>2, <1>5, <1>6, <1>7 DEF KeepsGuests, NoNewGuests, Usable, Exists

\* A job on its way to the workers works for its own record, with its own guest.
LEMMA ActingFacts ==
  ASSUME Assumed, Shape, OwnInv, NEW t \in Tasks, job[t].phase \in Acting
  PROVE  /\ job[t] \in Jobs /\ job[t].rec \in Recs /\ job[t].target \in Vmids
         /\ job[t].decl \in Records /\ job[t].decl.name = job[t].rec
         /\ Owned(job[t].target, job[t].rec)
<1>1. /\ job[t] \in Jobs /\ job[t].rec \in Recs /\ job[t].target \in Vmids
      /\ job[t].decl \in Records
  BY DEF Acting, Shape, JobsInv, WellFormed, Phases, Threaded, Planned
<1>2. job[t].decl # NoRecord
  BY <1>1 DEF Assumed, NamesAssumption
<1> QED BY <1>1, <1>2 DEF OwnInv, OwnJob, Faithful

LEMMA ProvisionGuests ==
  ASSUME Assumed, Shape, OwnInv, NEW t \in Tasks, Provision(t)
  PROVE  \/ guest' = guest /\ job' = [job EXCEPT ![t] = Idle]
         \/ \E v \in Allocatable(job[t].decl) :
              /\ ~Exists(v) /\ v \in Vmids
              /\ guest'[v] = Blank(job[t].decl) /\ Exists(v)'
              /\ \A w \in Vmids \ {v} : guest'[w] = guest[w]
              /\ job' = [job EXCEPT ![t] = [job[t] EXCEPT !.phase = "clone", !.target = v]]
              /\ guest'[v].name = job[t].rec
<1>1. CASE End(t) /\ UNCHANGED guest
  BY <1>1 DEF End
<1>2. ASSUME NEW v \in Allocatable(job[t].decl),
             guest' = [guest EXCEPT ![v] = Blank(job[t].decl)],
             job' = [job EXCEPT ![t].phase = "clone", ![t].target = v]
      PROVE  /\ ~Exists(v) /\ v \in Vmids
             /\ guest'[v] = Blank(job[t].decl) /\ Exists(v)'
             /\ \A w \in Vmids \ {v} : guest'[w] = guest[w]
             /\ job' = [job EXCEPT ![t] = [job[t] EXCEPT !.phase = "clone", !.target = v]]
             /\ guest'[v].name = job[t].rec
  <2>1. v \in Vmids /\ ~Exists(v)
    BY DEF Allocatable
  <2>2. job[t].decl \in Records /\ job[t].decl # NoRecord
    BY DEF Provision, Shape, JobsInv, WellFormed, Planned, Assumed, NamesAssumption
  <2>3. Blank(job[t].decl) \in Guests /\ Blank(job[t].decl).name = job[t].rec
    BY <2>2 DEF Blank, Guests, Records, Power, OwnInv, OwnJob, Faithful
  <2>4. Blank(job[t].decl) # NoGuest
    BY <2>3 DEF Assumed, NamesAssumption
  <2>5. guest'[v] = Blank(job[t].decl) /\ \A w \in Vmids \ {v} : guest'[w] = guest[w]
    BY <1>2, <2>1 DEF Shape, StoresInv
  <2>6. job' = [job EXCEPT ![t] = [job[t] EXCEPT !.phase = "clone", !.target = v]]
    BY <1>2 DEF Shape, JobsInv
  <2> QED BY <2>1, <2>3, <2>4, <2>5, <2>6 DEF Exists
<1> QED BY <1>1, <1>2 DEF Provision, Refuse

\* Every step leaves complete guests complete and their names alone; only the
\* provisioning of a workload makes a guest.
LEMMA NextGuests ==
  ASSUME Assumed, Undisturbed, Shape, OwnInv, [Next]_vars
  PROVE  KeepsGuests /\ (NoNewGuests \/ \E t \in Tasks : Provision(t))
<1> DEFINE Goal == KeepsGuests /\ (NoNewGuests \/ \E t \in Tasks : Provision(t))
<1>1. ASSUME guest' = guest PROVE Goal
  BY <1>1 DEF KeepsGuests, NoNewGuests, Usable, Exists
<1>2. ASSUME NEW v \in Vmids, Drift(v) PROVE Goal
  <2>1. PICK p \in Power, c \in Specs : guest' = [guest EXCEPT ![v] = [@ EXCEPT !.power = p, !.spec = c]]
    BY <1>2 DEF Drift
  <2>2. guest[v] \in Guests /\ guest[v] # NoGuest /\ ~guest[v].building
    BY <1>2 DEF Drift, Usable, Exists, Shape, StoresInv
  <2>3. /\ guest'[v] = [guest[v] EXCEPT !.power = p, !.spec = c]
        /\ \A w \in Vmids \ {v} : guest'[w] = guest[w]
    BY <2>1 DEF Shape, StoresInv
  <2>4. guest'[v] \in Guests /\ guest'[v].name = guest[v].name /\ ~guest'[v].building
    BY <2>2, <2>3 DEF Guests
  <2>5. guest'[v] # NoGuest
    BY <2>4 DEF Assumed, NamesAssumption
  <2> QED BY <2>2, <2>3, <2>4, <2>5 DEF KeepsGuests, NoNewGuests, Usable, Exists
<1>3. ASSUME People PROVE Goal
  BY <1>1, <1>2, <1>3 DEF People, Undisturbed, Edit, Delete, Ask, OutsideDelete
<1>4. ASSUME NEW t \in Tasks, Purge(t) PROVE FALSE
  BY <1>4 DEF Purge, OwnInv, OwnJob
<1>5. ASSUME NEW t \in Tasks, Quarantine(t) PROVE Goal
  BY <1>5, ActingFacts, DriveOwns DEF Quarantine, Acting, Shape, Ops
<1>6. ASSUME NEW t \in Tasks, ConfigSync(t) PROVE Goal
  BY <1>6, ActingFacts, DriveOwns DEF ConfigSync, Acting, Shape, Ops, Owned
<1>7. ASSUME NEW t \in Tasks, PowerSync(t) PROVE Goal
  <2>1. job[t].power \in {"start", "stop"} /\ job[t].phase = "power"
    BY <1>7 DEF PowerSync, Shape, JobsInv, WellFormed
  <2>2. CASE Drive(job[t].power, job[t].decl, job[t].target)
    BY <2>1, <2>2, ActingFacts, DriveOwns DEF Acting, Shape, Ops
  <2> QED BY <1>1, <1>7, <2>2 DEF PowerSync
<1>8. ASSUME NEW t \in Tasks, Clone(t) PROVE Goal
  <2>1. /\ job[t].target \in Vmids
        /\ Exists(job[t].target) /\ guest[job[t].target].building
    BY <1>8 DEF Clone, Shape, JobsInv, WellFormed, Phases, Threaded, CloneInv, Running, Cloning
  <2> QED BY <1>8, <2>1, CloneEndsOwns DEF Clone
<1>9. ASSUME NEW t \in Tasks, Provision(t) PROVE Goal
  BY <1>1, <1>9, ProvisionGuests DEF KeepsGuests, Usable, Exists
<1>10. ASSUME NEW t \in Tasks, Work(t) PROVE Goal
  BY <1>1, <1>4, <1>5, <1>6, <1>7, <1>8, <1>9, <1>10 DEF Work, Decide, Tag, Adopt, Writeback
<1>11. ASSUME NEW v \in Vmids, AbandonedEnds(v) PROVE FALSE
  BY <1>11 DEF AbandonedEnds, Abandoned, OwnInv, Cloning
<1>12. ASSUME NEW t \in Tasks, FetchDeclared(t) PROVE Goal
  BY <1>1, <1>12 DEF FetchDeclared
<1>13. ASSUME SweepStarts \/ SweepNext \/ (\E t \in Hooks : Deliver(t)) \/ UNCHANGED vars
              \/ \E v \in Vmids : Expire(v)
       PROVE  Goal
  BY <1>1, <1>13 DEF SweepStarts, SweepNext, Deliver, vars, Expire
<1>14. ASSUME NEW j \in stray PROVE FALSE
  BY <1>14 DEF OwnInv, FaithfulStores
<1>15. ~Interruption
  BY DEF Interruption, Undisturbed, SweepTimesOut, Restart, CloneOutlasts
<1> QED BY <1>3, <1>10, <1>11, <1>12, <1>13, <1>14, <1>15 DEF Next

-----------------------------------------------------------------------------
(* Every step keeps the links and the targets faithful. *)

LEMMA InitOwn ==
  ASSUME Assumed, Init PROVE OwnInv
<1>1. FaithfulStores
  <2>1. \A r \in Recs : record[r] # NoRecord /\ record[r].name = r /\ record[r].vmid = NoVmid
    <3>1. record \in [Recs -> Records \cup {NoRecord}]
      BY InitShape DEF Shape, StoresInv
    <3>2. \A r \in Recs : record[r].name = r /\ record[r].vmid = NoVmid /\ record[r] \in Records
      BY DEF Init, Records
    <3> QED BY <3>2 DEF Assumed, NamesAssumption
  <2> QED BY <2>1 DEF Init, FaithfulStores, Faithful
<1>2. \A t \in Tasks : OwnJob(job[t])
  BY DEF Init, OwnJob, Idle, Faithful, Acting
<1>3. \A v \in Vmids : ~Exists(v)
  BY DEF Init, Exists
<1> QED BY <1>1, <1>2, <1>3 DEF OwnInv

LEMMA PeopleOwn ==
  ASSUME Assumed, Undisturbed, Shape, OwnInv, [Next]_vars, People PROVE OwnInv'
<1>1. KeepsGuests
  BY NextGuests
<1>2. job' = job /\ stray' = stray /\ todo' = todo
  BY DEF People, Edit, Delete, Ask, Drift, OutsideDelete
<1>3. NoNewGuests /\ \A w \in Vmids : Exists(w) /\ guest[w].building => guest'[w] = guest[w]
  <2>1. ASSUME NEW v \in Vmids, Drift(v)
        PROVE  NoNewGuests /\ \A w \in Vmids : Exists(w) /\ guest[w].building => guest'[w] = guest[w]
    <3>1. guest[v] \in Guests /\ Exists(v) /\ ~guest[v].building
      BY <2>1 DEF Drift, Usable, Exists, Shape, StoresInv
    <3> QED BY <2>1, <3>1 DEF Drift, Shape, StoresInv, Guests, NoNewGuests, Exists
  <2>2. CASE guest' = guest
    BY <2>2 DEF NoNewGuests, Exists
  <2> QED BY <2>1, <2>2 DEF People, Undisturbed, Edit, Delete, Ask, OutsideDelete
<1>4. FaithfulStores'
  <2>1. ASSUME NEW r \in Recs, Edit(r) PROVE FaithfulStores'
    <3>1. PICK s \in Statuses, c \in Specs, d \in Disks, b \in {record[r].tagged, FALSE},
               v \in {record[r].vmid} \cup Linkable(r) :
            record' = [record EXCEPT ![r] = [@ EXCEPT !.status = s, !.spec = c, !.disk = d,
                                                      !.tagged = b, !.vmid = v]]
      BY <2>1 DEF Edit
    <3>2. record[r] \in Records
      BY <2>1 DEF Edit, Shape, StoresInv
    <3> DEFINE n == [record[r] EXCEPT !.status = s, !.spec = c, !.disk = d, !.tagged = b,
                                      !.vmid = v]
    <3>3. v = record[r].vmid \/ Owned(v, r)
      BY DEF Linkable, Owned
    <3>6. v \in Vmids \cup {NoVmid} /\ b \in BOOLEAN
      BY <3>2 DEF Linkable, Records
    <3>7. n \in Records /\ n.name = record[r].name /\ (n.vmid = record[r].vmid \/ Owned(n.vmid, r))
      BY <3>2, <3>3, <3>6 DEF Records
    <3>4. record' = [record EXCEPT ![r] = n]
      BY <3>1
    <3>5. Echo(r) /\ UNCHANGED <<guest, todo, stray>>
      BY <2>1 DEF Edit
    <3> HIDE DEF n
    <3> QED BY <3>4, <3>5, <3>7, StoresWritten DEF OwnInv
  <2>2. ASSUME NEW r \in Recs, Ask(r) PROVE FaithfulStores'
    <3>1. \A q \in Recs : record'[q] # NoRecord /\ Faithful(record[q], q)'
      BY <1>1, <2>2, FaithfulStays DEF Ask, OwnInv, FaithfulStores, Faithful, Owned, KeepsGuests, Vmids
    <3>2. \A e \in pending' \cup todo' :
            e \in pending \cup todo \/ (e.event = "manual" /\ e.hint = NoRecord)
      BY <2>2 DEF Ask
    <3>3. \A e \in pending' \cup todo' : e.event # "deleted" /\ Faithful(e.hint, e.rec)'
      BY <1>1, <3>2, FaithfulStays DEF OwnInv, FaithfulStores, Faithful
    <3> QED BY <1>2, <3>1, <3>3 DEF OwnInv, FaithfulStores
  <2>3. ASSUME NEW v \in Vmids, Drift(v) PROVE FaithfulStores'
    BY <1>1, <2>3, StoresStay DEF Drift, OwnInv
  <2> QED BY <2>1, <2>2, <2>3 DEF People, Undisturbed, Delete, OutsideDelete
<1>5. \A w \in Vmids : Exists(w)' /\ guest'[w].building => Exists(w) /\ guest[w].building
  BY <1>3 DEF NoNewGuests
<1> QED BY <1>1, <1>2, <1>3, <1>4, <1>5, OwnStays

\* t's job goes on as k, and the guests stay as they are.
LEMMA OwnGoesOn ==
  ASSUME Assumed, Shape, OwnInv, FaithfulStores',
         NEW t \in Tasks, NEW k, k.phase # "clone", job[t].phase # "clone",
         job' = [job EXCEPT ![t] = k], OwnJob(job[t])', guest' = guest
  PROVE  OwnInv'
<1>1. KeepsGuests
  BY DEF KeepsGuests, Usable, Exists
<1>2. \A w \in Vmids : ~Cloning(job[t], w)
  BY DEF Cloning
<1> QED BY <1>1, <1>2, OwnMoves DEF Exists

LEMMA IdleOwn ==
  ASSUME Assumed, Shape, NEW t \in Tasks, job' = [job EXCEPT ![t] = Idle] PROVE OwnJob(job[t])'
<1>1. job'[t] = Idle
  BY DEF Shape, JobsInv
<1> QED BY <1>1 DEF OwnJob, Idle, Faithful, Acting

LEMMA BeginOwn ==
  ASSUME Assumed, Shape, OwnInv, NEW t \in Tasks, job[t].phase = "idle",
         NEW e \in pending \cup todo, Begin(t, e),
         UNCHANGED <<record, guest, stray>>, pending' \subseteq pending, todo' \subseteq todo
  PROVE  OwnInv'
<1> DEFINE k == [Idle EXCEPT !.phase = "lock", !.rec = e.rec, !.event = e.event, !.hint = e.hint]
<1>1. job' = [job EXCEPT ![t] = k]
  BY DEF Begin
<1>2. job'[t] = k
  BY <1>1 DEF Shape, JobsInv
<1>3. /\ k.phase = "lock" /\ k.rec = e.rec /\ k.event = e.event /\ k.hint = e.hint
      /\ k.decl = NoRecord /\ k.target = NoVmid
  BY DEF Idle
<1> HIDE DEF k
<1>4. e.event # "deleted" /\ Faithful(e.hint, e.rec)
  BY DEF OwnInv, FaithfulStores
<1>5. Faithful(e.hint, e.rec)'
  BY <1>4 DEF Faithful, Owned, Usable, Exists, Vmids
<1>6. OwnJob(job[t])'
  BY <1>2, <1>3, <1>4, <1>5 DEF OwnJob, Faithful, Owned, Usable, Exists, Vmids, Acting
<1>7. FaithfulStores'
  <2>1. KeepsGuests
    BY DEF KeepsGuests, Usable, Exists
  <2> QED BY <2>1, StoresStay DEF OwnInv
<1> QED BY <1>1, <1>3, <1>6, <1>7, OwnGoesOn

LEMMA SweepStartsOwn ==
  ASSUME Assumed, Shape, OwnInv, SweepStarts PROVE OwnInv'
<1>1. KeepsGuests
  BY DEF SweepStarts, KeepsGuests, Usable, Exists
<1>2. \A r \in Recs : record'[r] # NoRecord /\ Faithful(record[r], r)'
  BY <1>1, FaithfulStays DEF SweepStarts, OwnInv, FaithfulStores, Faithful, Owned, KeepsGuests, Vmids
<1>3. \A e \in todo' : e.event = "none" /\ e.rec \in Recs /\ e.hint = record[e.rec]
  BY DEF SweepStarts
<1>4. \A e \in pending' \cup todo' : e.event # "deleted" /\ Faithful(e.hint, e.rec)'
  <2>1. \A e \in pending' \cup todo' : e.event # "deleted" /\ Faithful(e.hint, e.rec)
    BY <1>3 DEF SweepStarts, OwnInv, FaithfulStores
  <2> QED BY <1>1, <2>1, FaithfulStays
<1>5. FaithfulStores'
  BY <1>2, <1>4 DEF SweepStarts, OwnInv, FaithfulStores
<1> QED BY <1>1, <1>5, OwnStays DEF SweepStarts, Exists

LEMMA FetchOwn ==
  ASSUME Assumed, ReadFaults => DefaultNamed = {}, Shape, OwnInv,
         NEW t \in Tasks, FetchDeclared(t)
  PROVE  OwnInv'
<1>1. job[t].phase = "lock" /\ job[t].rec \in Recs /\ job \in [Tasks -> Jobs]
  BY FetchMoves DEF Shape, JobsInv
<1>2. record[job[t].rec] # NoRecord /\ Faithful(record[job[t].rec], job[t].rec) /\ OwnJob(job[t])
  BY <1>1 DEF OwnInv, FaithfulStores
<1>3. PICK d : /\ d = record[job[t].rec] \/ (ReadFaults /\ d = job[t].hint)
               /\ job' = [job EXCEPT ![t].phase = "inspect", ![t].decl = d]
  BY <1>2 DEF FetchDeclared, OwnJob
<1> DEFINE k == [job[t] EXCEPT !.phase = "inspect", !.decl = d]
<1>4. job' = [job EXCEPT ![t] = k]
  BY <1>1, <1>3
<1>5. /\ k.phase = "inspect" /\ k.decl = d /\ k.rec = job[t].rec /\ k.hint = job[t].hint
      /\ k.event = job[t].event /\ k.target = job[t].target
  BY <1>1 DEF Jobs
<1>6. job'[t] = k
  BY <1>1, <1>4
<1> HIDE DEF k
<1>7. Faithful(d, job[t].rec) /\ (d = NoRecord => DefaultNamed = {})
  BY <1>2, <1>3 DEF OwnJob
<1>8. guest' = guest /\ UNCHANGED <<record, pending, todo, stray>>
  BY DEF FetchDeclared
<1>9. OwnJob(k)
  BY <1>1, <1>2, <1>5, <1>7 DEF OwnJob, Acting
<1>10. OwnJob(job[t])'
  BY <1>6, <1>8, <1>9 DEF OwnJob, Faithful, Owned, Usable, Exists, Vmids, Acting
<1>11. FaithfulStores'
  BY <1>8, StoresStay DEF OwnInv, KeepsGuests, Usable, Exists
<1> QED BY <1>1, <1>4, <1>5, <1>8, <1>10, <1>11, OwnGoesOn

\* What a job may find is its own workload's guest, and complete: the lock keeps
\* it from meeting that guest while a clone is still building it.
LEMMA FoundIsOwned ==
  ASSUME Assumed, Shape, LockInv, OwnInv, NEW t \in Tasks, job[t].phase = "inspect",
         NEW v \in Candidates(job[t].rec, job[t].decl)
  PROVE  job[t].decl \in Records /\ Owned(v, job[t].rec)
<1> DEFINE j == job[t]
<1>1. /\ j \in Jobs /\ j.rec \in Recs /\ OwnJob(j)
      /\ v \in Vmids /\ Exists(v)
  BY DEF Shape, JobsInv, WellFormed, OwnInv, Candidates
<1>2. j.decl # NoRecord
  BY <1>1, CandidateFacts DEF OwnJob
<1>3. j.decl \in Records /\ j.decl.name = j.rec
  BY <1>1, <1>2 DEF Jobs, OwnJob, Faithful
<1>4. CASE j.decl.vmid # NoVmid
  BY <1>1, <1>2, <1>3, <1>4 DEF Candidates, OwnJob, Faithful
<1>5. CASE j.decl.vmid = NoVmid
  <2>1. guest[v].name = j.rec
    BY <1>2, <1>3, <1>5 DEF Candidates
  <2>2. ASSUME guest[v].building PROVE FALSE
    <3>1. PICK u \in Tasks : Cloning(job[u], v)
      BY <1>1, <2>2 DEF OwnInv
    <3>2. job[u].rec = j.rec
      BY <2>1, <3>1 DEF OwnInv, OwnJob, Cloning
    <3>3. Working(u) /\ Working(t)
      BY <3>1 DEF Working, Cloning
    <3> QED BY <3>1, <3>2, <3>3 DEF LockInv, Cloning
  <2> QED BY <1>1, <1>3, <2>1, <2>2 DEF Owned, Usable
<1> QED BY <1>4, <1>5

\* The decision that follows from what was found.
LEMMA PlanOwned ==
  ASSUME Assumed, Shape, OwnInv, NEW t \in Tasks, job[t].phase = "inspect",
         NEW v, NEW g,
         \/ v \in Vmids /\ g \in Guests /\ job[t].decl \in Records /\ Owned(v, job[t].rec)
         \/ v = NoVmid /\ g = NoGuest,
         Action(job[t].decl, g, job[t].event) # "noop"
  PROVE  /\ Plan(job[t], v, g).phase # "clone"
         /\ Plan(job[t], v, g).phase = "idle" \/ OwnJob(Plan(job[t], v, g))
<1> DEFINE j == job[t]
           k == Plan(j, v, g)
<1>1. j \in Jobs /\ OwnJob(j)
  BY DEF Shape, JobsInv, OwnInv
<1>2. j.event # "deleted" /\ (g # NoGuest => v \in Vmids /\ j.decl # NoRecord)
  BY <1>1 DEF OwnJob, Assumed, NamesAssumption
<1>3. Action(j.decl, g, j.event) \in {"provision", "decommission", "adopt", "reconcile"}
  BY <1>2 DEF Action
<1>4. Action(j.decl, g, j.event) = "provision" <=> g = NoGuest
  BY <1>2 DEF Action
<1>5. /\ k.rec = j.rec /\ k.event = j.event /\ k.hint = j.hint /\ k.decl = j.decl /\ k.target = v
      /\ k.phase \in {"provision", "quarantine", "adopt", "power", "config", "idle"}
      /\ k.phase = "provision" <=> g = NoGuest
  BY <1>1, <1>3, <1>4 DEF Plan, Jobs, FirstPhase, Transitions
<1>6. k.phase # "provision" => Owned(v, j.rec)
  BY <1>5
<1>7. k.phase = "provision" => v = NoVmid
  BY <1>5 DEF Assumed, NamesAssumption
<1> HIDE DEF k
<1>8. k.phase # "clone" /\ (k.phase = "idle" \/ OwnJob(k))
  BY <1>1, <1>5, <1>6, <1>7 DEF OwnJob, Acting
<1> QED BY <1>8 DEF k

LEMMA DecideOwn ==
  ASSUME Assumed, Shape, LockInv, OwnInv, NEW t \in Tasks, Decide(t) PROVE OwnInv'
<1>1. /\ job[t].phase = "inspect"
      /\ UNCHANGED <<record, guest, pending, todo, stray, recent, edits>>
  BY DEF Decide
<1>2. FaithfulStores'
  BY <1>1, StoresStay DEF OwnInv, KeepsGuests, Usable, Exists
<1>3. CASE End(t)
  BY <1>1, <1>2, <1>3, IdleOwn, OwnGoesOn DEF End, Idle
<1>4. ASSUME NEW v, NEW g, Dispatch(t, v, g),
             \/ v \in Vmids /\ g \in Guests /\ job[t].decl \in Records /\ Owned(v, job[t].rec)
             \/ v = NoVmid /\ g = NoGuest
      PROVE  OwnInv'
  <2> DEFINE k == Plan(job[t], v, g)
  <2>1. CASE Action(job[t].decl, g, job[t].event) # "noop" /\ Proceed(t, k)
    <3>1. k.phase # "clone" /\ (k.phase = "idle" \/ OwnJob(k))
      BY <1>1, <1>4, <2>1, PlanOwned
    <3>2. job' = [job EXCEPT ![t] = IF k.phase = "idle" THEN Idle ELSE k]
      BY <2>1 DEF Proceed
    <3> HIDE DEF k
    <3>3. CASE k.phase = "idle"
      BY <1>3, <3>2, <3>3 DEF End
    <3>4. CASE k.phase # "idle"
      <4>1. job' = [job EXCEPT ![t] = k] /\ job'[t] = k
        BY <3>2, <3>4 DEF Shape, JobsInv
      <4>2. OwnJob(job[t])'
        BY <1>1, <3>1, <3>4, <4>1 DEF OwnJob, Faithful, Owned, Usable, Exists, Vmids, Acting
      <4> QED BY <1>1, <1>2, <3>1, <4>1, <4>2, OwnGoesOn
    <3> QED BY <3>3, <3>4
  <2> QED BY <1>3, <1>4, <2>1 DEF Dispatch
<1>5. CASE \E v \in Candidates(job[t].rec, job[t].decl) : Dispatch(t, v, guest[v])
  BY <1>1, <1>4, <1>5, FoundIsOwned, CandidateFacts
<1>6. CASE Dispatch(t, NoVmid, NoGuest)
  BY <1>4, <1>6
<1> QED BY <1>5, <1>6 DEF Decide

\* A worker's driver call on its own guest, after which the job goes on as k.
LEMMA DriveOwnInv ==
  ASSUME Assumed, Shape, OwnInv, NEW t \in Tasks, job[t].phase \in Acting,
         KeepsGuests, NoNewGuests,
         \A w \in Vmids : Exists(w) /\ guest[w].building => guest'[w] = guest[w],
         FaithfulStores', NEW k, job' = [job EXCEPT ![t] = k],
         \/ k = Idle
         \/ /\ k.phase \in {"tag", "config"} /\ k.event = job[t].event
            /\ k.hint = job[t].hint /\ k.decl = job[t].decl
            /\ k.rec = job[t].rec /\ k.target = job[t].target
  PROVE  OwnInv'
<1>1. job'[t] = k
  BY DEF Shape, JobsInv
<1>2. OwnJob(job[t])'
  <2>1. CASE k = Idle
    BY <2>1, IdleOwn
  <2>2. CASE /\ k.phase \in {"tag", "config"} /\ k.event = job[t].event
             /\ k.hint = job[t].hint /\ k.decl = job[t].decl
             /\ k.rec = job[t].rec /\ k.target = job[t].target
    <3>1. /\ job[t].event # "deleted" /\ Faithful(k.hint, k.rec) /\ Faithful(k.decl, k.rec)
          /\ Owned(k.target, k.rec)
      BY <2>2 DEF OwnInv, OwnJob
    <3>2. Faithful(k.hint, k.rec)' /\ Faithful(k.decl, k.rec)' /\ Owned(k.target, k.rec)'
      BY <3>1, FaithfulStays, OwnedStays
    <3> QED BY <1>1, <2>2, <3>1, <3>2 DEF OwnJob, Faithful, Owned, Usable, Exists, Vmids, Acting
  <2> QED BY <2>1, <2>2
<1>3. k.phase # "clone" /\ job[t].phase # "clone"
  BY DEF Idle, Acting
<1>4. \A w \in Vmids : ~Cloning(job[t], w)
  BY <1>3 DEF Cloning
<1> QED BY <1>2, <1>4, OwnMoves DEF NoNewGuests

LEMMA QuarantineOwn ==
  ASSUME Assumed, Shape, OwnInv, NEW t \in Tasks, Quarantine(t) PROVE OwnInv'
<1>1. job[t].phase \in Acting /\ job \in [Tasks -> Jobs]
  BY DEF Quarantine, Acting, Shape, JobsInv
<1>2. /\ KeepsGuests /\ NoNewGuests
      /\ \A w \in Vmids : Exists(w) /\ guest[w].building => guest'[w] = guest[w]
  BY <1>1, ActingFacts, DriveOwns, DriveKeeps DEF Quarantine, Shape, Ops
<1>3. FaithfulStores'
  BY <1>2, StoresStay DEF Quarantine, OwnInv
<1> DEFINE k == [job[t] EXCEPT !.phase = "tag"]
<1>4. job' = [job EXCEPT ![t] = k] \/ job' = [job EXCEPT ![t] = Idle]
  BY <1>1 DEF Quarantine, Goto, End
<1>5. /\ k.phase = "tag" /\ k.event = job[t].event /\ k.hint = job[t].hint
      /\ k.decl = job[t].decl /\ k.rec = job[t].rec /\ k.target = job[t].target
  BY <1>1 DEF Jobs
<1> HIDE DEF k
<1> QED BY <1>1, <1>2, <1>3, <1>4, <1>5, DriveOwnInv

LEMMA ConfigSyncOwn ==
  ASSUME Assumed, Shape, OwnInv, NEW t \in Tasks, ConfigSync(t) PROVE OwnInv'
<1>1. job[t].phase \in Acting
  BY DEF ConfigSync, Acting
<1>2. /\ KeepsGuests /\ NoNewGuests
      /\ \A w \in Vmids : Exists(w) /\ guest[w].building => guest'[w] = guest[w]
  BY <1>1, ActingFacts, DriveOwns, DriveKeeps DEF ConfigSync, Shape, Ops, Owned
<1>3. FaithfulStores'
  BY <1>2, StoresStay DEF ConfigSync, OwnInv
<1> QED BY <1>1, <1>2, <1>3, DriveOwnInv DEF ConfigSync, End

LEMMA PowerSyncOwn ==
  ASSUME Assumed, Shape, OwnInv, NEW t \in Tasks, PowerSync(t) PROVE OwnInv'
<1> DEFINE k == [job[t] EXCEPT !.phase = Transitions("keep", job[t].config)]
<1>1. /\ job[t].phase \in Acting /\ job[t].power \in {"start", "stop"}
      /\ job[t] \in Jobs /\ job[t].rec \in Recs
  BY DEF PowerSync, Acting, Shape, JobsInv, WellFormed
<1>2. /\ KeepsGuests /\ NoNewGuests
      /\ \A w \in Vmids : Exists(w) /\ guest[w].building => guest'[w] = guest[w]
  <2>1. CASE Drive(job[t].power, job[t].decl, job[t].target)
    BY <1>1, <2>1, ActingFacts, DriveOwns, DriveKeeps DEF Shape, Ops
  <2>2. CASE guest' = guest
    BY <2>2 DEF KeepsGuests, NoNewGuests, Usable, Exists
  <2> QED BY <2>1, <2>2 DEF PowerSync
<1>3. FaithfulStores'
  BY <1>1, <1>2, StoresNotified DEF PowerSync, OwnInv
<1>4. job' = [job EXCEPT ![t] = IF k.phase = "idle" THEN Idle ELSE k]
  BY DEF PowerSync, Proceed
<1>5. /\ k.phase \in {"config", "idle"} /\ k.event = job[t].event /\ k.hint = job[t].hint
      /\ k.decl = job[t].decl /\ k.rec = job[t].rec /\ k.target = job[t].target
  BY <1>1 DEF Jobs, Transitions
<1> HIDE DEF k
<1> QED BY <1>1, <1>2, <1>3, <1>4, <1>5, DriveOwnInv

LEMMA TagOwn ==
  ASSUME Assumed, Shape, OwnInv, NEW t \in Tasks, Tag(t) PROVE OwnInv'
<1> DEFINE r == job[t].rec
           d == [record[r] EXCEPT !.status = "decommissioning", !.tagged = TRUE]
<1>1. job[t].phase = "tag" /\ r \in Recs /\ record[r] \in Records
  BY DEF Tag, Shape, JobsInv, StoresInv, WellFormed, OwnInv, FaithfulStores
<1>2. d \in Records /\ d.name = record[r].name /\ d.vmid = record[r].vmid
  BY <1>1 DEF Records
<1>3. record' = record \/ record' = [record EXCEPT ![r] = d]
  BY DEF Tag, WriteRecord
<1>4. Echo(r) /\ UNCHANGED <<guest, todo, stray>> /\ job' = [job EXCEPT ![t] = Idle]
  BY DEF Tag, End
<1> HIDE DEF d
<1>5. FaithfulStores'
  BY <1>1, <1>2, <1>3, <1>4, StoresWritten DEF OwnInv
<1> QED BY <1>1, <1>4, <1>5, IdleOwn, OwnGoesOn DEF Idle

LEMMA WritebackOwn ==
  ASSUME Assumed, Shape, OwnInv, NEW t \in Tasks, Writeback(t) PROVE OwnInv'
<1> DEFINE r == job[t].rec
           d == [record[r] EXCEPT !.status = "active", !.vmid = job[t].target]
<1>1. /\ job[t].phase = "writeback" /\ r \in Recs /\ record[r] \in Records
      /\ job[t].target \in Vmids /\ Owned(job[t].target, r)
  BY ActingFacts DEF Writeback, Acting, Shape, StoresInv, OwnInv, FaithfulStores
<1>2. d \in Records /\ d.name = record[r].name /\ d.vmid = job[t].target
  BY <1>1 DEF Records
<1>3. record' = record \/ record' = [record EXCEPT ![r] = d]
  BY DEF Writeback, WriteRecord
<1>4. Echo(r) /\ UNCHANGED <<guest, todo, stray>> /\ job' = [job EXCEPT ![t] = Idle]
  BY DEF Writeback, End
<1> HIDE DEF d
<1>5. FaithfulStores'
  BY <1>1, <1>2, <1>3, <1>4, StoresWritten DEF OwnInv
<1> QED BY <1>1, <1>4, <1>5, IdleOwn, OwnGoesOn DEF Idle

LEMMA AdoptOwn ==
  ASSUME Assumed, Shape, OwnInv, NEW t \in Tasks, Adopt(t) PROVE OwnInv'
<1> DEFINE j == job[t]
           r == job[t].rec
           d == [record[r] EXCEPT !.vmid = job[t].target]
           k == [j EXCEPT !.phase = Transitions(j.power, j.config), !.decl.vmid = j.target]
<1>1. /\ j.phase = "adopt" /\ r \in Recs /\ record[r] \in Records /\ j \in Jobs
      /\ j.target \in Vmids /\ Owned(j.target, r) /\ j.decl \in Records /\ j.decl.name = r
  BY ActingFacts DEF Adopt, Acting, Shape, StoresInv, OwnInv, FaithfulStores
<1>2. d \in Records /\ d.name = record[r].name /\ d.vmid = j.target
  BY <1>1 DEF Records
<1>3. record' = record \/ record' = [record EXCEPT ![r] = d]
  BY DEF Adopt, WriteRecord
<1>4. /\ Echo(r) /\ UNCHANGED <<guest, todo, stray>>
      /\ job' = [job EXCEPT ![t] = IF k.phase = "idle" THEN Idle ELSE k]
  BY DEF Adopt, Proceed
<1>5. /\ k.phase \in {"power", "config", "idle"} /\ k.event = j.event /\ k.hint = j.hint
      /\ k.rec = r /\ k.target = j.target
      /\ k.decl.name = r /\ k.decl.vmid = j.target
  BY <1>1 DEF Jobs, Records, Transitions
<1> HIDE DEF d, k
<1>6. FaithfulStores'
  BY <1>1, <1>2, <1>3, <1>4, StoresWritten DEF OwnInv
<1>7. CASE k.phase = "idle"
  BY <1>1, <1>4, <1>6, <1>7, IdleOwn, OwnGoesOn DEF Idle
<1>8. CASE k.phase # "idle"
  <2>1. job'[t] = k
    BY <1>4, <1>8 DEF Shape, JobsInv
  <2>2. j.event # "deleted" /\ Faithful(k.hint, k.rec) /\ Faithful(k.decl, k.rec)
    BY <1>1, <1>5 DEF OwnInv, OwnJob, Faithful
  <2>3. OwnJob(job[t])'
    BY <1>1, <1>4, <1>5, <1>8, <2>1, <2>2 DEF OwnJob, Faithful, Owned, Usable, Exists, Vmids, Acting
  <2> QED BY <1>1, <1>4, <1>5, <1>6, <1>8, <2>3, OwnGoesOn
<1> QED BY <1>7, <1>8

LEMMA ProvisionOwn ==
  ASSUME Assumed, Shape, OwnInv, NEW t \in Tasks, Provision(t) PROVE OwnInv'
<1>1. job[t].phase = "provision" /\ UNCHANGED <<record, pending, todo, stray>> /\ job[t] \in Jobs
  BY DEF Provision, Shape, JobsInv
<1>2. CASE guest' = guest /\ job' = [job EXCEPT ![t] = Idle]
  <2>1. FaithfulStores'
    BY <1>1, <1>2, StoresStay DEF OwnInv, KeepsGuests, Usable, Exists
  <2> QED BY <1>1, <1>2, <2>1, IdleOwn, OwnGoesOn DEF Idle
<1>3. ASSUME NEW v \in Vmids, ~Exists(v), Exists(v)', guest'[v].name = job[t].rec,
             \A w \in Vmids \ {v} : guest'[w] = guest[w],
             job' = [job EXCEPT ![t] = [job[t] EXCEPT !.phase = "clone", !.target = v]]
      PROVE  OwnInv'
  <2>0. PICK k : k = [job[t] EXCEPT !.phase = "clone", !.target = v]
    OBVIOUS
  <2>1. /\ k.phase = "clone" /\ k.target = v /\ k.rec = job[t].rec /\ k.event = job[t].event
        /\ k.hint = job[t].hint /\ k.decl = job[t].decl
    BY <1>1, <2>0 DEF Jobs
  <2>2. job'[t] = k
    BY <1>3, <2>0 DEF Shape, JobsInv
  <2>3. job' = [job EXCEPT ![t] = k]
    BY <1>3, <2>0
  <2>4. KeepsGuests
    BY <1>3 DEF KeepsGuests, Usable, Exists
  <2>5. FaithfulStores'
    BY <1>1, <2>4, StoresStay DEF OwnInv
  <2>6. OwnJob(job[t])'
    <3>1. /\ k.event # "deleted" /\ Faithful(k.hint, k.rec) /\ Faithful(k.decl, k.rec)
      BY <2>1 DEF OwnInv, OwnJob
    <3>2. Faithful(k.hint, k.rec)' /\ Faithful(k.decl, k.rec)'
      BY <2>4, <3>1, FaithfulStays
    <3> QED BY <1>3, <2>1, <2>2, <3>1, <3>2 DEF OwnJob, Faithful, Owned, Usable, Exists, Vmids, Acting
  <2>7. \A w \in Vmids : ~Cloning(job[t], w)
    BY <1>1 DEF Cloning
  <2>8. \A w \in Vmids : Exists(w) => guest'[w] = guest[w]
    BY <1>3
  <2>9. \A w \in Vmids : Exists(w)' /\ guest'[w].building
                           => Cloning(k, w) \/ (Exists(w) /\ guest[w].building)
    BY <1>3, <2>1 DEF Cloning, Exists
  <2> QED BY <2>3, <2>4, <2>5, <2>6, <2>7, <2>8, <2>9, OwnMoves
<1> QED BY <1>2, <1>3, ProvisionGuests

LEMMA CloneOwn ==
  ASSUME Assumed, Shape, OwnInv, NEW t \in Tasks, Clone(t) PROVE OwnInv'
<1>0. PICK v, k : v = job[t].target /\ k = [job[t] EXCEPT !.phase = "writeback"]
  OBVIOUS
<1>1. /\ job[t] \in Jobs /\ job[t].phase = "clone" /\ v \in Vmids
      /\ Exists(v) /\ guest[v].building /\ guest[v].name = job[t].rec
      /\ UNCHANGED <<record, pending, todo, stray>>
  BY <1>0 DEF Clone, Shape, JobsInv, WellFormed, Phases, Threaded, CloneInv, Running, Cloning,
              OwnInv, OwnJob
<1>2. /\ KeepsGuests /\ NoNewGuests
      /\ \A w \in Vmids \ {v} : guest'[w] = guest[w]
      /\ Exists(v)' => ~guest'[v].building
      /\ CloneSucceeds(v) => Exists(v)' /\ guest'[v].name = guest[v].name
  BY <1>0, <1>1, CloneEndsOwns DEF Clone
<1>3. FaithfulStores'
  BY <1>1, <1>2, StoresStay DEF OwnInv
<1>4. \/ job' = [job EXCEPT ![t] = Idle]
      \/ CloneSucceeds(v) /\ job' = [job EXCEPT ![t] = k]
  BY <1>0 DEF Clone, Goto, End
<1>5. /\ k.phase = "writeback" /\ k.target = v /\ k.rec = job[t].rec /\ k.event = job[t].event
      /\ k.hint = job[t].hint /\ k.decl = job[t].decl
  BY <1>0, <1>1 DEF Jobs
<1>6. PICK n \in {k, Idle} : job' = [job EXCEPT ![t] = n] /\ (n = k => CloneSucceeds(v))
  BY <1>4, <1>5 DEF Idle
<1>7. OwnJob(job[t])'
  <2>1. CASE n = k
    <3>1. job'[t] = k
      BY <1>6, <2>1 DEF Shape, JobsInv
    <3>2. /\ k.event # "deleted" /\ Faithful(k.hint, k.rec) /\ Faithful(k.decl, k.rec)
      BY <1>5 DEF OwnInv, OwnJob
    <3>3. Faithful(k.hint, k.rec)' /\ Faithful(k.decl, k.rec)'
      BY <1>2, <3>2, FaithfulStays
    <3>4. Owned(k.target, k.rec)'
      BY <1>1, <1>2, <1>5, <1>6, <2>1 DEF Owned, Usable, Exists, Vmids
    <3> QED BY <1>5, <3>1, <3>2, <3>3, <3>4 DEF OwnJob, Faithful, Owned, Usable, Exists, Vmids, Acting
  <2>2. CASE n = Idle
    BY <1>6, <2>2, IdleOwn
  <2> QED BY <2>1, <2>2
<1>8. \A w \in Vmids : Cloning(job[t], w) <=> w = v
  BY <1>0, <1>1 DEF Cloning
<1>9. \A w \in Vmids : Exists(w)' /\ guest'[w].building
                         => Exists(w) /\ guest[w].building /\ ~Cloning(job[t], w)
  BY <1>2, <1>8 DEF NoNewGuests
<1>10. \A w \in Vmids : ~Cloning(job[t], w) => guest'[w] = guest[w]
  BY <1>2, <1>8
<1>11. job' = [job EXCEPT ![t] = n]
  BY <1>6
<1>12. KeepsGuests
  BY <1>2
<1> QED BY <1>3, <1>7, <1>9, <1>10, <1>11, <1>12, OwnMoves

\* Every link, target and payload stays its own workload's.
LEMMA NextOwn ==
  ASSUME Assumed, Undisturbed, ReadFaults => DefaultNamed = {}, Shape, LockInv, OwnInv, [Next]_vars
  PROVE  OwnInv'
<1>1. CASE People
  BY <1>1, PeopleOwn
<1>2. ASSUME NEW t \in Hooks, Deliver(t) PROVE OwnInv'
  <2>1. PICK e \in pending : Begin(t, e) /\ pending' = pending \ {e}
    BY <1>2 DEF Deliver
  <2> QED BY <1>2, <2>1, BeginOwn DEF Deliver, Tasks
<1>3. CASE SweepNext
  <2>1. PICK e \in todo : Begin(Sweeper, e) /\ todo' = todo \ {e}
    BY <1>3 DEF SweepNext
  <2> QED BY <1>3, <2>1, BeginOwn DEF SweepNext, Tasks
<1>4. CASE SweepStarts
  BY <1>4, SweepStartsOwn
<1>5. ASSUME NEW t \in Tasks, FetchDeclared(t) PROVE OwnInv'
  BY <1>5, FetchOwn
<1>6. ASSUME NEW t \in Tasks, Purge(t) PROVE FALSE
  BY <1>6 DEF Purge, OwnInv, OwnJob
<1>7. ASSUME NEW t \in Tasks, Work(t) PROVE OwnInv'
  BY <1>6, <1>7, DecideOwn, QuarantineOwn, TagOwn, AdoptOwn, ProvisionOwn, CloneOwn, WritebackOwn,
     PowerSyncOwn, ConfigSyncOwn DEF Work
<1>8. CASE (\E v \in Vmids : Expire(v)) \/ UNCHANGED vars
  <2>1. UNCHANGED <<record, guest, pending, job, todo, stray>>
    BY <1>8 DEF Expire, vars
  <2>2. KeepsGuests
    BY <2>1 DEF KeepsGuests, Usable, Exists
  <2>3. FaithfulStores'
    BY <2>1, <2>2, StoresStay DEF OwnInv
  <2> QED BY <2>1, <2>2, <2>3, OwnStays DEF Exists
<1>9. ASSUME NEW v \in Vmids, AbandonedEnds(v) PROVE FALSE
  BY <1>9 DEF AbandonedEnds, Abandoned, OwnInv, Cloning
<1>10. stray = {} /\ ~Interruption
  BY DEF OwnInv, FaithfulStores, Interruption, Undisturbed, SweepTimesOut, Restart, CloneOutlasts
<1> QED BY <1>1, <1>2, <1>3, <1>4, <1>5, <1>7, <1>8, <1>9, <1>10 DEF Next

LEMMA OwnAlways ==
  ASSUME Undisturbed, ReadFaults => DefaultNamed = {}
  PROVE  Spec => [](Shape /\ LockInv /\ OwnInv)
<1>0. Assumed
  BY FlagsAssumption, SizesAssumption, NamesAssumption DEF Assumed
<1>1. Init => OwnInv
  BY <1>0, InitOwn
<1>2. Shape /\ LockInv /\ OwnInv /\ [Next]_vars => OwnInv'
  BY <1>0, NextOwn
<1> QED BY <1>1, <1>2, ShapeAlways, OneJobPerWorkload, PTL DEF Spec

\* A job acts on its own workload's guest only: neither a webhook's old payload,
\* a sweep's old listing nor a link read minutes ago leads it to another's, as
\* long as VMIDs are not freed by deletions and no job loses its lock.
THEOREM OwnGuest ==
  ASSUME Undisturbed, ReadFaults => DefaultNamed = {}
  PROVE  Spec => []OwnGuestOnly
<1>1. Assumed
  BY FlagsAssumption, SizesAssumption, NamesAssumption DEF Assumed
<1>2. Shape /\ OwnInv => OwnGuestOnly
  <2> SUFFICES ASSUME Shape, OwnInv, NEW t \in Tasks, job[t].target \in Vmids,
                      Exists(job[t].target)
               PROVE  guest[job[t].target].name = job[t].rec
    BY DEF OwnGuestOnly, Running, OwnInv, FaithfulStores
  <2>1. OwnJob(job[t]) /\ job[t].phase \in Phases
    BY DEF OwnInv, Shape, JobsInv, Jobs
  <2>2. job[t].phase \in Acting \cup {"clone"}
    BY <1>1, <2>1 DEF OwnJob, Phases, Threaded, Acting, Assumed, NamesAssumption, Vmids
  <2> QED BY <2>1, <2>2 DEF OwnJob, Owned
<1> QED BY <1>2, OwnAlways, PTL

-----------------------------------------------------------------------------
(* One guest for each workload. *)

\* Between the decision to provision a workload and the registration of its
\* VMID nobody makes a guest for it.
DupInv ==
  \A t \in Tasks, v \in Vmids : job[t].phase = "provision" /\ Exists(v) => guest[v].name # job[t].rec

\* Only a decision makes a job provision.
LEMMA ProvisioningComes ==
  ASSUME Assumed, Shape, [Next]_vars, NEW t \in Tasks, job'[t].phase = "provision"
  PROVE  Decide(t) \/ job'[t] = job[t]
<1>1. job \in [Tasks -> Jobs] /\ job[t] \in Jobs
  BY DEF Shape, JobsInv
<1>2. CASE job' = job
  BY <1>2
<1>3. ASSUME NEW u \in Tasks, u # t, NEW k, job' = [job EXCEPT ![u] = k] PROVE job'[t] = job[t]
  BY <1>1, <1>3
<1>4. ASSUME NEW k, job' = [job EXCEPT ![t] = k] PROVE k.phase = "provision"
  BY <1>1, <1>4
<1>5. ASSUME End(t) PROVE FALSE
  <2>1. Idle.phase # "provision"
    BY DEF Idle
  <2> QED BY <1>4, <1>5, <2>1 DEF End
<1>6. ASSUME NEW ph, Goto(t, ph), ph # "provision" PROVE FALSE
  BY <1>1, <1>6 DEF Goto, Jobs
<1>7. ASSUME NEW k, Proceed(t, k), k.phase # "provision" PROVE FALSE
  <2>1. job' = [job EXCEPT ![t] = IF k.phase = "idle" THEN Idle ELSE k]
    BY <1>7 DEF Proceed
  <2> QED BY <1>4, <1>7, <2>1 DEF Idle
<1>8. ASSUME NEW e, Begin(t, e) PROVE FALSE
  BY <1>1, <1>8 DEF Begin, Idle
<1>9. ASSUME NEW u \in Tasks, NEW e, Begin(u, e) PROVE job'[t] = job[t]
  <2>1. job' = [job EXCEPT ![u] = [Idle EXCEPT !.phase = "lock", !.rec = e.rec, !.event = e.event,
                                               !.hint = e.hint]]
    BY <1>9 DEF Begin
  <2> QED BY <1>3, <1>8, <1>9, <2>1
<1>10. ASSUME NEW u \in Tasks, FetchDeclared(u) PROVE job'[t] = job[t]
  <2>1. PICK d : job' = [job EXCEPT ![u] = [job[u] EXCEPT !.phase = "inspect", !.decl = d]]
    BY <1>10, FetchMoves
  <2>2. job[u] \in Jobs
    BY <1>1
  <2>3. [job[u] EXCEPT !.phase = "inspect", !.decl = d].phase = "inspect"
    BY <2>2 DEF Jobs
  <2> QED BY <1>3, <1>4, <2>1, <2>3
<1>11. ASSUME Work(t) \/ CloneOutlasts(t) PROVE Decide(t)
  <2>1. CASE Purge(t) \/ Tag(t) \/ Writeback(t) \/ ConfigSync(t) \/ CloneOutlasts(t)
    BY <1>5, <2>1 DEF Purge, Tag, Writeback, ConfigSync, CloneOutlasts
  <2>2. CASE Quarantine(t) \/ Clone(t)
    BY <1>5, <1>6, <2>2 DEF Quarantine, Clone
  <2>3. ASSUME Adopt(t) PROVE FALSE
    <3> DEFINE k == [job[t] EXCEPT !.phase = Transitions(job[t].power, job[t].config),
                                   !.decl.vmid = job[t].target]
    <3>1. k.phase # "provision"
      BY <1>1 DEF Jobs, Transitions
    <3>2. Proceed(t, k)
      BY <2>3 DEF Adopt
    <3> HIDE DEF k
    <3> QED BY <1>7, <3>1, <3>2
  <2>4. ASSUME PowerSync(t) PROVE FALSE
    <3> DEFINE k == [job[t] EXCEPT !.phase = Transitions("keep", job[t].config)]
    <3>1. k.phase # "provision"
      BY <1>1 DEF Jobs, Transitions
    <3>2. Proceed(t, k)
      BY <2>4 DEF PowerSync
    <3> HIDE DEF k
    <3> QED BY <1>7, <3>1, <3>2
  <2>5. ASSUME Provision(t) PROVE FALSE
    <3>1. ASSUME NEW v, job' = [job EXCEPT ![t].phase = "clone", ![t].target = v] PROVE FALSE
      BY <1>1, <3>1 DEF Jobs
    <3> QED BY <1>5, <2>5, <3>1 DEF Provision, Refuse
  <2> QED BY <1>11, <2>1, <2>2, <2>3, <2>4, <2>5 DEF Work
<1>12. ASSUME NEW u \in Tasks, Work(u) \/ CloneOutlasts(u) PROVE Decide(t) \/ job'[t] = job[t]
  <2>1. PICK k : job' = [job EXCEPT ![u] = k]
    BY <1>12, WorkMoves
  <2> QED BY <1>3, <1>11, <1>12, <2>1
<1>13. ASSUME SweepTimesOut PROVE job'[t] = job[t]
  <2>1. End(Sweeper) /\ Sweeper \in Tasks
    BY <1>13 DEF SweepTimesOut, Tasks
  <2> QED BY <1>3, <1>5, <2>1 DEF End
<1>14. ASSUME Restart PROVE FALSE
  BY <1>14 DEF Restart, Idle
<1>15. CASE People \/ SweepStarts \/ UNCHANGED vars
           \/ (\E v \in Vmids : Expire(v) \/ AbandonedEnds(v)) \/ (\E j \in stray : StrayEnds(j))
  BY <1>2, <1>15 DEF People, Edit, Delete, Ask, Drift, OutsideDelete, SweepStarts, vars, Expire,
                     AbandonedEnds, StrayEnds
<1>16. CASE SweepNext \/ \E u \in Hooks : Deliver(u)
  BY <1>9, <1>16 DEF SweepNext, Deliver, Tasks
<1> QED BY <1>10, <1>12, <1>13, <1>14, <1>15, <1>16 DEF Next, Interruption

\* A job decides to provision only if it has seen that there is no guest: with
\* every listing answered, none is overlooked.
LEMMA DecidesOnNone ==
  ASSUME Assumed, ~ReadFaults, Shape, LockInv, OwnInv, NEW t \in Tasks, Decide(t),
         job'[t].phase = "provision"
  PROVE  /\ guest' = guest /\ job'[t].rec = job[t].rec
         /\ \A v \in Vmids : Exists(v) => guest[v].name # job[t].rec
<1> DEFINE j == job[t]
           seen == Candidates(j.rec, j.decl)
<1>1. /\ j \in Jobs /\ j.rec \in Recs /\ OwnJob(j) /\ j.phase = "inspect" /\ guest' = guest
      /\ job \in [Tasks -> Jobs]
  BY DEF Decide, Shape, JobsInv, WellFormed, OwnInv
<1>2. ASSUME NEW v, NEW g, Dispatch(t, v, g)
      PROVE  g = NoGuest /\ j.decl # NoRecord /\ job'[t].rec = j.rec
  <2> DEFINE k == Plan(j, v, g)
  <2>1. ~End(t)
    BY <1>1 DEF End, Idle
  <2>2. Action(j.decl, g, j.event) # "noop" /\ Proceed(t, k)
    BY <1>2, <2>1 DEF Dispatch
  <2>3. k.phase = FirstPhase(Action(j.decl, g, j.event), k.power, k.config) /\ k.rec = j.rec
    BY <1>1 DEF Plan, Jobs
  <2> HIDE DEF k
  <2>4. job'[t] = k
    BY <1>1, <2>2 DEF Proceed, Idle
  <2>5. Action(j.decl, g, j.event) = "provision"
    <3>1. Action(j.decl, g, j.event) \in Actions
      BY DEF Action, Actions
    <3>2. Transitions(k.power, k.config) # "provision"
      BY DEF Transitions
    <3> QED BY <2>2, <2>3, <2>4, <3>1, <3>2 DEF FirstPhase, Actions
  <2> QED BY <2>3, <2>4, <2>5 DEF Action
<1>3. \A v \in seen : Owned(v, j.rec) /\ guest[v] # NoGuest
  BY <1>1, FoundIsOwned DEF Owned, Usable, Exists
<1>4. seen = {} /\ Dispatch(t, NoVmid, NoGuest)
  <2>1. ASSUME seen # {}, Unnamed(j.rec, j.decl) PROVE FALSE
    BY <1>3, <2>1 DEF Unnamed, Owned, Usable
  <2> QED BY <1>2, <1>3, <2>1 DEF Decide
<1>5. j.decl # NoRecord /\ job'[t].rec = j.rec
  BY <1>2, <1>4
<1>6. j.decl.vmid = NoVmid /\ j.decl.name = j.rec
  BY <1>1, <1>4, <1>5 DEF OwnJob, Faithful, Owned, Usable, Candidates
<1>7. \A v \in Vmids : Exists(v) => guest[v].name # j.rec
  BY <1>4, <1>5, <1>6 DEF Candidates
<1> QED BY <1>1, <1>5, <1>7

LEMMA NextDup ==
  ASSUME Assumed, Undisturbed, ~ReadFaults, Shape, LockInv, OwnInv, DupInv, NoDuplicateGuest,
         [Next]_vars
  PROVE  DupInv' /\ NoDuplicateGuest'
<1>1. CASE NoNewGuests
  <2>1. ASSUME NEW t \in Tasks, NEW v \in Vmids, job'[t].phase = "provision", Exists(v)'
        PROVE  guest'[v].name # job'[t].rec
    <3>1. Exists(v) /\ guest'[v].name = guest[v].name
      BY <1>1, <2>1 DEF NoNewGuests
    <3> QED BY <2>1, <3>1, ProvisioningComes, DecidesOnNone DEF DupInv
  <2> QED BY <1>1, <2>1 DEF NoNewGuests, DupInv, NoDuplicateGuest, Vmids
<1>2. ASSUME NEW u \in Tasks, Provision(u), ~NoNewGuests PROVE DupInv' /\ NoDuplicateGuest'
  <2>1. guest' # guest
    BY <1>2 DEF NoNewGuests, Exists
  <2>2. PICK v \in Vmids : /\ ~Exists(v) /\ Exists(v)' /\ guest'[v].name = job[u].rec
                           /\ \A w \in Vmids \ {v} : guest'[w] = guest[w]
                           /\ job' = [job EXCEPT ![u] = [job[u] EXCEPT !.phase = "clone", !.target = v]]
    BY <1>2, <2>1, ProvisionGuests
  <2>3. job[u].phase = "provision" /\ job[u] \in Jobs /\ job \in [Tasks -> Jobs]
    BY <1>2 DEF Provision, Shape, JobsInv
  <2>4. job'[u].phase = "clone"
    BY <2>2, <2>3 DEF Jobs
  <2>5. ASSUME NEW t \in Tasks, NEW w \in Vmids, job'[t].phase = "provision", Exists(w)'
        PROVE  guest'[w].name # job'[t].rec
    <3>1. t # u /\ job'[t] = job[t]
      BY <2>2, <2>3, <2>4, <2>5
    <3>2. job[t].rec # job[u].rec
      BY <2>3, <2>5, <3>1 DEF LockInv, Working
    <3> QED BY <2>2, <2>5, <3>1, <3>2 DEF DupInv, Exists
  <2>6. \A w \in Vmids : Exists(w) => guest[w].name # job[u].rec
    BY <2>3 DEF DupInv
  <2>7. ASSUME NEW w \in Vmids, NEW x \in Vmids, Exists(w)', Exists(x)', guest'[w].name = guest'[x].name
        PROVE  w = x
    BY <2>2, <2>6, <2>7 DEF NoDuplicateGuest, Exists
  <2> QED BY <2>5, <2>7 DEF DupInv, NoDuplicateGuest, Vmids
<1> QED BY <1>1, <1>2, NextGuests

\* One workload never has two guests: whatever races, fails or is lost, the lock
\* spans the look for a guest and the end of the clone.  A listing that fails is
\* taken for an empty one and two guests can come of it.
THEOREM NoDuplicate ==
  ASSUME Undisturbed, ~ReadFaults
  PROVE  Spec => []NoDuplicateGuest
<1>0. Assumed
  BY FlagsAssumption, SizesAssumption, NamesAssumption DEF Assumed
<1>1. Init => DupInv /\ NoDuplicateGuest
  BY DEF Init, DupInv, NoDuplicateGuest, Exists
<1>2. Shape /\ LockInv /\ OwnInv /\ DupInv /\ NoDuplicateGuest /\ [Next]_vars
        => DupInv' /\ NoDuplicateGuest'
  BY <1>0, NextDup
<1> QED BY <1>1, <1>2, OwnAlways, PTL DEF Spec

-----------------------------------------------------------------------------
(* A quarantine stands. *)

Tagged(r) == record[r] # NoRecord /\ record[r].tagged

\* Whoever works for a quarantined workload has read that it is one, or purges it.
QuarInv ==
  /\ stray = {}
  /\ \A t \in Tasks : Working(t) /\ Tagged(job[t].rec) =>
       \/ job[t].phase = "inspect" /\ job[t].decl # NoRecord /\ job[t].decl.tagged
       \/ job[t].phase = "purge"

\* Only the worker that has quarantined a guest sets the tag; people take it off.
LEMMA TagComes ==
  ASSUME Assumed, Shape, [Next]_vars, NEW r \in Recs, Tagged(r)'
  PROVE  Tagged(r) \/ \E t \in Tasks : Tag(t) /\ job[t].rec = r
<1>1. record[r] # NoRecord
  BY GoneStaysGone DEF Tagged
<1>2. record[r] \in Records /\ record \in [Recs -> Records \cup {NoRecord}]
  BY <1>1 DEF Shape, StoresInv
<1>3. CASE record' = record
  BY <1>3 DEF Tagged
<1>4. ASSUME NEW q \in Recs, Edit(q) PROVE Tagged(r)
  <2>1. PICK s \in Statuses, c \in Specs, d \in Disks, b \in {record[q].tagged, FALSE},
             v \in {record[q].vmid} \cup Linkable(q) :
          record' = [record EXCEPT ![q] = [@ EXCEPT !.status = s, !.spec = c, !.disk = d,
                                                    !.tagged = b, !.vmid = v]]
    BY <1>4 DEF Edit
  <2>2. q = r => record'[r].tagged = b
    BY <1>2, <2>1 DEF Records
  <2>3. q # r => record'[r] = record[r]
    BY <1>2, <2>1
  <2> QED BY <1>1, <2>2, <2>3 DEF Tagged
<1>5. ASSUME NEW q \in Recs, Delete(q) PROVE Tagged(r)
  BY <1>2, <1>5 DEF Delete, Tagged
<1>6. ASSUME NEW t \in Tasks, Adopt(t) \/ Writeback(t) PROVE Tagged(r)
  <2> DEFINE q == job[t].rec
  <2>1. q \in Recs
    BY <1>6 DEF Adopt, Writeback, Shape, JobsInv, WellFormed
  <2>2. CASE record' = record
    BY <2>2 DEF Tagged
  <2>3. ASSUME record[q] # NoRecord,
               \/ record' = [record EXCEPT ![q] = [record[q] EXCEPT !.vmid = job[t].target]]
               \/ record' = [record EXCEPT ![q] = [record[q] EXCEPT !.status = "active",
                                                                    !.vmid = job[t].target]]
        PROVE  Tagged(r)
    <3>1. record[q] \in Records
      BY <2>1, <2>3 DEF Shape, StoresInv
    <3>2. CASE q # r
      BY <1>1, <1>2, <2>3, <3>2 DEF Tagged
    <3>3. CASE q = r
      <4>1. PICK n : /\ record' = [record EXCEPT ![q] = n]
                     /\ \/ n = [record[q] EXCEPT !.vmid = job[t].target]
                        \/ n = [record[q] EXCEPT !.status = "active", !.vmid = job[t].target]
        BY <2>3
      <4>2. n.tagged = record[r].tagged
        BY <1>2, <3>3, <4>1 DEF Records
      <4>3. record'[r] = n
        BY <1>2, <3>3, <4>1
      <4> QED BY <1>1, <4>2, <4>3 DEF Tagged
    <3> QED BY <3>2, <3>3
  <2> QED BY <1>6, <2>2, <2>3 DEF Adopt, Writeback, WriteRecord
<1>7. ASSUME NEW t \in Tasks, Tag(t), job[t].rec # r PROVE Tagged(r)
  <2>1. record'[r] = record[r]
    BY <1>2, <1>7 DEF Tag, WriteRecord
  <2> QED BY <2>1 DEF Tagged
<1>8. CASE ~\E t \in Tasks : Tag(t) \/ Adopt(t) \/ Writeback(t)
  BY <1>3, <1>4, <1>5, <1>8 DEF Next, People, Ask, Drift, OutsideDelete, Deliver, SweepStarts,
       SweepNext, FetchDeclared, Work, Decide, Purge, Quarantine, Provision, Clone, PowerSync,
       ConfigSync, Expire, AbandonedEnds, StrayEnds, Interruption, SweepTimesOut, Restart,
       CloneOutlasts, vars
<1> QED BY <1>6, <1>7, <1>8

\* How a job comes to be working after a step.
LEMMA WorkingComes ==
  ASSUME Assumed, Shape, [Next]_vars, NEW t \in Tasks, Working(t)'
  PROVE  \/ job'[t] = job[t]
         \/ FetchDeclared(t)
         \/ Work(t) /\ job'[t].rec = job[t].rec
<1>1. job \in [Tasks -> Jobs] /\ job[t] \in Jobs
  BY DEF Shape, JobsInv
<1>2. CASE job' = job
  BY <1>2
<1>3. ASSUME NEW u \in Tasks, u # t, NEW k, job' = [job EXCEPT ![u] = k] PROVE job'[t] = job[t]
  BY <1>1, <1>3
<1>4. ASSUME NEW k, job' = [job EXCEPT ![t] = k] PROVE job'[t] = k /\ k.phase \notin {"idle", "lock"}
  BY <1>1, <1>4 DEF Working
<1>5. ASSUME NEW u \in Tasks, NEW e, Begin(u, e) PROVE job'[t] = job[t]
  <2> DEFINE k == [Idle EXCEPT !.phase = "lock", !.rec = e.rec, !.event = e.event, !.hint = e.hint]
  <2>1. k.phase = "lock" /\ job' = [job EXCEPT ![u] = k]
    BY <1>5 DEF Begin, Idle
  <2> HIDE DEF k
  <2> QED BY <1>3, <1>4, <2>1
<1>6. ASSUME NEW u \in Tasks, FetchDeclared(u) PROVE FetchDeclared(t) \/ job'[t] = job[t]
  BY <1>3, <1>6, FetchMoves
<1>7. Idle.phase = "idle"
  BY DEF Idle
<1>8. ASSUME NEW u \in Tasks, Work(u) \/ CloneOutlasts(u)
      PROVE  job'[t] = job[t] \/ (Work(t) /\ job'[t].rec = job[t].rec)
  <2>1. PICK k : job' = [job EXCEPT ![u] = k] /\ (k = Idle \/ k.rec = job[u].rec)
    BY <1>8, WorkMoves
  <2>2. u = t => k # Idle
    BY <1>4, <1>7, <2>1
  <2>3. u = t => ~CloneOutlasts(t)
    BY <1>4, <1>7 DEF CloneOutlasts, End
  <2> QED BY <1>3, <1>4, <1>8, <2>1, <2>2, <2>3
<1>9. ASSUME SweepTimesOut PROVE job'[t] = job[t]
  BY <1>3, <1>4, <1>7, <1>9 DEF SweepTimesOut, End, Tasks
<1>10. ASSUME Restart PROVE FALSE
  BY <1>7, <1>10 DEF Restart, Working
<1>11. CASE People \/ SweepStarts \/ UNCHANGED vars
           \/ (\E v \in Vmids : Expire(v) \/ AbandonedEnds(v)) \/ (\E j \in stray : StrayEnds(j))
  BY <1>2, <1>11 DEF People, Edit, Delete, Ask, Drift, OutsideDelete, SweepStarts, vars, Expire,
                     AbandonedEnds, StrayEnds
<1>12. CASE SweepNext \/ \E u \in Hooks : Deliver(u)
  BY <1>5, <1>12 DEF SweepNext, Deliver, Tasks
<1> QED BY <1>6, <1>8, <1>9, <1>10, <1>11, <1>12 DEF Next, Interruption

LEMMA NextQuar ==
  ASSUME Assumed, ~ReadFaults, ~Interrupts, Shape, LockInv, DeletedInv, QuarInv, [Next]_vars
  PROVE  QuarInv'
<1>1. stray' = {}
  BY DEF QuarInv, Next, People, Edit, Delete, Ask, Drift, OutsideDelete, Deliver, SweepStarts,
       SweepNext, FetchDeclared, Work, Decide, Purge, Quarantine, Tag, Adopt, Provision, Clone,
       Writeback, PowerSync, ConfigSync, Expire, AbandonedEnds, StrayEnds, Interruption,
       SweepTimesOut, Restart, CloneOutlasts, vars
<1> DEFINE Goal(t) == \/ job'[t].phase = "inspect" /\ job'[t].decl # NoRecord /\ job'[t].decl.tagged
                      \/ job'[t].phase = "purge"
<1>2. ASSUME NEW t \in Tasks, Working(t)', Tagged(job[t].rec)' PROVE Goal(t)
  <2>1. /\ job[t] \in Jobs /\ job \in [Tasks -> Jobs] /\ Idle.phase = "idle"
        /\ Working(t) \/ FetchDeclared(t) => job[t].rec \in Recs
    BY DEF Shape, JobsInv, WellFormed, Working, Idle, FetchDeclared
  <2>2. ASSUME Working(t), job'[t].rec = job[t].rec
        PROVE  Tagged(job[t].rec)
    <3>1. Tagged(job[t].rec)'
      BY <1>2
    <3>2. PICK r \in Recs : r = job[t].rec /\ r = job'[t].rec
      BY <2>1, <2>2
    <3>3. ASSUME NEW u \in Tasks, Tag(u), job[u].rec = r PROVE FALSE
      <4>1. u = t
        BY <2>2, <3>2, <3>3 DEF LockInv, Tag, Working
      <4>2. job'[t] = Idle
        BY <2>1, <3>3, <4>1 DEF Tag, End
      <4> QED BY <1>2, <2>1, <4>2 DEF Working
    <3>4. Tagged(r)'
      BY <3>1, <3>2 DEF Tagged
    <3> QED BY <3>2, <3>3, <3>4, TagComes
  <2>3. CASE job'[t] = job[t]
    <3>1. Working(t)
      BY <1>2, <2>3 DEF Working
    <3> QED BY <2>2, <2>3, <3>1 DEF QuarInv
  <2>4. CASE FetchDeclared(t)
    <3>0. PICK d : job' = [job EXCEPT ![t] = [job[t] EXCEPT !.phase = "inspect", !.decl = d]]
      BY <2>4, FetchMoves
    <3>1. record' = record /\ job[t].rec \in Recs /\ job'[t].rec = job[t].rec
      BY <2>1, <2>4, <3>0 DEF FetchDeclared, Jobs
    <3>2. Tagged(job[t].rec)
      BY <1>2, <3>1 DEF Tagged
    <3>3. job[t].event # "deleted"
      BY <3>2 DEF DeletedInv, Running, Tagged
    <3>4. job' = [job EXCEPT ![t].phase = "inspect", ![t].decl = record[job[t].rec]]
      BY <2>4, <3>2, <3>3 DEF FetchDeclared, Tagged
    <3>5. job'[t].phase = "inspect" /\ job'[t].decl = record[job[t].rec]
      BY <2>1, <3>4 DEF Jobs
    <3> QED BY <3>2, <3>5 DEF Tagged
  <2>5. CASE Work(t) /\ job'[t].rec = job[t].rec
    <3>1. Working(t) /\ Tagged(job[t].rec)
      BY <2>2, <2>5, WorkMoves
    <3>2. CASE job[t].phase = "purge"
      <4>1. Purge(t)
        BY <2>5, <3>2 DEF Work, Decide, Quarantine, Tag, Adopt, Provision, Clone, Writeback,
                          PowerSync, ConfigSync
      <4>2. job'[t] = Idle
        BY <2>1, <4>1 DEF Purge, End
      <4> QED BY <1>2, <2>1, <4>2 DEF Working
    <3>3. CASE job[t].phase = "inspect" /\ job[t].decl # NoRecord /\ job[t].decl.tagged
      <4>1. Decide(t)
        BY <2>5, <3>3 DEF Work, Purge, Quarantine, Tag, Adopt, Provision, Clone, Writeback,
                          PowerSync, ConfigSync
      <4>2. PICK v, g : Dispatch(t, v, g)
        BY <4>1 DEF Decide
      <4>3. ~End(t)
        BY <1>2, <2>1 DEF End, Working
      <4> DEFINE act == Action(job[t].decl, g, job[t].event)
                 k == Plan(job[t], v, g)
      <4>4. act # "noop" /\ Proceed(t, k)
        BY <4>2, <4>3 DEF Dispatch
      <4>5. act = "purge"
        BY <3>3, <4>4 DEF Action, Retiring
      <4>6. k.phase = "purge"
        BY <2>1, <4>5 DEF Plan, FirstPhase, Jobs
      <4> HIDE DEF k
      <4>7. job'[t] = k
        BY <2>1, <4>4, <4>6 DEF Proceed
      <4> QED BY <4>6, <4>7
    <3> QED BY <3>1, <3>2, <3>3 DEF QuarInv
  <2> QED BY <1>2, <2>3, <2>4, <2>5, WorkingComes
<1> QED BY <1>1, <1>2 DEF QuarInv, Working, Tagged

\* Nothing starts a guest whose record is tagged as quarantined, not even a job
\* that decided before the tag was set: people may edit and delete records and
\* guests as they like, as long as reads are answered and no job loses its lock.
THEOREM QuarantineStands ==
  ASSUME ~ReadFaults, ~Interrupts
  PROVE  Spec => []NoStartUnderQuarantine
<1>0. Assumed
  BY FlagsAssumption, SizesAssumption, NamesAssumption DEF Assumed
<1>1. Init => DeletedInv /\ QuarInv
  BY IdleComes DEF Init, DeletedInv, QuarInv, Running, Idle, Working
<1>2. Shape /\ DeletedInv /\ [Next]_vars => DeletedInv'
  BY <1>0, NextDeleted
<1>3. Shape /\ LockInv /\ DeletedInv /\ QuarInv /\ [Next]_vars => QuarInv'
  BY <1>0, NextQuar
<1>4. QuarInv => NoStartUnderQuarantine
  BY DEF QuarInv, NoStartUnderQuarantine, Running, Working, Tagged
<1> QED BY <1>1, <1>2, <1>3, <1>4, ShapeAlways, OneJobPerWorkload, PTL DEF Spec

-----------------------------------------------------------------------------
(* What one pass makes of a guest. *)

\* The guest after the power transition and the configuration that the verdict on
\* d and g calls for (_apply_reconcile_transitions), when nothing fails.
AfterPower(d, g) == IF PowerChange(d, g) = "keep" THEN g ELSE Changed(PowerChange(d, g), d, g)
AfterPass(d, g)  ==
  IF NeedsConfig(d, g) THEN Changed("config", d, AfterPower(d, g)) ELSE AfterPower(d, g)

\* The power transition leaves a guest in the declared power state and takes the
\* boot flag along; the rest of the configuration is untouched.
LEMMA AfterPowerFacts ==
  ASSUME NEW d \in Records, NEW g \in Guests
  PROVE  LET h == AfterPower(d, g) IN
         /\ h \in Guests /\ PowerChange(d, h) = "keep"
         /\ h.name = g.name /\ h.spec = g.spec /\ h.disk = g.disk
         /\ PowerChange(d, g) # "keep" => BootChange(d, h) = "keep"
         /\ PowerChange(d, g) = "keep" => h = g
<1> DEFINE h == AfterPower(d, g)
<1>1. CASE PowerChange(d, g) = "keep"
  BY <1>1 DEF AfterPower
<1>2. CASE PowerChange(d, g) = "start"
  <2>1. d.status \in UpStatuses /\ h = Started(g)
    BY <1>2 DEF PowerChange, AfterPower, Changed
  <2>2. h \in Guests /\ h.power = "running" /\ h.onboot = TRUE /\ h.name = g.name /\ h.spec = g.spec
        /\ h.disk = g.disk
    BY <2>1 DEF Started, Guests, Power
  <2>3. d.status \notin DownStatuses
    BY <2>1 DEF UpStatuses, DownStatuses
  <2> HIDE DEF h
  <2>4. PowerChange(d, h) = "keep" /\ BootChange(d, h) = "keep"
    BY <2>1, <2>2, <2>3 DEF PowerChange, BootChange
  <2> QED BY <1>2, <2>2, <2>4 DEF h
<1>3. CASE PowerChange(d, g) = "stop"
  <2>1. d.status \in DownStatuses /\ h = Stopped(g)
    BY <1>3 DEF PowerChange, AfterPower, Changed
  <2>2. h \in Guests /\ h.power = "stopped" /\ h.onboot = FALSE /\ h.name = g.name /\ h.spec = g.spec
        /\ h.disk = g.disk
    BY <2>1 DEF Stopped, Guests, Power
  <2>3. d.status \notin UpStatuses
    BY <2>1 DEF UpStatuses, DownStatuses
  <2> HIDE DEF h
  <2>4. PowerChange(d, h) = "keep" /\ BootChange(d, h) = "keep"
    BY <2>1, <2>2, <2>3 DEF PowerChange, BootChange
  <2> QED BY <1>3, <2>2, <2>4 DEF h
<1> QED BY <1>1, <1>2, <1>3 DEF PowerChange

\* The configuration leaves nothing to configure and the power state as it is.
LEMMA ConfiguredFacts ==
  ASSUME Assumed, NEW d \in Records, NEW g \in Guests, PowerChange(d, g) = "keep"
  PROVE  LET h == Changed("config", d, g) IN
         PowerChange(d, h) = "keep" /\ BootChange(d, h) = "keep" /\ ConfigChanges(d, h) = {}
<1> DEFINE h == Changed("config", d, g)
<1>1. h = Configured(d, g)
  BY DEF Changed
<1>2. /\ h.name = d.name /\ h.spec = d.spec /\ h.power = g.power
      /\ h.onboot = (d.status \notin DownStatuses)
      /\ h.disk = IF d.disk > g.disk /\ g.disk > 0 THEN d.disk ELSE g.disk
  BY <1>1 DEF Configured, Guests, EffectiveOnboot
<1>3. d.disk \in Nat /\ g.disk \in Nat
  BY DEF Records, Guests, Assumed, SizesAssumption
<1> HIDE DEF h
<1>4. ~(d.disk > h.disk /\ h.disk > 0)
  BY <1>2, <1>3
<1>5. ConfigChanges(d, h) = {}
  BY <1>2, <1>4 DEF ConfigChanges
<1>6. PowerChange(d, h) = "keep"
  BY <1>2 DEF PowerChange
<1>7. BootChange(d, h) = "keep"
  BY <1>2, <1>6 DEF BootChange, PowerChange, UpStatuses, DownStatuses
<1> QED BY <1>5, <1>6, <1>7 DEF h

\* Whatever had drifted, the transition and the configuration that the drift calls
\* for leave none.
LEMMA PassHeals ==
  ASSUME Assumed, NEW d \in Records, NEW g \in Guests
  PROVE  AfterPass(d, g) \in Guests /\ ~Drifted(d, AfterPass(d, g))
<1> DEFINE p == AfterPower(d, g)
           h == AfterPass(d, g)
<1>1. /\ p \in Guests /\ PowerChange(d, p) = "keep"
      /\ p.name = g.name /\ p.spec = g.spec /\ p.disk = g.disk
      /\ PowerChange(d, g) # "keep" => BootChange(d, p) = "keep"
      /\ PowerChange(d, g) = "keep" => p = g
  BY AfterPowerFacts
<1>2. CASE NeedsConfig(d, g)
  <2>1. h = Changed("config", d, p)
    BY <1>2 DEF AfterPass
  <2> HIDE DEF p, h
  <2>2. h \in Guests
    BY <1>1, <2>1, ChangedIsGuest DEF Ops
  <2>3. ~Drifted(d, h)
    BY <1>1, <2>1, ConfiguredFacts DEF Drifted
  <2> QED BY <2>2, <2>3 DEF h
<1>3. CASE ~NeedsConfig(d, g)
  <2>1. h = p
    BY <1>3 DEF AfterPass
  <2> HIDE DEF p, h
  <2>2. ConfigChanges(d, p) = {}
    BY <1>1, <1>3 DEF NeedsConfig, ConfigChanges
  <2>3. BootChange(d, p) = "keep"
    BY <1>1, <1>3 DEF NeedsConfig
  <2>4. h \in Guests /\ ~Drifted(d, h)
    BY <1>1, <2>1, <2>2, <2>3 DEF Drifted
  <2> QED BY <2>4 DEF h
<1> QED BY <1>2, <1>3

\* What PowerSync and ConfigSync leave of a guest for a job that goes on as k.
AfterPlan(k, g) ==
  LET p == IF k.power = "keep" THEN g ELSE Changed(k.power, k.decl, g)
  IN  IF k.config THEN Changed("config", k.decl, p) ELSE p

\* Drift is healed by one pass that nothing disturbs, for every declared state and
\* every guest: the engine finds nothing to do about what its own plan leaves, for
\* a workload it links on the way as for one that is linked.
THEOREM OnePassSettles ==
  ASSUME NEW j \in Jobs, NEW v \in Vmids, NEW g \in Guests,
         Action(j.decl, g, j.event) \in {"adopt", "reconcile"}
  PROVE  Action([j.decl EXCEPT !.vmid = v], AfterPlan(Plan(j, v, g), g), "none") = "noop"
<1> DEFINE d == j.decl
           e == [j.decl EXCEPT !.vmid = v]
           k == Plan(j, v, g)
           h == AfterPass(d, g)
<1>0. Assumed
  BY FlagsAssumption, SizesAssumption, NamesAssumption DEF Assumed
<1>1. d # NoRecord /\ ~Retiring(d)
  BY DEF Action
<1>2. d \in Records
  BY <1>1 DEF Jobs
<1>3. k.power = PowerChange(d, g) /\ k.config = NeedsConfig(d, g) /\ k.decl = d
  <2> DEFINE act == Action(d, g, j.event)
  <2>1. k.power = IF act \in {"adopt", "reconcile"} THEN PowerChange(d, g) ELSE "keep"
    BY DEF Plan, Jobs
  <2>2. k.config = (act \in {"adopt", "reconcile"} /\ NeedsConfig(d, g)) /\ k.decl = d
    BY DEF Plan, Jobs
  <2> HIDE DEF act, k
  <2>3. NeedsConfig(d, g) \in BOOLEAN
    BY DEF NeedsConfig
  <2> QED BY <2>1, <2>2, <2>3 DEF act
<1>4. AfterPlan(k, g) = h
  BY <1>3 DEF AfterPlan, AfterPass, AfterPower
<1>5. h \in Guests /\ ~Drifted(d, h)
  BY <1>0, <1>2, PassHeals
<1>6. /\ e \in Records /\ e.status = d.status /\ e.tagged = d.tagged /\ e.vmid = v
      /\ e.name = d.name /\ e.spec = d.spec /\ e.disk = d.disk
  BY <1>2 DEF Records
<1> HIDE DEF d, e, h, k
<1>7. ~Drifted(e, h) /\ ~Retiring(e)
  <2>1. PowerChange(e, h) = PowerChange(d, h) /\ BootChange(e, h) = BootChange(d, h)
    BY <1>6 DEF PowerChange, BootChange
  <2>2. ConfigChanges(e, h) = ConfigChanges(d, h)
    BY <1>6 DEF ConfigChanges
  <2> QED BY <1>1, <1>5, <1>6, <2>1, <2>2 DEF Drifted, Retiring
<1>8. e # NoRecord /\ h # NoGuest /\ v # NoVmid
  BY <1>0, <1>5, <1>6 DEF Assumed, NamesAssumption, Vmids
<1> QED BY <1>4, <1>6, <1>7, <1>8 DEF Action, e, k

=============================================================================
