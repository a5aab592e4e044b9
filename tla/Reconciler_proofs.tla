-------------------------- MODULE Reconciler_proofs --------------------------
(***************************************************************************)
(* Type correctness of Reconciler and the safety of its purge, for every   *)
(* set of records, coroutines, VMIDs and statuses and every bound.         *)
(***************************************************************************)
EXTENDS Reconciler, TLAPS

Assumed == FlagsAssumption /\ SizesAssumption /\ NamesAssumption

\* A job that is past its decision knows what it acts on, and for whom.
Planned == {"adopt", "provision", "quarantine", "tag", "power", "config", "clone", "writeback"}

WellFormed(j) ==
  /\ j.phase # "idle" => j.rec \in Recs
  /\ j.phase \in Phases \ {"idle", "lock", "inspect", "provision"} => j.target \in Vmids
  /\ j.phase \in Planned => j.decl \in Records
  /\ j.phase = "power" => j.power \in {"start", "stop"}

StoresInv ==
  /\ record \in [Recs -> Records \cup {NoRecord}]
  /\ guest \in [Vmids -> Guests \cup {NoGuest}]
  /\ pending \subseteq Payloads /\ todo \subseteq Payloads
  /\ recent \in [Vmids -> BOOLEAN]
  /\ edits \in 0..MaxEdits /\ faults \in 0..MaxFaults

JobsInv ==
  /\ job \in [Tasks -> Jobs] /\ \A t \in Tasks : WellFormed(job[t])
  /\ stray \subseteq Jobs /\ \A j \in stray : WellFormed(j) /\ j.phase \in Threaded

\* Every clone that is waited for has a guest that is being built, and that
\* guest has no other owner.
Cloning(j, v) == j.phase = "clone" /\ j.target = v

CloneInv ==
  /\ \A j \in Running, v \in Vmids : Cloning(j, v) => Exists(v) /\ guest[v].building
  /\ \A t, u \in Tasks, v \in Vmids : Cloning(job[t], v) /\ Cloning(job[u], v) => t = u
  /\ \A t \in Tasks, j \in stray, v \in Vmids : ~(Cloning(job[t], v) /\ Cloning(j, v))
  /\ \A i, j \in stray, v \in Vmids : Cloning(i, v) /\ Cloning(j, v) => i = j

Shape == StoresInv /\ JobsInv /\ CloneInv

-----------------------------------------------------------------------------
(* The drivers return guests, and none of them ends a build. *)

Ops == {"start", "stop", "quarantine", "config"}

\* A driver call that succeeds leaves a guest, built or not as it was.
LEMMA ChangedIsGuest ==
  ASSUME Assumed, NEW g \in Guests, NEW op \in Ops, NEW d, op = "config" => d \in Records
  PROVE  Changed(op, d, g) \in Guests /\ Changed(op, d, g).building = g.building
<1>1. CASE op = "start"
  BY <1>1 DEF Changed, Started, Guests, Power
<1>2. CASE op \in {"stop", "quarantine"}
  BY <1>2 DEF Changed, Stopped, Guests, Power
<1>3. CASE op = "config"
  BY <1>3 DEF Changed, Configured, Guests, Records, EffectiveOnboot
<1> QED BY <1>1, <1>2, <1>3 DEF Ops

\* So does one that stops halfway.
LEMMA InterruptedIsGuest ==
  ASSUME Assumed, NEW g \in Guests, NEW op \in Ops, NEW d, op = "config" => d \in Records,
         NEW h \in Interrupted(op, d, g)
  PROVE  h \in Guests /\ h.building = g.building
<1> DEFINE c == Changed(op, d, g)
<1>1. c \in Guests /\ c.building = g.building
  BY ChangedIsGuest
<1>2. PICK done \in Partial(op) : h = [f \in DOMAIN g |-> IF f \in done THEN c[f] ELSE g[f]]
  BY DEF Interrupted
<1>3. "building" \notin done
  BY DEF Partial
<1>4. DOMAIN g = {"name", "power", "onboot", "spec", "disk", "building"}
  BY DEF Guests
<1> HIDE DEF c
<1>5. /\ h.name \in Recs /\ h.power \in Power /\ h.onboot \in BOOLEAN /\ h.spec \in Specs
      /\ h.disk \in Disks /\ h.building \in BOOLEAN
  BY <1>1, <1>2, <1>4 DEF Guests
<1>6. h = [name |-> h.name, power |-> h.power, onboot |-> h.onboot, spec |-> h.spec,
           disk |-> h.disk, building |-> h.building]
  BY <1>2, <1>4
<1>7. h \in Guests
  BY <1>5, <1>6 DEF Guests
<1> QED BY <1>1, <1>2, <1>3, <1>4, <1>7

\* The call on an existing guest, whatever comes of it.
LEMMA DriveKeeps ==
  ASSUME Assumed, StoresInv, NEW op \in Ops, NEW v \in Vmids,
         NEW d, op = "config" => d \in Records, Drive(op, d, v)
  PROVE  /\ guest' \in [Vmids -> Guests \cup {NoGuest}]
         /\ \A w \in Vmids : Exists(w) /\ guest[w].building => guest'[w] = guest[w]
         /\ faults' \in 0..MaxFaults
<1>1. CASE Usable(v) /\ Works /\ guest' = [guest EXCEPT ![v] = Changed(op, d, @)]
  <2>1. guest[v] \in Guests
    BY <1>1 DEF Usable, Exists, StoresInv
  <2>2. Changed(op, d, guest[v]) \in Guests
    BY <2>1, ChangedIsGuest
  <2> QED BY <1>1, <2>2 DEF StoresInv, Works, Usable
<1>2. CASE /\ Usable(v) /\ Fails
           /\ \E g \in Interrupted(op, d, guest[v]) : guest' = [guest EXCEPT ![v] = g]
  <2>1. guest[v] \in Guests
    BY <1>2 DEF Usable, Exists, StoresInv
  <2>2. PICK g \in Interrupted(op, d, guest[v]) : guest' = [guest EXCEPT ![v] = g]
    BY <1>2
  <2>3. g \in Guests
    BY <2>1, InterruptedIsGuest
  <2>4. faults' \in 0..MaxFaults
    BY <1>2, Assumed DEF Fails, StoresInv, Assumed, SizesAssumption
  <2> QED BY <1>2, <2>2, <2>3, <2>4 DEF StoresInv, Usable
<1>3. CASE ~Usable(v) /\ Works /\ UNCHANGED guest
  BY <1>3 DEF StoresInv, Works
<1> QED BY <1>1, <1>2, <1>3 DEF Drive

LEMMA DeleteKeeps ==
  ASSUME Assumed, StoresInv, NEW v \in Vmids, DeleteGuest(v)
  PROVE  /\ guest' \in [Vmids -> Guests \cup {NoGuest}]
         /\ \A w \in Vmids : Exists(w) /\ guest[w].building => guest'[w] = guest[w]
         /\ faults' \in 0..MaxFaults
<1>1. CASE Works /\ guest' \in {guest, [guest EXCEPT ![v] = NoGuest]}
           /\ (guest' # guest => Usable(v))
  BY <1>1 DEF StoresInv, Works, Usable
<1>2. CASE Usable(v) /\ Fails /\ guest' \in {guest, [guest EXCEPT ![v].power = "stopped"],
                                               [guest EXCEPT ![v] = NoGuest]}
  <2>1. guest[v] \in Guests
    BY <1>2 DEF Usable, Exists, StoresInv
  <2>2. [guest[v] EXCEPT !.power = "stopped"] \in Guests
    BY <2>1 DEF Guests, Power
  <2>3. faults' \in 0..MaxFaults
    BY <1>2 DEF Fails, StoresInv, Assumed, SizesAssumption
  <2> QED BY <1>2, <2>2, <2>3 DEF StoresInv, Usable
<1> QED BY <1>1, <1>2 DEF DeleteGuest, Usable

LEMMA CopiesAreGuests ==
  ASSUME NEW v \in Vmids, guest[v] \in Guests
  PROVE  Copies(v) \subseteq Guests
<1> SUFFICES ASSUME NEW g \in Copies(v) PROVE g \in Guests
  OBVIOUS
<1>1. PICK s \in Specs \X Disks :
        g = [guest[v] EXCEPT !.building = FALSE, !.spec = s[1], !.disk = s[2]]
  BY DEF Copies
<1>2. s[1] \in Specs /\ s[2] \in Disks
  OBVIOUS
<1> QED BY <1>1, <1>2 DEF Guests

\* A clone touches its own guest only.
LEMMA CloneEndsKeeps ==
  ASSUME Assumed, StoresInv, NEW v \in Vmids, Exists(v), CloneSucceeds(v) \/ CloneBreaks(v)
  PROVE  /\ guest' \in [Vmids -> Guests \cup {NoGuest}]
         /\ \A w \in Vmids \ {v} : guest'[w] = guest[w]
         /\ faults' \in 0..MaxFaults
<1>1. guest[v] \in Guests
  BY DEF Exists, StoresInv
<1>2. Copies(v) \subseteq Guests
  BY <1>1, CopiesAreGuests
<1>3. \A g \in Guests, b \in BOOLEAN :
        [g EXCEPT !.power = "running", !.onboot = b, !.building = FALSE] \in Guests
  BY DEF Guests, Power
<1>4. faults' \in 0..MaxFaults
  <2>1. Works \/ Fails
    BY DEF CloneSucceeds, CloneBreaks
  <2> QED BY <2>1 DEF Works, Fails, StoresInv, Assumed, SizesAssumption
<1>5. PICK g \in Guests \cup {NoGuest} : guest' = [guest EXCEPT ![v] = g]
  BY <1>1, <1>2, <1>3 DEF CloneSucceeds, CloneBreaks, StoresInv
<1> QED BY <1>4, <1>5 DEF StoresInv

LEMMA WriteKeeps ==
  ASSUME Assumed, StoresInv, NEW r \in Recs, NEW d, record[r] # NoRecord => d \in Records,
         WriteRecord(r, d)
  PROVE  /\ record' \in [Recs -> Records \cup {NoRecord}]
         /\ faults' \in 0..MaxFaults
<1>1. faults' \in 0..MaxFaults
  BY DEF WriteRecord, Works, Fails, StoresInv, Assumed, SizesAssumption
<1> QED BY <1>1 DEF WriteRecord, StoresInv

\* A webhook that comes of a write carries a record and is no deletion.
LEMMA EchoKeeps ==
  ASSUME StoresInv, NEW r \in Recs, record' \in [Recs -> Records \cup {NoRecord}], Echo(r)
  PROVE  /\ pending' \subseteq Payloads
         /\ \A e \in pending' : e \in pending \/ e.event # "deleted"
<1>1. Updated(r) \in Payloads /\ Updated(r).event # "deleted"
  BY DEF Updated, Payloads, Events
<1>2. pending' \in {pending, pending \cup {Updated(r)}}
  BY DEF Echo, Notify
<1> QED BY <1>1, <1>2 DEF StoresInv

-----------------------------------------------------------------------------
(* What Decide may turn a job into. *)

Decided == {"purge", "quarantine", "power", "config", "adopt", "provision", "idle"}

LEMMA PlanIsJob ==
  ASSUME Assumed, NEW j \in Jobs, j.rec \in Recs,
         NEW v, NEW g,
         \/ v \in Vmids /\ g \in Guests
         \/ v = NoVmid /\ g = NoGuest,
         Action(j.decl, g, j.event) # "noop"
  PROVE  /\ Plan(j, v, g) \in Jobs /\ WellFormed(Plan(j, v, g))
         /\ Plan(j, v, g).phase \in Decided
         /\ Plan(j, v, g).phase = "purge" => g # NoGuest /\ (j.decl = NoRecord \/ j.event = "deleted")
         /\ Plan(j, v, g).event = j.event /\ Plan(j, v, g).rec = j.rec
<1> DEFINE act == Action(j.decl, g, j.event)
           aligns == act \in {"adopt", "reconcile"}
           power == IF aligns THEN PowerChange(j.decl, g) ELSE "keep"
           config == aligns /\ NeedsConfig(j.decl, g)
           phase == FirstPhase(act, power, config)
<1>1. act \in {"purge", "decommission", "provision", "adopt", "reconcile"}
  BY DEF Action
<1>2. act # "provision" => g # NoGuest
  BY DEF Action, Assumed, NamesAssumption
<1>3. act = "purge" => g # NoGuest /\ (j.decl = NoRecord \/ j.event = "deleted")
  BY DEF Action
<1>4. act # "purge" => j.decl # NoRecord
  BY DEF Action
<1>5. power \in {"start", "stop", "keep"} /\ config \in BOOLEAN
  BY DEF PowerChange
<1>6. /\ phase \in Decided
      /\ phase = "purge" <=> act = "purge"
      /\ phase = "provision" <=> act = "provision"
      /\ phase = "power" => power # "keep"
  BY <1>1, <1>5 DEF FirstPhase, Transitions, Decided
<1>7. Plan(j, v, g) = [j EXCEPT !.phase = phase, !.target = v, !.power = power, !.config = config]
  BY DEF Plan
<1>8. v \in Vmids \cup {NoVmid}
  OBVIOUS
<1>9. g # NoGuest => v \in Vmids
  BY DEF Assumed, NamesAssumption
<1> HIDE DEF phase, power, config, act
<1>10. Plan(j, v, g) \in Jobs
  <2>1. phase \in Phases
    BY <1>6 DEF Decided, Phases, Threaded
  <2> QED BY <1>5, <1>7, <1>8, <2>1 DEF Jobs
<1>11. WellFormed(Plan(j, v, g))
  <2>1. j.decl \in Records \cup {NoRecord}
    BY DEF Jobs
  <2> QED BY <1>1, <1>2, <1>4, <1>5, <1>6, <1>7, <1>9, <2>1 DEF WellFormed, Jobs, Decided, Planned, Phases, Threaded
<1> QED BY <1>1, <1>2, <1>3, <1>6, <1>7, <1>9, <1>10, <1>11 DEF Jobs

-----------------------------------------------------------------------------
(* A job moves on, and clones are left alone. *)

LEMMA IdleIsJob == Idle \in Jobs /\ WellFormed(Idle) /\ Idle.phase = "idle"
BY DEF Idle, Jobs, WellFormed, Planned, Phases, Threaded, Events

LEMMA JobMoves ==
  ASSUME JobsInv, NEW t \in Tasks, NEW k \in Jobs, WellFormed(k),
         job' = [job EXCEPT ![t] = k], stray' = stray
  PROVE  JobsInv'
BY DEF JobsInv, WellFormed, Vmids

\* No clone begins or ends, and no guest that is being built changes.
LEMMA ClonesStay ==
  ASSUME CloneInv,
         \A t \in Tasks, v \in Vmids : Cloning(job'[t], v) => Cloning(job[t], v),
         stray' = stray,
         \A w \in Vmids : Exists(w) /\ guest[w].building => guest'[w] = guest[w]
  PROVE  CloneInv'
BY DEF CloneInv, Cloning, Running, Exists, Vmids

\* The job of t goes on as k, which does not clone.
LEMMA ClonesStayFor ==
  ASSUME CloneInv, JobsInv, NEW t \in Tasks, NEW k \in Jobs, k.phase # "clone",
         job' = [job EXCEPT ![t] = k], stray' = stray,
         \A w \in Vmids : Exists(w) /\ guest[w].building => guest'[w] = guest[w]
  PROVE  CloneInv'
<1>1. \A u \in Tasks, v \in Vmids : Cloning(job'[u], v) => Cloning(job[u], v)
  BY DEF JobsInv, Cloning
<1> QED BY <1>1, ClonesStay

LEMMA InitShape ==
  ASSUME Assumed, Init PROVE Shape
<1>1. StoresInv
  BY DEF Init, StoresInv, Records, Payloads, Assumed, SizesAssumption
<1>2. JobsInv
  BY IdleIsJob DEF Init, JobsInv
<1>3. CloneInv
  BY IdleIsJob DEF Init, CloneInv, Cloning, Running
<1> QED BY <1>1, <1>2, <1>3 DEF Shape

LEMMA PeopleShape ==
  ASSUME Assumed, Shape, People PROVE Shape'
<1> USE DEF Shape
<1>1. job' = job /\ stray' = stray /\ todo' = todo /\ recent' = recent /\ faults' = faults
  BY DEF People, Edit, Delete, Ask, Drift, OutsideDelete
<1>2. edits' \in 0..MaxEdits
  <2>1. EditCounted
    BY DEF People, Edit, Delete, Ask, Drift, OutsideDelete
  <2> QED BY <2>1 DEF EditCounted, StoresInv, Assumed, SizesAssumption
<1> DEFINE Kept == /\ record' \in [Recs -> Records \cup {NoRecord}] /\ pending' \subseteq Payloads
                   /\ guest' \in [Vmids -> Guests \cup {NoGuest}]
                   /\ \A w \in Vmids : Exists(w) /\ guest[w].building => guest'[w] = guest[w]
<1>3. Kept
  <2>1. ASSUME NEW r \in Recs, Edit(r) PROVE Kept
    <3>1. guest' = guest
      BY <2>1 DEF Edit
    <3>2. record' \in [Recs -> Records \cup {NoRecord}]
      <4>1. PICK s \in Statuses, c \in Specs, d \in Disks, b \in {record[r].tagged, FALSE},
                 v \in {record[r].vmid} \cup Linkable(r) :
              record' = [record EXCEPT ![r] = [@ EXCEPT !.status = s, !.spec = c, !.disk = d,
                                                        !.tagged = b, !.vmid = v]]
        BY <2>1 DEF Edit
      <4>2. record[r] \in Records
        BY <2>1 DEF Edit, StoresInv
      <4>3. b \in BOOLEAN /\ v \in Vmids \cup {NoVmid}
        BY <4>2 DEF Records, Linkable
      <4>4. [record[r] EXCEPT !.status = s, !.spec = c, !.disk = d, !.tagged = b, !.vmid = v]
              \in Records
        BY <4>2, <4>3 DEF Records
      <4> QED BY <4>1, <4>4 DEF StoresInv
    <3>3. pending' \subseteq Payloads
      BY <2>1, <3>2, EchoKeeps DEF Edit
    <3> QED BY <2>1, <3>1, <3>2, <3>3 DEF Edit, StoresInv
  <2>2. ASSUME NEW r \in Recs, Delete(r) PROVE Kept
    <3>1. [rec |-> r, event |-> "deleted", hint |-> record[r]] \in Payloads
      BY DEF StoresInv, Payloads, Events
    <3> QED BY <2>2, <3>1 DEF Delete, Notify, StoresInv
  <2>3. ASSUME NEW r \in Recs, Ask(r) PROVE Kept
    <3>1. [rec |-> r, event |-> "manual", hint |-> NoRecord] \in Payloads
      BY DEF Payloads, Events
    <3> QED BY <2>3, <3>1 DEF Ask, StoresInv
  <2>4. ASSUME NEW v \in Vmids, Drift(v) PROVE Kept
    <3>1. guest[v] \in Guests /\ ~guest[v].building
      BY <2>4 DEF Drift, Usable, Exists, StoresInv
    <3> QED BY <2>4, <3>1 DEF Drift, StoresInv, Guests
  <2>5. ASSUME NEW v \in Vmids, OutsideDelete(v) PROVE Kept
    BY <2>5 DEF OutsideDelete, Usable, StoresInv
  <2> QED BY <2>1, <2>2, <2>3, <2>4, <2>5 DEF People
<1>4. StoresInv'
  BY <1>1, <1>2, <1>3 DEF StoresInv, Vmids, Payloads, Records, Guests, Events, Power
<1>5. JobsInv'
  BY <1>1 DEF JobsInv, WellFormed, Vmids
<1>6. CloneInv'
  BY <1>1, <1>3, ClonesStay
<1> QED BY <1>4, <1>5, <1>6

-----------------------------------------------------------------------------
(* How a job begins and what it decides. *)

\* Stores that only lose a payload, or gain a listing, keep their types.
LEMMA BeginShape ==
  ASSUME Assumed, Shape, NEW t \in Tasks, NEW e \in Payloads, Begin(t, e),
         UNCHANGED <<record, guest, stray, recent, env>>,
         pending' \subseteq pending, todo' \subseteq todo
  PROVE  Shape'
<1> DEFINE k == [Idle EXCEPT !.phase = "lock", !.rec = e.rec, !.event = e.event, !.hint = e.hint]
<1>1. k \in Jobs /\ WellFormed(k) /\ k.phase = "lock"
  BY DEF Idle, Jobs, WellFormed, Planned, Phases, Threaded, Events, Payloads
<1>2. job' = [job EXCEPT ![t] = k]
  BY DEF Begin
<1> HIDE DEF k
<1>3. StoresInv'
  BY DEF Shape, StoresInv, env, Vmids, Payloads, Records, Guests, Events, Power
<1>4. JobsInv'
  BY <1>1, <1>2, JobMoves DEF Shape
<1>5. CloneInv'
  BY <1>1, <1>2, ClonesStayFor DEF Shape
<1> QED BY <1>3, <1>4, <1>5 DEF Shape

LEMMA DeliverShape ==
  ASSUME Assumed, Shape, NEW t \in Hooks, Deliver(t) PROVE Shape'
<1>1. PICK e \in pending : Begin(t, e) /\ pending' = pending \ {e}
  BY DEF Deliver
<1> QED BY <1>1, BeginShape DEF Deliver, Shape, StoresInv, Tasks

LEMMA SweepNextShape ==
  ASSUME Assumed, Shape, SweepNext PROVE Shape'
<1>1. PICK e \in todo : Begin(Sweeper, e) /\ todo' = todo \ {e}
  BY DEF SweepNext
<1> QED BY <1>1, BeginShape DEF SweepNext, Shape, StoresInv, Tasks

LEMMA SweepStartsShape ==
  ASSUME Assumed, Shape, SweepStarts PROVE Shape'
<1>1. todo' \subseteq Payloads
  BY DEF SweepStarts, Shape, StoresInv, Payloads, Events
<1>2. StoresInv'
  BY <1>1 DEF SweepStarts, Shape, StoresInv, env, Vmids, Payloads, Records, Guests, Events, Power
<1>3. JobsInv'
  BY DEF SweepStarts, Shape, JobsInv, WellFormed
<1>4. CloneInv'
  BY ClonesStay DEF SweepStarts, Shape
<1> QED BY <1>2, <1>3, <1>4 DEF Shape

\* The job of t goes on as k, and nothing else but the fault count changes.
LEMMA JobOnly ==
  ASSUME Assumed, Shape, NEW t \in Tasks, NEW k \in Jobs, WellFormed(k), k.phase # "clone",
         job' = [job EXCEPT ![t] = k], faults' \in 0..MaxFaults,
         UNCHANGED <<record, guest, pending, todo, stray, recent, edits>>
  PROVE  Shape'
<1>1. StoresInv'
  BY DEF Shape, StoresInv, Vmids, Payloads, Records, Guests, Events, Power
<1>2. JobsInv'
  BY JobMoves DEF Shape
<1>3. CloneInv'
  BY ClonesStayFor DEF Shape
<1> QED BY <1>1, <1>2, <1>3 DEF Shape

LEMMA FetchShape ==
  ASSUME Assumed, Shape, NEW t \in Tasks, FetchDeclared(t) PROVE Shape'
<1> DEFINE k(d) == [job[t] EXCEPT !.phase = "inspect", !.decl = d]
<1>1. job[t] \in Jobs /\ WellFormed(job[t]) /\ job[t].phase = "lock"
  BY DEF FetchDeclared, Shape, JobsInv
<1>2. record[job[t].rec] \in Records \cup {NoRecord}
  BY <1>1 DEF Shape, StoresInv, WellFormed
<1>3. faults' \in 0..MaxFaults
  BY DEF FetchDeclared, Works, Fails, Shape, StoresInv, Assumed, SizesAssumption
<1>4. PICK d \in {record[job[t].rec], job[t].hint} :
        job' = [job EXCEPT ![t].phase = "inspect", ![t].decl = d]
  BY DEF FetchDeclared
<1>5. d \in Records \cup {NoRecord}
  BY <1>1, <1>2, <1>4 DEF Jobs
<1>6. k(d) \in Jobs /\ WellFormed(k(d)) /\ k(d).phase = "inspect"
  BY <1>1, <1>5 DEF Jobs, WellFormed, Planned, Phases, Threaded
<1>7. job' = [job EXCEPT ![t] = k(d)]
  BY <1>4 DEF Shape, JobsInv
<1> HIDE DEF k
<1> QED BY <1>3, <1>6, <1>7, JobOnly DEF FetchDeclared

\* What Dispatch does with a guest, or with none.
LEMMA DispatchShape ==
  ASSUME Assumed, Shape, NEW t \in Tasks, job[t].phase = "inspect",
         NEW v, NEW g,
         \/ v \in Vmids /\ g \in Guests
         \/ v = NoVmid /\ g = NoGuest,
         Dispatch(t, v, g), faults' \in 0..MaxFaults,
         UNCHANGED <<record, guest, pending, todo, stray, recent, edits>>
  PROVE  Shape'
<1>1. job[t] \in Jobs /\ job[t].rec \in Recs
  BY DEF Shape, JobsInv, WellFormed
<1>2. CASE End(t)
  BY <1>2, IdleIsJob, JobOnly DEF End
<1>3. CASE Action(job[t].decl, g, job[t].event) # "noop" /\ Proceed(t, Plan(job[t], v, g))
  <2>1. /\ Plan(job[t], v, g) \in Jobs /\ WellFormed(Plan(job[t], v, g))
        /\ Plan(job[t], v, g).phase # "clone"
    BY <1>1, <1>3, PlanIsJob DEF Decided
  <2>2. CASE Plan(job[t], v, g).phase = "idle"
    BY <1>3, <2>2, IdleIsJob, JobOnly DEF Proceed
  <2>3. CASE Plan(job[t], v, g).phase # "idle"
    BY <1>3, <2>1, <2>3, JobOnly DEF Proceed
  <2> QED BY <2>2, <2>3
<1> QED BY <1>2, <1>3 DEF Dispatch

\* A candidate exists; without a record there is one for a default name only.
LEMMA CandidateFacts ==
  ASSUME Assumed, Shape, NEW r, NEW d, NEW v \in Candidates(r, d)
  PROVE  /\ v \in Vmids /\ guest[v] \in Guests
         /\ d = NoRecord => r \in DefaultNamed
BY DEF Candidates, Exists, Shape, StoresInv

LEMMA DecideShape ==
  ASSUME Assumed, Shape, NEW t \in Tasks, Decide(t) PROVE Shape'
<1>1. /\ job[t].phase = "inspect"
      /\ UNCHANGED <<record, guest, pending, todo, stray, recent, edits>>
  BY DEF Decide
<1>2. faults' \in 0..MaxFaults
  BY DEF Decide, Works, Fails, Shape, StoresInv, Assumed, SizesAssumption
<1>3. CASE \E v \in Candidates(job[t].rec, job[t].decl) : Dispatch(t, v, guest[v])
  BY <1>1, <1>2, <1>3, CandidateFacts, DispatchShape
<1>4. CASE Dispatch(t, NoVmid, NoGuest)
  BY <1>1, <1>2, <1>4, DispatchShape
<1> QED BY <1>3, <1>4 DEF Decide

-----------------------------------------------------------------------------
(* The workers. *)

\* A step of t's job that writes to the stores and does not start a clone.
LEMMA WorkerShape ==
  ASSUME Assumed, Shape, NEW t \in Tasks, NEW k \in Jobs, WellFormed(k), k.phase # "clone",
         job' = [job EXCEPT ![t] = k], faults' \in 0..MaxFaults,
         record' \in [Recs -> Records \cup {NoRecord}],
         guest' \in [Vmids -> Guests \cup {NoGuest}],
         \A w \in Vmids : Exists(w) /\ guest[w].building => guest'[w] = guest[w],
         pending' \subseteq Payloads, recent' \in [Vmids -> BOOLEAN],
         UNCHANGED <<todo, stray, edits>>
  PROVE  Shape'
<1>1. StoresInv'
  BY DEF Shape, StoresInv, Vmids, Payloads, Records, Guests, Events, Power
<1>2. JobsInv'
  BY JobMoves DEF Shape
<1>3. CloneInv'
  BY ClonesStayFor DEF Shape
<1> QED BY <1>1, <1>2, <1>3 DEF Shape

LEMMA PurgeShape ==
  ASSUME Assumed, Shape, NEW t \in Tasks, Purge(t) PROVE Shape'
<1>1. job[t].target \in Vmids
  BY DEF Purge, Shape, JobsInv, WellFormed, Phases, Threaded
<1>2. /\ guest' \in [Vmids -> Guests \cup {NoGuest}]
      /\ \A w \in Vmids : Exists(w) /\ guest[w].building => guest'[w] = guest[w]
      /\ faults' \in 0..MaxFaults
  BY <1>1, DeleteKeeps DEF Purge, Shape
<1>3. recent' \in [Vmids -> BOOLEAN]
  BY <1>1 DEF Purge, Shape, StoresInv
<1> QED BY <1>2, <1>3, IdleIsJob, WorkerShape DEF Purge, End, Shape, StoresInv

LEMMA QuarantineShape ==
  ASSUME Assumed, Shape, NEW t \in Tasks, Quarantine(t) PROVE Shape'
<1>1. /\ job[t] \in Jobs /\ WellFormed(job[t]) /\ job[t].phase = "quarantine"
      /\ job[t].target \in Vmids
  BY DEF Quarantine, Shape, JobsInv, WellFormed, Phases, Threaded
<1>2. /\ guest' \in [Vmids -> Guests \cup {NoGuest}]
      /\ \A w \in Vmids : Exists(w) /\ guest[w].building => guest'[w] = guest[w]
      /\ faults' \in 0..MaxFaults
  BY <1>1, DriveKeeps DEF Quarantine, Shape, Ops
<1> DEFINE k == [job[t] EXCEPT !.phase = "tag"]
<1>3. k \in Jobs /\ WellFormed(k) /\ k.phase = "tag"
  BY <1>1 DEF Jobs, WellFormed, Planned, Phases, Threaded
<1>4. job' = [job EXCEPT ![t] = k] \/ job' = [job EXCEPT ![t] = Idle]
  BY DEF Quarantine, Goto, End, Shape, JobsInv
<1> HIDE DEF k
<1> QED BY <1>2, <1>3, <1>4, IdleIsJob, WorkerShape DEF Quarantine, Shape, StoresInv

LEMMA TagShape ==
  ASSUME Assumed, Shape, NEW t \in Tasks, Tag(t) PROVE Shape'
<1> DEFINE r == job[t].rec
           d == [record[r] EXCEPT !.status = "decommissioning", !.tagged = TRUE]
<1>1. r \in Recs /\ job[t].target \in Vmids
  BY DEF Tag, Shape, JobsInv, WellFormed, Phases, Threaded
<1>2. record[r] # NoRecord => d \in Records
  BY <1>1 DEF Shape, StoresInv, Records
<1>3. /\ record' \in [Recs -> Records \cup {NoRecord}]
      /\ faults' \in 0..MaxFaults
  BY <1>1, <1>2, WriteKeeps DEF Tag, Shape
<1>5. pending' \subseteq Payloads
  BY <1>1, <1>3, EchoKeeps DEF Tag, Shape
<1>6. recent' \in [Vmids -> BOOLEAN]
  BY <1>1 DEF Tag, Shape, StoresInv
<1> QED BY <1>3, <1>5, <1>6, IdleIsJob, WorkerShape DEF Tag, End, Shape, StoresInv

LEMMA AdoptShape ==
  ASSUME Assumed, Shape, NEW t \in Tasks, Adopt(t) PROVE Shape'
<1> DEFINE j == job[t]
           d == [record[j.rec] EXCEPT !.vmid = j.target]
           k == [j EXCEPT !.phase = Transitions(j.power, j.config), !.decl.vmid = j.target]
<1>1. /\ j \in Jobs /\ j.phase = "adopt" /\ j.rec \in Recs /\ j.target \in Vmids
      /\ j.decl \in Records
  BY DEF Adopt, Shape, JobsInv, WellFormed, Planned, Phases, Threaded
<1>2. record[j.rec] # NoRecord => d \in Records
  BY <1>1 DEF Shape, StoresInv, Records
<1>3. /\ record' \in [Recs -> Records \cup {NoRecord}]
      /\ faults' \in 0..MaxFaults
  BY <1>1, <1>2, WriteKeeps DEF Adopt, Shape
<1>4. [j.decl EXCEPT !.vmid = j.target] \in Records
  BY <1>1 DEF Records
<1>5. /\ Transitions(j.power, j.config) \in {"power", "config", "idle"}
      /\ Transitions(j.power, j.config) = "power" => j.power # "keep"
  BY DEF Transitions
<1>6. k \in Jobs /\ WellFormed(k) /\ k.phase # "clone"
  BY <1>1, <1>4, <1>5 DEF Jobs, WellFormed, Planned, Phases, Threaded
<1>7. job' = [job EXCEPT ![t] = IF k.phase = "idle" THEN Idle ELSE k]
  BY DEF Adopt, Proceed
<1> HIDE DEF k
<1>8. (IF k.phase = "idle" THEN Idle ELSE k) \in Jobs
      /\ WellFormed(IF k.phase = "idle" THEN Idle ELSE k)
      /\ (IF k.phase = "idle" THEN Idle ELSE k).phase # "clone"
  BY <1>6, IdleIsJob
<1>9. pending' \subseteq Payloads
  BY <1>1, <1>3, EchoKeeps DEF Adopt, Shape
<1> QED BY <1>3, <1>7, <1>8, <1>9, WorkerShape DEF Adopt, Shape, StoresInv

LEMMA WritebackShape ==
  ASSUME Assumed, Shape, NEW t \in Tasks, Writeback(t) PROVE Shape'
<1> DEFINE j == job[t]
           d == [record[j.rec] EXCEPT !.status = "active", !.vmid = j.target]
<1>1. j.rec \in Recs /\ j.target \in Vmids
  BY DEF Writeback, Shape, JobsInv, WellFormed, Phases, Threaded
<1>2. record[j.rec] # NoRecord => d \in Records
  BY <1>1 DEF Shape, StoresInv, Records
<1>3. /\ record' \in [Recs -> Records \cup {NoRecord}]
      /\ faults' \in 0..MaxFaults
  BY <1>1, <1>2, WriteKeeps DEF Writeback, Shape
<1>4. pending' \subseteq Payloads
  BY <1>1, <1>3, EchoKeeps DEF Writeback, Shape
<1> QED BY <1>3, <1>4, IdleIsJob, WorkerShape DEF Writeback, End, Shape, StoresInv

LEMMA PowerSyncShape ==
  ASSUME Assumed, Shape, NEW t \in Tasks, PowerSync(t) PROVE Shape'
<1> DEFINE j == job[t]
           k == [j EXCEPT !.phase = Transitions("keep", j.config)]
<1>1. /\ j \in Jobs /\ j.phase = "power" /\ j.rec \in Recs /\ j.target \in Vmids
      /\ j.decl \in Records /\ j.power \in {"start", "stop"}
  BY DEF PowerSync, Shape, JobsInv, WellFormed, Planned, Phases, Threaded
<1>2. /\ guest' \in [Vmids -> Guests \cup {NoGuest}]
      /\ \A w \in Vmids : Exists(w) /\ guest[w].building => guest'[w] = guest[w]
      /\ faults' \in 0..MaxFaults
  <2>1. CASE Drive(j.power, j.decl, j.target)
    BY <1>1, <2>1, DriveKeeps DEF Shape, Ops
  <2>2. CASE Works /\ UNCHANGED guest
    BY <2>2 DEF Works, Shape, StoresInv
  <2> QED BY <2>1, <2>2 DEF PowerSync
<1>3. pending' \subseteq Payloads
  <2>1. record[j.rec] # NoRecord =>
          [rec |-> j.rec, event |-> "updated", hint |-> record[j.rec]] \in Payloads
    BY <1>1 DEF Shape, StoresInv, Payloads, Events
  <2> QED BY <2>1 DEF PowerSync, Notify, Shape, StoresInv
<1>4. Transitions("keep", j.config) \in {"config", "idle"}
  BY DEF Transitions
<1>5. k \in Jobs /\ WellFormed(k) /\ k.phase # "clone"
  BY <1>1, <1>4 DEF Jobs, WellFormed, Planned, Phases, Threaded
<1>6. job' = [job EXCEPT ![t] = IF k.phase = "idle" THEN Idle ELSE k]
  BY DEF PowerSync, Proceed
<1> HIDE DEF k
<1>7. (IF k.phase = "idle" THEN Idle ELSE k) \in Jobs
      /\ WellFormed(IF k.phase = "idle" THEN Idle ELSE k)
      /\ (IF k.phase = "idle" THEN Idle ELSE k).phase # "clone"
  BY <1>5, IdleIsJob
<1> QED BY <1>2, <1>3, <1>6, <1>7, WorkerShape DEF PowerSync, Shape, StoresInv

LEMMA ConfigSyncShape ==
  ASSUME Assumed, Shape, NEW t \in Tasks, ConfigSync(t) PROVE Shape'
<1>1. job[t].target \in Vmids /\ job[t].decl \in Records
  BY DEF ConfigSync, Shape, JobsInv, WellFormed, Planned, Phases, Threaded
<1>2. /\ guest' \in [Vmids -> Guests \cup {NoGuest}]
      /\ \A w \in Vmids : Exists(w) /\ guest[w].building => guest'[w] = guest[w]
      /\ faults' \in 0..MaxFaults
  BY <1>1, DriveKeeps DEF ConfigSync, Shape, Ops
<1> QED BY <1>2, IdleIsJob, WorkerShape DEF ConfigSync, End, Shape, StoresInv

-----------------------------------------------------------------------------
(* Clones. *)

LEMMA ProvisionShape ==
  ASSUME Assumed, Shape, NEW t \in Tasks, Provision(t) PROVE Shape'
<1> DEFINE d == job[t].decl
<1>1. job[t] \in Jobs /\ job[t].phase = "provision" /\ job[t].rec \in Recs /\ d \in Records
  BY DEF Provision, Shape, JobsInv, WellFormed, Planned, Phases, Threaded
<1>2. faults' \in 0..MaxFaults
  BY DEF Provision, Refuse, Works, Fails, Shape, StoresInv, Assumed, SizesAssumption
<1>3. CASE End(t) /\ UNCHANGED guest
  BY <1>2, <1>3, IdleIsJob, JobOnly DEF Provision, End
<1>4. ASSUME NEW v \in Allocatable(d), guest' = [guest EXCEPT ![v] = Blank(d)],
             job' = [job EXCEPT ![t].phase = "clone", ![t].target = v]
      PROVE  Shape'
  <2> DEFINE k == [job[t] EXCEPT !.phase = "clone", !.target = v]
  <2>1. v \in Vmids /\ ~Exists(v)
    BY DEF Allocatable
  <2>2. k \in Jobs /\ WellFormed(k) /\ k.phase = "clone" /\ k.target = v
    BY <1>1, <2>1 DEF Jobs, WellFormed, Planned, Phases, Threaded
  <2>3. job' = [job EXCEPT ![t] = k]
    BY <1>4 DEF Shape, JobsInv
  <2> HIDE DEF k
  <2>4. Blank(d) \in Guests /\ Blank(d).building
    BY <1>1 DEF Blank, Guests, Records, Power
  <2>5. /\ guest' \in [Vmids -> Guests \cup {NoGuest}]
        /\ \A w \in Vmids \ {v} : guest'[w] = guest[w]
        /\ guest'[v] = Blank(d) /\ guest'[v] # NoGuest
    BY <1>4, <2>1, <2>4 DEF Shape, StoresInv, Assumed, NamesAssumption
  <2>6. StoresInv'
    BY <1>2, <2>5 DEF Provision, Shape, StoresInv, Vmids, Payloads, Records, Guests, Events, Power
  <2>7. JobsInv'
    BY <2>2, <2>3, JobMoves DEF Provision, Shape
  <2>8. stray' = stray /\ job \in [Tasks -> Jobs]
    BY DEF Provision, Shape, JobsInv
  <2>9. \A i \in Running, w \in Vmids : Cloning(i, w) => w # v
    BY <2>1 DEF Shape, CloneInv
  <2>10. \A u \in Tasks \ {t} : job'[u] = job[u]
    BY <2>3, <2>8
  <2>11. job'[t] = k
    BY <2>3, <2>8
  <2>12. CloneInv'
    <3>1. \A i \in stray \cup {job[u] : u \in Tasks \ {t}}, w \in Vmids :
            Cloning(i, w) => w # v /\ guest'[w] = guest[w] /\ guest'[w] # NoGuest /\ guest'[w].building
      BY <2>5, <2>9 DEF Running, Shape, CloneInv, Exists
    <3>2. (\A i \in Running, w \in Vmids : Cloning(i, w) => Exists(w) /\ guest[w].building)'
      BY <2>2, <2>4, <2>5, <2>8, <2>10, <2>11, <3>1 DEF Running, Cloning, Exists, Vmids
    <3>3. \A u, x \in Tasks, w \in Vmids : Cloning(job'[u], w) /\ Cloning(job'[x], w) => u = x
      BY <2>2, <2>10, <2>11, <3>1 DEF Shape, CloneInv, Cloning
    <3>4. \A u \in Tasks, i \in stray, w \in Vmids : ~(Cloning(job'[u], w) /\ Cloning(i, w))
      BY <2>2, <2>10, <2>11, <3>1 DEF Shape, CloneInv, Cloning
    <3> QED BY <2>8, <3>2, <3>3, <3>4 DEF Shape, CloneInv, Cloning, Vmids
  <2> QED BY <2>6, <2>7, <2>12 DEF Shape
<1> QED BY <1>3, <1>4 DEF Provision, Refuse

LEMMA CloneShape ==
  ASSUME Assumed, Shape, NEW t \in Tasks, Clone(t) PROVE Shape'
<1> DEFINE v == job[t].target
           k == [job[t] EXCEPT !.phase = "writeback"]
<1>1. /\ job[t] \in Jobs /\ WellFormed(job[t]) /\ job[t].phase = "clone" /\ v \in Vmids
      /\ job \in [Tasks -> Jobs]
  BY DEF Clone, Shape, JobsInv, WellFormed, Phases, Threaded
<1>2. Cloning(job[t], v) /\ Exists(v)
  BY <1>1 DEF Cloning, Running, Shape, CloneInv
<1>3. /\ guest' \in [Vmids -> Guests \cup {NoGuest}]
      /\ \A w \in Vmids \ {v} : guest'[w] = guest[w]
      /\ faults' \in 0..MaxFaults
  BY <1>1, <1>2, CloneEndsKeeps DEF Clone, Shape
<1>4. k \in Jobs /\ WellFormed(k) /\ k.phase = "writeback"
  BY <1>1 DEF Jobs, WellFormed, Planned, Phases, Threaded
<1>5. PICK n \in {k, Idle} : job' = [job EXCEPT ![t] = n]
  BY <1>1 DEF Clone, Goto, End
<1> HIDE DEF k
<1>6. n \in Jobs /\ WellFormed(n) /\ n.phase # "clone"
  BY <1>4, <1>5, IdleIsJob
<1>7. StoresInv'
  BY <1>3 DEF Clone, Shape, StoresInv, Vmids, Payloads, Records, Guests, Events, Power
<1>8. JobsInv' /\ stray' = stray
  BY <1>5, <1>6, JobMoves DEF Clone, Shape
<1>9. CloneInv'
  <2>1. \A u \in Tasks, w \in Vmids : Cloning(job'[u], w) => u # t /\ job'[u] = job[u] /\ w # v
    BY <1>1, <1>2, <1>5, <1>6 DEF Shape, CloneInv, Cloning
  <2>2. \A i \in stray, w \in Vmids : Cloning(i, w) => w # v
    BY <1>2 DEF Shape, CloneInv, Cloning
  <2>3. (\A i \in Running, w \in Vmids : Cloning(i, w) => Exists(w) /\ guest[w].building)'
    BY <1>3, <1>8, <2>1, <2>2 DEF Shape, CloneInv, Running, Exists, Vmids, Cloning
  <2> QED BY <1>8, <2>1, <2>3 DEF Shape, CloneInv, Cloning, Vmids
<1> QED BY <1>7, <1>8, <1>9 DEF Shape

LEMMA CloneOutlastsShape ==
  ASSUME Assumed, Shape, NEW t \in Tasks, CloneOutlasts(t) PROVE Shape'
<1>1. faults' \in 0..MaxFaults
  BY DEF CloneOutlasts, Fails, Shape, StoresInv, Assumed, SizesAssumption
<1> QED BY <1>1, IdleIsJob, JobOnly DEF CloneOutlasts, End

-----------------------------------------------------------------------------
(* Time and crashes. *)

LEMMA ExpireShape ==
  ASSUME Assumed, Shape, NEW v \in Vmids, Expire(v) PROVE Shape'
<1>1. recent' \in [Vmids -> BOOLEAN]
  BY DEF Expire, Shape, StoresInv
<1>2. StoresInv'
  BY <1>1 DEF Expire, Shape, StoresInv, env, Vmids, Payloads, Records, Guests, Events, Power
<1>3. JobsInv'
  BY DEF Expire, Shape, JobsInv, WellFormed
<1>4. CloneInv'
  BY ClonesStay DEF Expire, Shape
<1> QED BY <1>2, <1>3, <1>4 DEF Shape

LEMMA AbandonedShape ==
  ASSUME Assumed, Shape, NEW v \in Vmids, AbandonedEnds(v) PROVE Shape'
<1>1. guest[v] \in Guests /\ \A j \in Running, w \in Vmids : Cloning(j, w) => w # v
  BY DEF AbandonedEnds, Abandoned, Exists, Shape, StoresInv, Running, Cloning
<1>2. Copies(v) \subseteq Guests
  BY <1>1, CopiesAreGuests
<1>3. /\ guest' \in [Vmids -> Guests \cup {NoGuest}]
      /\ \A w \in Vmids \ {v} : guest'[w] = guest[w]
  BY <1>2 DEF AbandonedEnds, Shape, StoresInv
<1>4. StoresInv'
  BY <1>3 DEF AbandonedEnds, Shape, StoresInv, env, Vmids, Payloads, Records, Guests, Events, Power
<1>5. JobsInv'
  BY DEF AbandonedEnds, Shape, JobsInv, WellFormed
<1>6. CloneInv'
  BY <1>1, <1>3 DEF AbandonedEnds, Shape, CloneInv, Cloning, Running, Exists, Vmids
<1> QED BY <1>4, <1>5, <1>6 DEF Shape

LEMMA RestartShape ==
  ASSUME Assumed, Shape, Restart PROVE Shape'
<1>1. faults' \in 0..MaxFaults
  BY DEF Restart, Fails, Shape, StoresInv, Assumed, SizesAssumption
<1>2. StoresInv'
  BY <1>1 DEF Restart, Shape, StoresInv, Vmids, Payloads, Records, Guests, Events, Power
<1>3. JobsInv'
  BY IdleIsJob DEF Restart, JobsInv
<1>4. CloneInv'
  BY IdleIsJob DEF Restart, CloneInv, Cloning, Running
<1> QED BY <1>2, <1>3, <1>4 DEF Shape

LEMMA SweepTimesOutShape ==
  ASSUME Assumed, Shape, SweepTimesOut PROVE Shape'
<1> DEFINE j == job[Sweeper]
<1>1. Sweeper \in Tasks /\ j \in Jobs /\ WellFormed(j) /\ job \in [Tasks -> Jobs]
  BY DEF Tasks, Shape, JobsInv
<1>2. faults' \in 0..MaxFaults
  BY DEF SweepTimesOut, Fails, Shape, StoresInv, Assumed, SizesAssumption
<1>3. StoresInv'
  BY <1>2 DEF SweepTimesOut, Shape, StoresInv, Vmids, Payloads, Records, Guests, Events, Power
<1>4. job' = [job EXCEPT ![Sweeper] = Idle]
  BY DEF SweepTimesOut, End
<1>5. \A i \in stray' : i \in stray \/ (i = j /\ j.phase \in Threaded)
  BY DEF SweepTimesOut
<1>6. JobsInv'
  BY <1>1, <1>4, <1>5, IdleIsJob DEF Shape, JobsInv, WellFormed, Vmids, Jobs
<1>7. CloneInv'
  <2>1. \A u \in Tasks, w \in Vmids : Cloning(job'[u], w) => u # Sweeper /\ job'[u] = job[u]
    BY <1>1, <1>4, IdleIsJob DEF Cloning
  <2>2. \A i \in Running', w \in Vmids : Cloning(i, w) => i \in Running
    BY <1>1, <1>5, <2>1 DEF Running
  <2>3. guest' = guest
    BY DEF SweepTimesOut
  <2>4. (\A i \in Running, w \in Vmids : Cloning(i, w) => Exists(w) /\ guest[w].building)'
    BY <2>2, <2>3 DEF Shape, CloneInv, Exists, Cloning, Vmids
  <2>5. \A u, x \in Tasks, w \in Vmids : Cloning(job'[u], w) /\ Cloning(job'[x], w) => u = x
    BY <2>1 DEF Shape, CloneInv
  <2>6. \A u \in Tasks, i \in stray', w \in Vmids : ~(Cloning(job'[u], w) /\ Cloning(i, w))
    BY <1>1, <1>5, <2>1 DEF Shape, CloneInv
  <2>7. \A i, h \in stray', w \in Vmids : Cloning(i, w) /\ Cloning(h, w) => i = h
    BY <1>1, <1>5 DEF Shape, CloneInv
  <2> QED BY <2>4, <2>5, <2>6, <2>7 DEF CloneInv, Cloning, Vmids
<1> QED BY <1>3, <1>6, <1>7 DEF Shape

LEMMA StrayEndsShape ==
  ASSUME Assumed, Shape, NEW j \in stray, StrayEnds(j) PROVE Shape'
<1>1. /\ j \in Jobs /\ j.phase \in Threaded /\ j.target \in Vmids
      /\ j.phase # "purge" => j.decl \in Records
      /\ j.phase = "power" => j.power \in {"start", "stop"}
  BY DEF Shape, JobsInv, WellFormed, Planned, Phases, Threaded
<1>2. /\ stray' = stray \ {j}
      /\ UNCHANGED <<record, pending, job, todo, recent, edits>>
  BY DEF StrayEnds
<1>3. /\ guest' \in [Vmids -> Guests \cup {NoGuest}] /\ faults' \in 0..MaxFaults
      /\ \A w \in Vmids : Exists(w) /\ guest[w].building /\ ~Cloning(j, w) => guest'[w] = guest[w]
  <2>1. CASE j.phase = "purge"
    BY <1>1, <2>1, DeleteKeeps DEF StrayEnds, Shape
  <2>2. CASE j.phase = "clone"
    <3>1. Cloning(j, j.target) /\ Exists(j.target)
      BY <1>1, <2>2 DEF Cloning, Running, Shape, CloneInv
    <3>2. CloneSucceeds(j.target) \/ CloneBreaks(j.target)
      BY <2>2 DEF StrayEnds
    <3> QED BY <1>1, <3>1, <3>2, CloneEndsKeeps DEF Shape, Cloning
  <2>3. CASE j.phase = "power"
    <3>1. Drive(j.power, j.decl, j.target)
      BY <2>3 DEF StrayEnds
    <3> QED BY <1>1, <2>3, <3>1, DriveKeeps DEF Shape, Ops
  <2>4. CASE j.phase \in {"quarantine", "config"}
    <3>1. Drive(j.phase, j.decl, j.target)
      BY <2>4 DEF StrayEnds
    <3> QED BY <1>1, <2>4, <3>1, DriveKeeps DEF Shape, Ops
  <2> QED BY <1>1, <2>1, <2>2, <2>3, <2>4 DEF Threaded
<1>4. StoresInv'
  BY <1>2, <1>3 DEF Shape, StoresInv, Vmids, Payloads, Records, Guests, Events, Power
<1>5. JobsInv'
  BY <1>2 DEF Shape, JobsInv, WellFormed, Vmids, Jobs
<1>6. CloneInv'
  <2>1. \A i \in Running', w \in Vmids : Cloning(i, w) => i \in Running /\ ~Cloning(j, w)
    BY <1>2 DEF Running, Shape, CloneInv
  <2>2. (\A i \in Running, w \in Vmids : Cloning(i, w) => Exists(w) /\ guest[w].building)'
    BY <1>3, <2>1 DEF Shape, CloneInv, Exists, Cloning, Vmids
  <2> QED BY <1>2, <2>2 DEF Shape, CloneInv, Cloning, Vmids
<1> QED BY <1>4, <1>5, <1>6 DEF Shape

-----------------------------------------------------------------------------
(* Every step. *)

LEMMA NextShape ==
  ASSUME Assumed, Shape, [Next]_vars PROVE Shape'
<1>1. CASE People
  BY <1>1, PeopleShape
<1>2. ASSUME NEW t \in Hooks, Deliver(t) PROVE Shape'
  BY <1>2, DeliverShape
<1>3. CASE SweepStarts \/ SweepNext
  BY <1>3, SweepStartsShape, SweepNextShape
<1>4. ASSUME NEW t \in Tasks, FetchDeclared(t) PROVE Shape'
  BY <1>4, FetchShape
<1>5. ASSUME NEW t \in Tasks, Work(t) PROVE Shape'
  BY <1>5, DecideShape, PurgeShape, QuarantineShape, TagShape, AdoptShape, ProvisionShape,
     CloneShape, WritebackShape, PowerSyncShape, ConfigSyncShape DEF Work
<1>6. ASSUME NEW v \in Vmids, Expire(v) \/ AbandonedEnds(v) PROVE Shape'
  BY <1>6, ExpireShape, AbandonedShape
<1>7. ASSUME NEW j \in stray, StrayEnds(j) PROVE Shape'
  BY <1>7, StrayEndsShape
<1>8. CASE Interruption
  BY <1>8, SweepTimesOutShape, RestartShape, CloneOutlastsShape DEF Interruption
<1>9. CASE UNCHANGED vars
  BY <1>9 DEF vars, Shape, StoresInv, JobsInv, CloneInv, WellFormed, Cloning, Running, Exists,
              Vmids, Payloads, Records, Guests, Events, Power, Jobs
<1> QED BY <1>1, <1>2, <1>3, <1>4, <1>5, <1>6, <1>7, <1>8, <1>9 DEF Next

LEMMA ShapeAlways == Spec => []Shape
<1>0. Assumed
  BY FlagsAssumption, SizesAssumption, NamesAssumption DEF Assumed
<1>1. Init => Shape
  BY <1>0, InitShape
<1>2. Shape /\ [Next]_vars => Shape'
  BY <1>0, NextShape
<1> QED BY <1>1, <1>2, PTL DEF Spec

\* TypeOK holds of every behaviour: in particular, whatever the interleaving,
\* every job past its decision has a guest to act on.
THEOREM TypeCorrect == Spec => []TypeOK
<1>1. Shape => TypeOK
  BY DEF Shape, StoresInv, JobsInv, WellFormed, TypeOK
<1> QED BY <1>1, ShapeAlways, PTL

\* A guest that is being built has one owner at most, from the POST that
\* registers its VMID to the end of the clone: allocation never gives the VMID
\* of a running clone to a second job, and a timed-out sweep hands its clone on
\* to the thread it leaves behind.
THEOREM ClonesOwned == Spec => []CloneInv
<1>1. Shape => CloneInv
  BY DEF Shape
<1> QED BY <1>1, ShapeAlways, PTL

-----------------------------------------------------------------------------
(* Purges. *)

\* NetBox says "deleted" only of a record it no longer has, and the engine never
\* makes up a deletion.  Where no workload bears the name a job makes up, only a
\* webhook that says so makes a job purge.
DeletedInv ==
  /\ \A e \in pending : e.event = "deleted" => record[e.rec] = NoRecord
  /\ \A e \in todo : e.event # "deleted"
  /\ \A j \in Running : j.event = "deleted" => j.rec \in Recs /\ record[j.rec] = NoRecord
  /\ DefaultNamed = {} => \A j \in Running : j.phase = "purge" => j.event = "deleted"

\* A record that is gone stays gone.
LEMMA GoneStaysGone ==
  ASSUME Assumed, Shape, [Next]_vars, NEW r \in Recs, record[r] = NoRecord
  PROVE  record'[r] = NoRecord
<1>1. CASE record' = record
  BY <1>1
<1>2. ASSUME NEW q \in Recs, Edit(q) PROVE record'[r] = NoRecord
  BY <1>2 DEF Edit, Shape, StoresInv
<1>3. ASSUME NEW q \in Recs, Delete(q) PROVE record'[r] = NoRecord
  BY <1>3 DEF Delete, Shape, StoresInv
<1>4. ASSUME NEW q \in Recs, NEW d, WriteRecord(q, d) PROVE record'[r] = NoRecord
  BY <1>4 DEF WriteRecord, Shape, StoresInv
<1>5. ASSUME NEW t \in Tasks, Tag(t) \/ Adopt(t) \/ Writeback(t) PROVE record'[r] = NoRecord
  <2>1. job[t].rec \in Recs
    BY <1>5 DEF Tag, Adopt, Writeback, Shape, JobsInv, WellFormed
  <2> QED BY <1>4, <1>5, <2>1 DEF Tag, Adopt, Writeback
<1>6. ASSUME NEW t \in Tasks,
             Decide(t) \/ Purge(t) \/ Quarantine(t) \/ Provision(t) \/ Clone(t) \/ PowerSync(t)
               \/ ConfigSync(t) \/ FetchDeclared(t) \/ CloneOutlasts(t)
      PROVE  record' = record
  BY <1>6 DEF Decide, Purge, Quarantine, Provision, Clone, PowerSync, ConfigSync, FetchDeclared,
              CloneOutlasts
<1>7. ASSUME NEW q \in Recs, Ask(q) PROVE record' = record
  BY <1>7 DEF Ask
<1>8. ASSUME NEW v \in Vmids, Drift(v) \/ OutsideDelete(v) \/ Expire(v) \/ AbandonedEnds(v)
      PROVE  record' = record
  BY <1>8 DEF Drift, OutsideDelete, Expire, AbandonedEnds
<1>9. ASSUME NEW t \in Hooks, Deliver(t) PROVE record' = record
  BY <1>9 DEF Deliver
<1>10. ASSUME NEW j \in stray, StrayEnds(j) PROVE record' = record
  BY <1>10 DEF StrayEnds
<1>11. CASE SweepStarts \/ SweepNext \/ SweepTimesOut \/ Restart \/ UNCHANGED vars
  BY <1>11 DEF SweepStarts, SweepNext, SweepTimesOut, Restart, vars
<1> QED BY <1>1, <1>2, <1>3, <1>5, <1>6, <1>7, <1>8, <1>9, <1>10, <1>11
        DEF Next, People, Work, Interruption

\* Where a job, or a thread, may come from in one step.
Comes(i) ==
  \/ i \in Running
  \/ i.event # "deleted" /\ i.phase # "purge"
  \/ \E j \in Running : /\ i.rec = j.rec /\ i.event = j.event
                         /\ (DefaultNamed = {} /\ i.phase = "purge" => i.event = "deleted")
  \/ \E e \in pending : i.rec = e.rec /\ i.event = e.event /\ i.phase = "lock"

LEMMA DeletedKept ==
  ASSUME Assumed, Shape, DeletedInv, [Next]_vars,
         \A e \in pending' : e \in pending \/ e.event # "deleted" \/ record'[e.rec] = NoRecord,
         \A e \in todo' : e.event # "deleted",
         \A i \in Running' : Comes(i)
  PROVE  DeletedInv'
<1>1. \A r \in Recs : record[r] = NoRecord => record'[r] = NoRecord
  BY GoneStaysGone
<1>2. \A e \in pending : e.rec \in Recs
  BY DEF Shape, StoresInv, Payloads
<1>3. \A e \in pending' : e.event = "deleted" => record'[e.rec] = NoRecord
  BY <1>1, <1>2 DEF DeletedInv
<1>4. \A i \in Running' : i.event = "deleted" => i.rec \in Recs /\ record'[i.rec] = NoRecord
  BY <1>1, <1>2 DEF DeletedInv, Comes
<1>5. DefaultNamed = {} => \A i \in Running' : i.phase = "purge" => i.event = "deleted"
  BY DEF DeletedInv, Comes
<1> QED BY <1>3, <1>4, <1>5 DEF DeletedInv

\* Only t's job changes, and becomes k.
LEMMA OneComes ==
  ASSUME Shape, NEW t \in Tasks, NEW k, Comes(k),
         job' = [job EXCEPT ![t] = k], stray' = stray
  PROVE  \A i \in Running' : Comes(i)
BY DEF Running, Comes, Shape, JobsInv

LEMMA IdleComes == Comes(Idle)
BY DEF Comes, Idle

LEMMA PeopleDeleted ==
  ASSUME Assumed, Shape, DeletedInv, People PROVE DeletedInv'
<1>1. job' = job /\ stray' = stray /\ todo' = todo
  BY DEF People, Edit, Delete, Ask, Drift, OutsideDelete
<1>2. \A e \in pending' : e \in pending \/ e.event # "deleted" \/ record'[e.rec] = NoRecord
  <2>1. ASSUME NEW r \in Recs, Edit(r)
        PROVE  \A e \in pending' : e \in pending \/ e.event # "deleted"
    BY <2>1 DEF Edit, Echo, Notify, Updated
  <2>2. ASSUME NEW r \in Recs, Delete(r)
        PROVE  \A e \in pending' : e \in pending \/ record'[e.rec] = NoRecord
    BY <2>2 DEF Delete, Notify, Shape, StoresInv
  <2>3. ASSUME NEW r \in Recs, Ask(r)
        PROVE  \A e \in pending' : e \in pending \/ e.event # "deleted"
    BY <2>3 DEF Ask
  <2>4. ASSUME NEW v \in Vmids, Drift(v) \/ OutsideDelete(v) PROVE pending' = pending
    BY <2>4 DEF Drift, OutsideDelete
  <2> QED BY <2>1, <2>2, <2>3, <2>4 DEF People
<1> QED BY <1>1, <1>2, DeletedKept DEF Next, Running, Comes, DeletedInv

LEMMA BeginDeleted ==
  ASSUME Assumed, Shape, DeletedInv, [Next]_vars, NEW t \in Tasks, NEW e, Begin(t, e),
         e \in pending \/ e.event # "deleted",
         stray' = stray, pending' \subseteq pending, todo' \subseteq todo
  PROVE  DeletedInv'
<1> DEFINE k == [Idle EXCEPT !.phase = "lock", !.rec = e.rec, !.event = e.event, !.hint = e.hint]
<1>1. k.phase = "lock" /\ k.rec = e.rec /\ k.event = e.event
  BY DEF Idle
<1>2. job' = [job EXCEPT ![t] = k]
  BY DEF Begin
<1> HIDE DEF k
<1>3. Comes(k)
  BY <1>1 DEF Comes
<1> QED BY <1>2, <1>3, OneComes, DeletedKept DEF DeletedInv

\* A step of t's job that keeps its workload and its event, or ends it.
LEMMA StepDeleted ==
  ASSUME Assumed, Shape, DeletedInv, [Next]_vars, NEW t \in Tasks, NEW k,
         \/ k = Idle
         \/ /\ k.rec = job[t].rec /\ k.event = job[t].event
            /\ (DefaultNamed = {} /\ k.phase = "purge" => k.event = "deleted"),
         job' = [job EXCEPT ![t] = k],
         \A e \in pending' : e \in pending \/ e.event # "deleted",
         UNCHANGED <<todo, stray>>
  PROVE  DeletedInv'
<1>1. Comes(k)
  BY IdleComes DEF Comes, Running
<1> QED BY <1>1, OneComes, DeletedKept DEF DeletedInv

LEMMA DecideDeleted ==
  ASSUME Assumed, Shape, DeletedInv, [Next]_vars, NEW t \in Tasks, Decide(t)
  PROVE  DeletedInv'
<1>1. job[t] \in Jobs /\ job[t].rec \in Recs /\ UNCHANGED <<pending, todo, stray>>
  BY DEF Decide, Shape, JobsInv, WellFormed
<1>2. ASSUME NEW v, NEW g, Dispatch(t, v, g),
             \/ v \in Vmids /\ g \in Guests /\ (DefaultNamed = {} => job[t].decl # NoRecord)
             \/ v = NoVmid /\ g = NoGuest
      PROVE  DeletedInv'
  <2> DEFINE k == Plan(job[t], v, g)
  <2>1. CASE End(t)
    BY <1>1, <2>1, StepDeleted DEF End
  <2>2. CASE Action(job[t].decl, g, job[t].event) # "noop" /\ Proceed(t, k)
    <3>1. /\ (DefaultNamed = {} /\ k.phase = "purge" => job[t].event = "deleted")
          /\ k.event = job[t].event /\ k.rec = job[t].rec
      BY <1>1, <1>2, <2>2, PlanIsJob
    <3>2. job' = [job EXCEPT ![t] = IF k.phase = "idle" THEN Idle ELSE k]
      BY <2>2 DEF Proceed
    <3> HIDE DEF k
    <3> QED BY <1>1, <3>1, <3>2, StepDeleted
  <2> QED BY <1>2, <2>1, <2>2 DEF Dispatch
<1>3. CASE \E v \in Candidates(job[t].rec, job[t].decl) : Dispatch(t, v, guest[v])
  BY <1>2, <1>3, CandidateFacts
<1>4. CASE Dispatch(t, NoVmid, NoGuest)
  BY <1>2, <1>4
<1> QED BY <1>3, <1>4 DEF Decide

LEMMA WorkersDeleted ==
  ASSUME Assumed, Shape, DeletedInv, [Next]_vars, NEW t \in Tasks,
         \/ Purge(t) \/ Quarantine(t) \/ Tag(t) \/ Adopt(t) \/ Provision(t)
         \/ Clone(t) \/ Writeback(t) \/ PowerSync(t) \/ ConfigSync(t)
         \/ FetchDeclared(t) \/ CloneOutlasts(t)
  PROVE  DeletedInv'
<1>1. job[t] \in Jobs /\ job \in [Tasks -> Jobs]
  BY DEF Shape, JobsInv
<1>2. UNCHANGED <<todo, stray>>
  BY DEF Purge, Quarantine, Tag, Adopt, Provision, Clone, Writeback, PowerSync, ConfigSync,
         FetchDeclared, CloneOutlasts
<1>3. \A e \in pending' : e \in pending \/ e.event # "deleted"
  BY DEF Purge, Quarantine, Tag, Adopt, Provision, Clone, Writeback, PowerSync, ConfigSync,
         FetchDeclared, CloneOutlasts, Echo, Notify, Updated
<1>4. CASE Purge(t) \/ Tag(t) \/ Writeback(t) \/ ConfigSync(t) \/ CloneOutlasts(t)
  BY <1>2, <1>3, <1>4, StepDeleted DEF Purge, Tag, Writeback, ConfigSync, CloneOutlasts, End
<1>5. CASE Quarantine(t) \/ Clone(t)
  <2>1. \/ job' = [job EXCEPT ![t] = Idle]
        \/ \E ph \in {"tag", "writeback"} : job' = [job EXCEPT ![t] = [job[t] EXCEPT !.phase = ph]]
    BY <1>1, <1>5 DEF Quarantine, Clone, Goto, End
  <2>2. ASSUME NEW ph \in {"tag", "writeback"}
        PROVE  LET k == [job[t] EXCEPT !.phase = ph]
               IN  k.rec = job[t].rec /\ k.event = job[t].event /\ k.phase # "purge"
    BY <1>1 DEF Jobs
  <2> QED BY <1>2, <1>3, <2>1, <2>2, StepDeleted
<1>6. CASE Adopt(t)
  <2> DEFINE j == job[t]
             k == [j EXCEPT !.phase = Transitions(j.power, j.config), !.decl.vmid = j.target]
  <2>1. k.rec = j.rec /\ k.event = j.event /\ k.phase # "purge"
    BY <1>1 DEF Jobs, Transitions
  <2>2. job' = [job EXCEPT ![t] = IF k.phase = "idle" THEN Idle ELSE k]
    BY <1>6 DEF Adopt, Proceed
  <2> HIDE DEF k
  <2> QED BY <1>2, <1>3, <2>1, <2>2, StepDeleted
<1>7. CASE PowerSync(t)
  <2> DEFINE j == job[t]
             k == [j EXCEPT !.phase = Transitions("keep", j.config)]
  <2>1. k.rec = j.rec /\ k.event = j.event /\ k.phase # "purge"
    BY <1>1 DEF Jobs, Transitions
  <2>2. job' = [job EXCEPT ![t] = IF k.phase = "idle" THEN Idle ELSE k]
    BY <1>7 DEF PowerSync, Proceed
  <2> HIDE DEF k
  <2> QED BY <1>2, <1>3, <2>1, <2>2, StepDeleted
<1>8. CASE Provision(t)
  <2>1. CASE End(t)
    BY <1>2, <1>3, <2>1, StepDeleted DEF End
  <2>2. ASSUME NEW v \in Vmids, job' = [job EXCEPT ![t].phase = "clone", ![t].target = v]
        PROVE  DeletedInv'
    <3> DEFINE k == [job[t] EXCEPT !.phase = "clone", !.target = v]
    <3>1. k.rec = job[t].rec /\ k.event = job[t].event /\ k.phase # "purge"
      BY <1>1 DEF Jobs
    <3>2. job' = [job EXCEPT ![t] = k]
      BY <1>1, <2>2
    <3> HIDE DEF k
    <3> QED BY <1>2, <1>3, <3>1, <3>2, StepDeleted
  <2> QED BY <1>8, <2>1, <2>2 DEF Provision, Refuse, Allocatable
<1>9. CASE FetchDeclared(t)
  <2>1. PICK d : job' = [job EXCEPT ![t].phase = "inspect", ![t].decl = d]
    BY <1>9 DEF FetchDeclared
  <2> DEFINE k == [job[t] EXCEPT !.phase = "inspect", !.decl = d]
  <2>2. k.rec = job[t].rec /\ k.event = job[t].event /\ k.phase # "purge"
    BY <1>1 DEF Jobs
  <2>3. job' = [job EXCEPT ![t] = k]
    BY <1>1, <2>1
  <2> HIDE DEF k
  <2> QED BY <1>2, <1>3, <2>2, <2>3, StepDeleted
<1> QED BY <1>4, <1>5, <1>6, <1>7, <1>8, <1>9

LEMMA NextDeleted ==
  ASSUME Assumed, Shape, DeletedInv, [Next]_vars PROVE DeletedInv'
<1>1. CASE People
  BY <1>1, PeopleDeleted
<1>2. ASSUME NEW t \in Hooks, Deliver(t) PROVE DeletedInv'
  <2>1. PICK e \in pending : Begin(t, e) /\ pending' = pending \ {e}
    BY <1>2 DEF Deliver
  <2> QED BY <1>2, <2>1, BeginDeleted DEF Deliver, Tasks
<1>3. CASE SweepNext
  <2>1. PICK e \in todo : Begin(Sweeper, e) /\ todo' = todo \ {e}
    BY <1>3 DEF SweepNext
  <2>2. e.event # "deleted"
    BY DEF DeletedInv
  <2> QED BY <1>3, <2>1, <2>2, BeginDeleted DEF SweepNext, Tasks
<1>4. CASE SweepStarts
  <2>1. \A e \in todo' : e.event # "deleted"
    BY <1>4 DEF SweepStarts
  <2>2. Running' = Running /\ pending' = pending
    BY <1>4 DEF SweepStarts, Running
  <2> QED BY <2>1, <2>2, DeletedKept DEF Comes
<1>5. ASSUME NEW t \in Tasks, FetchDeclared(t) \/ Work(t) PROVE DeletedInv'
  BY <1>5, DecideDeleted, WorkersDeleted DEF Work
<1>6. ASSUME NEW v \in Vmids, Expire(v) \/ AbandonedEnds(v) PROVE DeletedInv'
  <2>1. Running' = Running /\ pending' = pending /\ todo' = todo
    BY <1>6 DEF Expire, AbandonedEnds, Running
  <2> QED BY <2>1, DeletedKept DEF Comes, DeletedInv
<1>7. ASSUME NEW j \in stray, StrayEnds(j) PROVE DeletedInv'
  <2>1. Running' \subseteq Running /\ pending' = pending /\ todo' = todo
    BY <1>7 DEF StrayEnds, Running
  <2> QED BY <2>1, DeletedKept DEF Comes, DeletedInv
<1>8. CASE SweepTimesOut
  <2>1. job' = [job EXCEPT ![Sweeper] = Idle] /\ pending' = pending /\ todo' = {}
    BY <1>8 DEF SweepTimesOut, End
  <2>2. stray' \subseteq stray \cup {job[Sweeper]} /\ Sweeper \in Tasks
    BY <1>8 DEF SweepTimesOut, Tasks
  <2>3. \A i \in Running' : i \in Running \/ i = Idle
    BY <2>1, <2>2 DEF Running, Shape, JobsInv
  <2>4. \A i \in Running' : Comes(i)
    BY <2>3, IdleComes DEF Comes
  <2> QED BY <2>1, <2>4, DeletedKept
<1>9. CASE Restart
  <2>1. pending' = pending /\ todo' = {} /\ \A i \in Running' : i = Idle
    BY <1>9 DEF Restart, Running
  <2>2. \A i \in Running' : Comes(i)
    BY <2>1, IdleComes
  <2> QED BY <2>1, <2>2, DeletedKept
<1>10. ASSUME NEW t \in Tasks, CloneOutlasts(t) PROVE DeletedInv'
  BY <1>10, WorkersDeleted
<1>11. CASE UNCHANGED vars
  BY <1>11 DEF vars, DeletedInv, Running
<1> QED BY <1>1, <1>2, <1>3, <1>4, <1>5, <1>6, <1>7, <1>8, <1>9, <1>10, <1>11
        DEF Next, Interruption

\* Whatever is edited, lost, read wrongly, interrupted or restarted, a guest is
\* purged only for a record that NetBox no longer has, as long as no workload
\* bears the name a job makes up for a record it could not read.
THEOREM PurgeSafe ==
  ASSUME DefaultNamed = {}
  PROVE  Spec => []PurgeOnlyDeleted
<1>0. Assumed
  BY FlagsAssumption, SizesAssumption, NamesAssumption DEF Assumed
<1>1. Init => DeletedInv
  BY IdleComes DEF Init, DeletedInv, Running, Idle
<1>2. Shape /\ DeletedInv /\ [Next]_vars => DeletedInv'
  BY <1>0, NextDeleted
<1>3. DeletedInv => PurgeOnlyDeleted
  BY DEF DeletedInv, PurgeOnlyDeleted
<1> QED BY <1>1, <1>2, <1>3, ShapeAlways, PTL DEF Spec
=============================================================================
