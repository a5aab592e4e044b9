----------------------------- MODULE Reconciler -----------------------------
(***************************************************************************)
(* The declared-state reconciliation engine: app/workers/reconciler.py,    *)
(* dispatcher.py, provisioning.py and lifecycle.py, between NetBox (the    *)
(* records) and Proxmox (the guests).  A job is one coroutine inside       *)
(* reconcile_workload, at the await its phase names; hooks are webhook and *)
(* API handlers, Sweeper is the one cluster pass that                      *)
(* _cluster_reconciliation_lock admits.                                    *)
(***************************************************************************)
EXTENDS WorkloadDelta

CONSTANTS
  Recs,            \* NetBox ids; a record's name is unique, so it stands for it
  DefaultNamed,    \* the records whose name happens to be "vm-<their id>"
  Hooks, Sweeper,  \* the coroutines
  NoRec,           \* an idle coroutine's record
  LastVmid,        \* Proxmox's ids are 1..LastVmid
  Statuses,        \* statuses an operator sets
  Specs, Disks,    \* cores and memory; disk sizes
  MaxEdits,        \* changes made by people, in NetBox and in Proxmox
  MaxFaults,       \* requests that fail, and interruptions
  Deletes,         \* may records be deleted?
  OutsideDeletes,  \* may guests be deleted behind the orchestrator's back?
  ReadFaults,      \* may NetBox and Proxmox fail to answer a read?
  Interrupts       \* may a sweep or a wait time out, may the process die?

Vmids    == 1..LastVmid
Tasks    == Hooks \cup {Sweeper}
Events   == {"none", "manual", "updated", "deleted"}
Threaded == {"purge", "quarantine", "power", "config", "clone"}
Phases   == {"idle", "lock", "inspect", "adopt", "provision", "tag", "writeback"} \cup Threaded

Power   == {"running", "stopped"}
Records == [name : Recs, status : Statuses \cup {"active", "decommissioning"}, tagged : BOOLEAN,
            vmid : Vmids \cup {NoVmid}, spec : Specs, disk : Disks]
Guests  == [name : Recs, power : Power, onboot : BOOLEAN, spec : Specs, disk : Disks,
            building : BOOLEAN]

ASSUME NamedAssumption == DefaultNamed \subseteq Recs
ASSUME FlagsAssumption ==
  {Deletes, OutsideDeletes, ReadFaults, Interrupts} \subseteq BOOLEAN
ASSUME SizesAssumption ==
  /\ LastVmid \in Nat /\ MaxEdits \in Nat /\ MaxFaults \in Nat
  /\ Disks \subseteq Nat \ {0}
ASSUME NamesAssumption ==
  /\ Sweeper \notin Hooks
  /\ NoRec \notin Recs /\ NoVmid \notin Nat
  /\ NoRecord \notin Records /\ NoGuest \notin Guests

VARIABLES
  record,   \* NetBox: the declared workloads
  guest,    \* Proxmox: the workloads that exist
  pending,  \* webhooks and API requests on their way, in no order
  job,      \* the coroutines
  todo,     \* what is left of the sweep's listing
  stray,    \* executor threads whose coroutine is gone
  recent,   \* _recently_decommissioned_vms, within its window
  edits, faults

env  == <<edits, faults>>
vars == <<record, guest, pending, job, todo, stray, recent, edits, faults>>

Idle == [phase |-> "idle", rec |-> NoRec, event |-> "none", hint |-> NoRecord,
         decl |-> NoRecord, target |-> NoVmid, power |-> "keep", config |-> FALSE]

\* The job holds its workload's asyncio.Lock.
Working(t) == job[t].phase \notin {"idle", "lock"}
Locked(r)  == \E t \in Tasks : Working(t) /\ job[t].rec = r

Exists(v) == guest[v] # NoGuest
Usable(v) == Exists(v) /\ ~guest[v].building  \* Proxmox locks a guest it builds

Init ==
  /\ \E s \in Statuses, c \in Specs, d \in Disks :
       record = [r \in Recs |-> [name |-> r, status |-> s, tagged |-> FALSE,
                                 vmid |-> NoVmid, spec |-> c, disk |-> d]]
  /\ guest = [v \in Vmids |-> NoGuest]
  /\ pending = {}
  /\ job = [t \in Tasks |-> Idle]
  /\ todo = {} /\ stray = {}
  /\ recent = [v \in Vmids |-> FALSE]
  /\ edits = 0 /\ faults = 0

Works == UNCHANGED faults
Fails == faults < MaxFaults /\ faults' = faults + 1

\* NetBox notifies of a change: the webhook arrives, late or never.
Notify(e) == pending' \in {pending, pending \cup {e}}
Updated(r) == [rec |-> r, event |-> "updated", hint |-> record'[r]]

\* The webhook of what has become of a record, if the dispatcher lets it pass.
Echo(r) ==
  IF record'[r] # record[r] /\ Passes(record[r], record'[r])
  THEN Notify(Updated(r)) ELSE UNCHANGED pending

-----------------------------------------------------------------------------
(* People *)

EditCounted == edits < MaxEdits /\ edits' = edits + 1

\* What an operator may link a record to: the workload's own guest.
Linkable(r) == {v \in Vmids : Usable(v) /\ guest[v].name = r}

\* An operator changes a record, its link along with the rest, or takes the
\* `decommissioned` tag off it.
Edit(r) ==
  /\ EditCounted
  /\ record[r] # NoRecord
  /\ \E s \in Statuses, c \in Specs, d \in Disks, tagged \in {record[r].tagged, FALSE},
        v \in {record[r].vmid} \cup Linkable(r) :
       record' = [record EXCEPT ![r] = [@ EXCEPT !.status = s, !.spec = c, !.disk = d,
                                                 !.tagged = tagged, !.vmid = v]]
  /\ record' # record
  /\ Echo(r)
  /\ UNCHANGED <<guest, job, todo, stray, recent, faults>>

Delete(r) ==
  /\ Deletes /\ EditCounted
  /\ record[r] # NoRecord
  /\ record' = [record EXCEPT ![r] = NoRecord]
  /\ Notify([rec |-> r, event |-> "deleted", hint |-> record[r]])
  /\ UNCHANGED <<guest, job, todo, stray, recent, faults>>

\* POST /sync/reconcile?vm_id=r: no payload comes with it.
Ask(r) ==
  /\ EditCounted
  /\ pending' = pending \cup {[rec |-> r, event |-> "manual", hint |-> NoRecord]}
  /\ UNCHANGED <<record, guest, job, todo, stray, recent, faults>>

\* Someone starts, stops or reconfigures the guest in Proxmox.
Drift(v) ==
  /\ EditCounted
  /\ Usable(v)
  /\ \E p \in Power, c \in Specs : guest' = [guest EXCEPT ![v] = [@ EXCEPT !.power = p, !.spec = c]]
  /\ guest' # guest
  /\ UNCHANGED <<record, pending, job, todo, stray, recent, faults>>

OutsideDelete(v) ==
  /\ OutsideDeletes /\ EditCounted
  /\ Usable(v)
  /\ guest' = [guest EXCEPT ![v] = NoGuest]
  /\ UNCHANGED <<record, pending, job, todo, stray, recent, faults>>

-----------------------------------------------------------------------------
(* How jobs begin *)

Begin(t, e) ==
  job' = [job EXCEPT ![t] = [Idle EXCEPT !.phase = "lock", !.rec = e.rec,
                                         !.event = e.event, !.hint = e.hint]]

\* process_netbox_webhook_event, or the API, calls reconcile_workload.
Deliver(t) ==
  /\ job[t].phase = "idle"
  /\ \E e \in pending : Begin(t, e) /\ pending' = pending \ {e}
  /\ UNCHANGED <<record, guest, todo, stray, recent, env>>

\* reconcile_cluster lists the records; each is the hint of its own pass.
SweepStarts ==
  /\ job[Sweeper].phase = "idle" /\ todo = {}
  /\ todo' = {[rec |-> r, event |-> "none", hint |-> record[r]] :
                r \in {q \in Recs : record[q] # NoRecord}}
  /\ UNCHANGED <<record, guest, pending, job, stray, recent, env>>

SweepNext ==
  /\ job[Sweeper].phase = "idle"
  /\ \E e \in todo : Begin(Sweeper, e) /\ todo' = todo \ {e}
  /\ UNCHANGED <<record, guest, pending, stray, recent, env>>

-----------------------------------------------------------------------------
(* reconcile_workload *)

End(t)      == job' = [job EXCEPT ![t] = Idle]
Goto(t, ph) == job' = [job EXCEPT ![t].phase = ph]

\* Mutant: no lock is taken.
FetchUnlocked(t) ==
  LET j == job[t]
      d == IF j.event # "deleted" /\ record[j.rec] # NoRecord THEN record[j.rec] ELSE j.hint
  IN  /\ j.phase = "lock" /\ Works
      /\ job' = [job EXCEPT ![t].phase = "inspect", ![t].decl = d]
      /\ UNCHANGED <<record, guest, pending, todo, stray, recent, edits>>

\* Mutant: a webhook's payload is trusted as it is.
FetchFromPayload(t) ==
  LET j == job[t]
      d == IF j.event = "manual" THEN record[j.rec] ELSE j.hint
  IN  /\ j.phase = "lock" /\ ~Locked(j.rec) /\ Works
      /\ job' = [job EXCEPT ![t].phase = "inspect", ![t].decl = d]
      /\ UNCHANGED <<record, guest, pending, todo, stray, recent, edits>>

\* The lock is taken and the record read.  Without an answer, and for a record
\* that is gone, the payload the job was given stands in.
FetchDeclared(t) ==
  LET j == job[t]
      asked == j.event # "deleted" /\ record[j.rec] # NoRecord
      read(d) == job' = [job EXCEPT ![t].phase = "inspect", ![t].decl = d]
  IN  /\ j.phase = "lock" /\ ~Locked(j.rec)
      /\ \/ asked /\ Works /\ read(record[j.rec])
         \/ asked /\ ReadFaults /\ Fails /\ read(j.hint)
         \/ ~asked /\ Works /\ read(j.hint)
      /\ UNCHANGED <<record, guest, pending, todo, stray, recent, edits>>

\* fetch_actual_state: by the record's VMID, or else by its name; a job without
\* a record looks for "vm-<id>".
Candidates(r, d) ==
  CASE d = NoRecord -> {v \in Vmids : Exists(v) /\ r \in DefaultNamed /\ guest[v].name = r}
    [] d # NoRecord ->
         {v \in Vmids : Exists(v) /\ IF d.vmid = NoVmid THEN guest[v].name = d.name ELSE v = d.vmid}

\* A guest being cloned gets its name only at the end of the clone.
Unnamed(r, d) ==
  /\ d # NoRecord => d.vmid = NoVmid
  /\ \A v \in Candidates(r, d) : guest[v].building

\* _apply_reconcile_transitions: power first, then the configuration.
Transitions(power, config) ==
  IF power # "keep" THEN "power" ELSE IF config THEN "config" ELSE "idle"

FirstPhase(a, power, config) ==
  CASE a = "purge" -> "purge"
    [] a = "decommission" -> "quarantine"
    [] a = "provision" -> "provision"
    [] a = "adopt" -> "adopt"
    [] a = "reconcile" -> Transitions(power, config)

\* The job goes on as j, or is over.
Proceed(t, j) == job' = [job EXCEPT ![t] = IF j.phase = "idle" THEN Idle ELSE j]

\* run_decommission_task's in-flight set: the guest is being retired already.
BeingRetired(v) == \E t \in Tasks : job[t].phase \in {"purge", "quarantine", "tag"} /\ job[t].target = v

\* Power and configuration matter to an existing guest only.
Plan(j, v, g) ==
  LET act == Action(j.decl, g, j.event)
      aligns == act \in {"adopt", "reconcile"}
      power == IF aligns THEN PowerChange(j.decl, g) ELSE "keep"
      config == aligns /\ NeedsConfig(j.decl, g)
  IN  [j EXCEPT !.phase = FirstPhase(act, power, config), !.target = v,
                !.power = power, !.config = config]

\* The verdict, and what keeps it from being carried out.
Dispatch(t, v, g) ==
  LET act == Action(job[t].decl, g, job[t].event)
  IN  \/ act = "noop" /\ End(t)
      \/ act = "decommission" /\ recent[v] /\ End(t)
      \/ act \in {"purge", "decommission"} /\ BeingRetired(v) /\ End(t)
      \/ /\ act # "noop" /\ ~(act = "decommission" /\ recent[v])
         /\ Proceed(t, Plan(job[t], v, g))

Decide(t) ==
  LET r == job[t].rec
      d == job[t].decl
      seen == Candidates(r, d)
  IN
  /\ job[t].phase = "inspect"
  /\ \/ \E v \in seen : Works /\ Dispatch(t, v, guest[v])
     \/ seen = {} /\ Works /\ Dispatch(t, NoVmid, NoGuest)
     \/ seen # {} /\ Unnamed(r, d) /\ Works /\ Dispatch(t, NoVmid, NoGuest)
     \/ seen # {} /\ ReadFaults /\ Fails /\ Dispatch(t, NoVmid, NoGuest)
  /\ UNCHANGED <<record, guest, pending, todo, stray, recent, edits>>

-----------------------------------------------------------------------------
(* The workers *)

\* A driver call on an existing guest: it succeeds, stops halfway, or is
\* refused while the guest is being built.
Drive(op, d, v) ==
  \/ Usable(v) /\ Works /\ guest' = [guest EXCEPT ![v] = Changed(op, d, @)]
  \/ /\ Usable(v) /\ Fails
     /\ \E g \in Interrupted(op, d, guest[v]) : guest' = [guest EXCEPT ![v] = g]
  \/ ~Usable(v) /\ Works /\ UNCHANGED guest

\* A write to the record: lost when NetBox fails, and when the record is gone.
WriteRecord(r, changed) ==
  \/ record[r] # NoRecord /\ Works /\ record' = [record EXCEPT ![r] = changed]
  \/ record[r] # NoRecord /\ Fails /\ UNCHANGED record
  \/ record[r] = NoRecord /\ Works /\ UNCHANGED record

\* run_decommission_task with permanent_purge; a guest already gone is fine.
\* The stop, the deletion or the clean-up in NetBox after it may raise.
DeleteGuest(v) ==
  \/ guest[v] = NoGuest /\ Works /\ UNCHANGED guest
  \/ Usable(v) /\ Works /\ guest' = [guest EXCEPT ![v] = NoGuest]
  \/ Usable(v) /\ Fails /\ guest' \in {guest, [guest EXCEPT ![v].power = "stopped"],
                                          [guest EXCEPT ![v] = NoGuest]}
  \/ Exists(v) /\ ~Usable(v) /\ Works /\ UNCHANGED guest

Purge(t) ==
  LET v == job[t].target IN
  /\ job[t].phase = "purge"
  /\ DeleteGuest(v)
  /\ recent' = [recent EXCEPT ![v] = @ \/ (guest'[v] = NoGuest /\ faults' = faults)]
  /\ End(t)
  /\ UNCHANGED <<record, pending, todo, stray, edits>>

\* quarantine_vm swallows its errors; the clean-up in NetBox that follows may
\* still raise and leave the record untagged.
Quarantine(t) ==
  /\ job[t].phase = "quarantine"
  /\ Drive("quarantine", job[t].decl, job[t].target)
  /\ Goto(t, "tag") \/ (faults' # faults /\ End(t))
  /\ UNCHANGED <<record, pending, todo, stray, recent, edits>>

Tag(t) ==
  LET r == job[t].rec IN
  /\ job[t].phase = "tag"
  /\ WriteRecord(r, [record[r] EXCEPT !.status = "decommissioning", !.tagged = TRUE])
  /\ Echo(r)
  /\ recent' = [recent EXCEPT ![job[t].target] = TRUE]
  /\ End(t)
  /\ UNCHANGED <<guest, todo, stray, edits>>

\* The record is linked; the dispatcher drops the webhook of that write.
Adopt(t) ==
  LET j == job[t] IN
  /\ j.phase = "adopt"
  /\ WriteRecord(j.rec, [record[j.rec] EXCEPT !.vmid = j.target])
  /\ Echo(j.rec)
  /\ Proceed(t, [j EXCEPT !.phase = Transitions(j.power, j.config), !.decl.vmid = j.target])
  /\ UNCHANGED <<guest, todo, stray, recent, edits>>

\* Mutant: an id is free as long as its guest is not complete.
AllocatableBuilding(d) ==
  IF d.vmid # NoVmid THEN {d.vmid} \cap {v \in Vmids : ~Usable(v)}
  ELSE {v \in Vmids : ~Usable(v) /\ \A w \in Vmids : w < v => Usable(w)}

\* The ids VmidAllocator may hand out: the record's own, or the lowest free.
Allocatable(d) ==
  IF d.vmid # NoVmid THEN {d.vmid} \cap {v \in Vmids : ~Exists(v)}
  ELSE {v \in Vmids : ~Exists(v) /\ \A w \in Vmids : w < v => Exists(w)}

Blank(d) == [name |-> d.name, power |-> "stopped", onboot |-> FALSE, spec |-> d.spec,
             disk |-> d.disk, building |-> TRUE]

\* Mutant: the id that was allocated is not kept.
ProvisionForgets(t) ==
  LET d == job[t].decl IN
  /\ job[t].phase = "provision"
  /\ \E v \in Allocatable(d) : guest' = [guest EXCEPT ![v] = Blank(d)]
  /\ Works
  /\ Goto(t, "clone")
  /\ UNCHANGED <<record, pending, todo, stray, recent, edits>>

\* validate_vm_creation_blueprint misses the node, a template, the storage, the
\* bridge, the subnet or a credential; or the allocation fails.
Refuse(t) == Fails /\ End(t) /\ UNCHANGED guest

\* Validation, allocation and the POST that registers the id, which Proxmox
\* refuses when it is taken.
Provision(t) ==
  LET d == job[t].decl IN
  /\ job[t].phase = "provision"
  /\ \/ Refuse(t)
     \/ \E v \in Allocatable(d) :
          /\ guest' = [guest EXCEPT ![v] = Blank(d)]
          /\ job' = [job EXCEPT ![t].phase = "clone", ![t].target = v]
          /\ Works
     \/ Allocatable(d) = {} /\ Works /\ End(t) /\ UNCHANGED guest
  /\ UNCHANGED <<record, pending, todo, stray, recent, edits>>

\* The guests a clone may leave with the sizes of its template.
Copies(v) ==
  {[guest[v] EXCEPT !.building = FALSE, !.spec = s[1], !.disk = s[2]] : s \in Specs \X Disks}

\* The guest is configured and started, on boot too if the record asks for it.
\* Failures to set the hardware or to resize the disk are swallowed.
CloneSucceeds(v) ==
  \E b \in BOOLEAN :
    LET done(g) == [g EXCEPT !.power = "running", !.onboot = b, !.building = FALSE]
    IN  \/ Works /\ guest' = [guest EXCEPT ![v] = done(@)]
        \/ Fails /\ \E g \in Copies(v) : guest' = [guest EXCEPT ![v] = done(g)]

\* The clone, its configuration or the start fails: the guest is gone, or left
\* as far as it came.
CloneBreaks(v) ==
  /\ Fails
  /\ \E g \in Copies(v) \cup {NoGuest} : guest' = [guest EXCEPT ![v] = g]

Clone(t) ==
  /\ job[t].phase = "clone"
  /\ \/ CloneSucceeds(job[t].target) /\ Goto(t, "writeback")
     \/ CloneBreaks(job[t].target) /\ End(t)
  /\ UNCHANGED <<record, pending, todo, stray, recent, edits>>

\* The wait for the clone times out while Proxmox is still cloning.
CloneOutlasts(t) ==
  /\ Interrupts /\ Fails
  /\ job[t].phase = "clone"
  /\ End(t)
  /\ UNCHANGED <<record, guest, pending, todo, stray, recent, edits>>

\* The provisioning task links the record and declares it active, whatever it
\* says by now; the webhook of that write passes only if it was linked already.
Writeback(t) ==
  LET j == job[t] IN
  /\ j.phase = "writeback"
  /\ WriteRecord(j.rec, [record[j.rec] EXCEPT !.status = "active", !.vmid = j.target])
  /\ Echo(j.rec)
  /\ End(t)
  /\ UNCHANGED <<guest, todo, stray, recent, edits>>

\* run_power_sync_task swallows every error, and steps aside for another one
\* on the same guest; the configuration comes next in any case.
PowerSync(t) ==
  LET j == job[t] IN
  /\ j.phase = "power"
  /\ \/ Drive(j.power, j.decl, j.target)
     \/ /\ \E u \in Tasks \ {t} : job[u].phase = "power" /\ job[u].target = j.target
        /\ Works /\ UNCHANGED guest
  /\ IF guest' # guest /\ record[j.rec] # NoRecord
     THEN Notify([rec |-> j.rec, event |-> "updated", hint |-> record[j.rec]])
     ELSE UNCHANGED pending
  /\ Proceed(t, [j EXCEPT !.phase = Transitions("keep", j.config)])
  /\ UNCHANGED <<record, todo, stray, recent, edits>>

ConfigSync(t) ==
  /\ job[t].phase = "config"
  /\ Drive("config", job[t].decl, job[t].target)
  /\ End(t)
  /\ UNCHANGED <<record, pending, todo, stray, recent, edits>>

-----------------------------------------------------------------------------
(* Time and crashes *)

\* is_recently_decommissioned: the window of two minutes closes.
Expire(v) ==
  /\ recent[v]
  /\ recent' = [recent EXCEPT ![v] = FALSE]
  /\ UNCHANGED <<record, guest, pending, job, todo, stray, env>>

\* asyncio.wait_for cancels the sweep after 300 s: the coroutine is gone and
\* its lock with it, but not the thread it was waiting for.
SweepTimesOut ==
  LET j == job[Sweeper] IN
  /\ Interrupts /\ Fails
  /\ j.phase # "idle"
  /\ End(Sweeper)
  /\ todo' = {}
  /\ stray' = stray \cup {i \in {j} : i.phase \in Threaded}
  /\ UNCHANGED <<record, guest, pending, recent, edits>>

StrayEnds(j) ==
  /\ CASE j.phase = "purge" -> DeleteGuest(j.target)
       [] j.phase = "clone" -> CloneSucceeds(j.target) \/ CloneBreaks(j.target)
       [] j.phase = "power" -> Drive(j.power, j.decl, j.target)
       [] j.phase \in {"quarantine", "config"} -> Drive(j.phase, j.decl, j.target)
  /\ stray' = stray \ {j}
  /\ UNCHANGED <<record, pending, job, todo, recent, edits>>

\* The process dies: coroutines, threads and in-memory state are gone.
Restart ==
  /\ Interrupts /\ Fails
  /\ job' = [t \in Tasks |-> Idle]
  /\ todo' = {} /\ stray' = {}
  /\ recent' = [v \in Vmids |-> FALSE]
  /\ UNCHANGED <<record, guest, pending, edits>>

\* Proxmox finishes a clone nobody waits for any longer, well or badly.
Abandoned(v) ==
  /\ Exists(v) /\ guest[v].building
  /\ \A j \in stray \cup {job[t] : t \in Tasks} : ~(j.phase = "clone" /\ j.target = v)

AbandonedEnds(v) ==
  /\ Abandoned(v)
  /\ \E g \in Copies(v) \cup {NoGuest} : guest' = [guest EXCEPT ![v] = g]
  /\ UNCHANGED <<record, pending, job, todo, stray, recent, env>>

-----------------------------------------------------------------------------

People ==
  \/ \E r \in Recs : Edit(r) \/ Delete(r) \/ Ask(r)
  \/ \E v \in Vmids : Drift(v) \/ OutsideDelete(v)

Work(t) ==
  \/ Decide(t) \/ Purge(t) \/ Quarantine(t) \/ Tag(t) \/ Adopt(t) \/ Provision(t)
  \/ Clone(t) \/ Writeback(t) \/ PowerSync(t) \/ ConfigSync(t)

Interruption == SweepTimesOut \/ Restart \/ \E t \in Tasks : CloneOutlasts(t)

Next ==
  \/ People
  \/ \E t \in Hooks : Deliver(t)
  \/ SweepStarts \/ SweepNext
  \/ \E t \in Tasks : FetchDeclared(t) \/ Work(t)
  \/ \E v \in Vmids : Expire(v) \/ AbandonedEnds(v)
  \/ \E j \in stray : StrayEnds(j)
  \/ Interruption

\* The event loop runs every coroutine that can move, requests time out, the
\* scheduler sweeps again, time passes.  asyncio.Lock is first come, first
\* served, so a job that waits for it while it is released again and again
\* gets it: strong fairness.  Nobody has to edit, and nothing has to fail.
Fairness ==
  /\ \A t \in Tasks : SF_vars(FetchDeclared(t)) /\ WF_vars(Work(t))
  /\ \A t \in Hooks : WF_vars(Deliver(t))
  /\ WF_vars(SweepStarts) /\ WF_vars(SweepNext)
  /\ \A v \in Vmids : WF_vars(Expire(v)) /\ WF_vars(AbandonedEnds(v))

Spec == Init /\ [][Next]_vars /\ Fairness

-----------------------------------------------------------------------------

Payloads == [rec : Recs, event : Events, hint : Records \cup {NoRecord}]
Jobs == [phase : Phases, rec : Recs \cup {NoRec}, event : Events,
         hint : Records \cup {NoRecord}, decl : Records \cup {NoRecord},
         target : Vmids \cup {NoVmid}, power : {"keep", "start", "stop"}, config : BOOLEAN]

\* Every variable has its type; a job past its decision has a guest to act on,
\* but for one that is to be provisioned.
TypeOK ==
  /\ record \in [Recs -> Records \cup {NoRecord}]
  /\ guest \in [Vmids -> Guests \cup {NoGuest}]
  /\ pending \subseteq Payloads /\ todo \subseteq Payloads
  /\ job \in [Tasks -> Jobs] /\ stray \subseteq Jobs
  /\ \A j \in stray \cup {job[t] : t \in Tasks} :
       j.phase \in Phases \ {"idle", "lock", "inspect", "provision"} => j.target \in Vmids
  /\ recent \in [Vmids -> BOOLEAN]
  /\ edits \in 0..MaxEdits /\ faults \in 0..MaxFaults

Running == stray \cup {job[t] : t \in Tasks}

\* A guest is purged only for a record that NetBox no longer has: not because
\* a read failed, not because a request came without a payload (reconciler.py,
\* "Case 1: Workload was deleted from NetBox").
PurgeOnlyDeleted ==
  \A j \in Running : j.phase = "purge" => record[j.rec] = NoRecord

\* One workload never has two guests: not after a clone that failed half-way, a lost
\* write-back, or with a webhook that races the sweep (reconcile_workload's lock).
\* Nothing is said of a clone that outlasts the wait for it.
NoDuplicateGuest ==
  \A v, w \in Vmids : Exists(v) /\ Exists(w) /\ guest[v].name = guest[w].name => v = w

\* A job acts on its own workload's guest only.
OwnGuestOnly ==
  \A j \in Running :
    j.target \in Vmids /\ Exists(j.target) => guest[j.target].name = j.rec

\* Nothing starts a guest whose record is tagged as quarantined, not even a
\* job that decided before the tag was set.
NoStartUnderQuarantine ==
  \A j \in Running :
    /\ j.phase \in {"power", "provision", "clone"}
    /\ record[j.rec] # NoRecord /\ record[j.rec].tagged
    => j.power = "stop"

\* What the engine would do about a record it has all the time to look at.
Settled(r) ==
  record[r] # NoRecord =>
    \/ Candidates(r, record[r]) = {} /\ Action(record[r], NoGuest, "none") = "noop"
    \/ \E v \in Candidates(r, record[r]) :
         Usable(v) /\ Action(record[r], guest[v], "none") = "noop"

\* Once people leave it alone every workload reaches its declared state and
\* stays there: drift is healed and lost webhooks, failed requests and aborted
\* clones are made up for (state_reconciler's periodic sweep).
Converges == <>[](\A r \in Recs : Settled(r))

\* A workload that NetBox no longer has, and that no job was at work on when it went,
\* is not built again (reconciler.py: NetBox is the source of truth).
DeletedStaysGone ==
  \A r \in Recs :
    [](record[r] = NoRecord /\ ~Locked(r) =>
         [](\A t \in Tasks : job[t].rec = r => job[t].phase # "provision"))

\* The orchestrator does not take back an operator's decision to retire a
\* workload: only people make a retiring record active.
RetirementStands ==
  [][\A r \in Recs :
       record[r] # NoRecord /\ record'[r] # NoRecord /\ edits' = edits
         => (Retiring(record[r]) => Retiring(record'[r]))]_vars
=============================================================================
