# A formal model of npu-orchestrator

npu-orchestrator keeps a Proxmox cluster in the state that NetBox declares. It
is one Python process: an asyncio event loop that serves HTTP, runs periodic
tasks and reconciles workloads, with the blocking Proxmox and NetBox calls on
executor threads. This directory holds TLA+ modules for the parts of it that
are hard to test, TLC configurations that check them on small instances, and
TLAPS proofs of the properties that matter most for every instance.

- `tlc -config X.cfg M` checks a module, `tlapm M_proofs.tla` its proofs.
- `PROJECT.json` lists the components, the runs, a mutant of the code for each
  checked property, the source lines behind every definition, the findings, the
  hazards and the theorems.

## 1. The system

| Component | State | Operations | What makes it correct |
|---|---|---|---|
| VMID allocation (`drivers/proxmox/client.py`, `GET /templates/nextid`) | `_reserved_vmids`, `_vmid_lock` | `get_next_vmid`, `release_vmid` | no two calls hold one id; every id is given back |
| Provisioning drivers (`qemu.py`, `windows.py`, `lxc.py`) | guests in Proxmox, the build task they wait for | clone or create, configure, start, `finally: release` | a reported success is a guest the call built itself |
| Reconciliation engine (`workers/reconciler.py`) | a lock per workload, the sweep's lock, the sets of ids in flight | `reconcile_workload`, `reconcile_cluster`, `compute_workload_delta` | declared state is reached; one guest per workload; nothing is destroyed or started by mistake |
| Webhook dispatcher (`workers/dispatcher.py`, `api/v1/webhooks.py`) | none of its own | filter, dispatch | a lost, late or reordered webhook does no harm |
| Lifecycle and provisioning tasks (`workers/lifecycle.py`, `provisioning.py`) | `_recently_decommissioned_vms`, tasks in flight | power, configuration, quarantine, purge, provisioning, and the write-back of each to NetBox | a failure half-way is made up for; an operator's decision stands |
| Job store and queue (`storage/db.py`, `workers/queue.py`, the lifespan of `main.py`) | one SQLite connection, one `asyncio.Lock` | create, update, append to the log, prune, recover at boot | no line lost; orphans marked durably; every row ends |
| Scheduler (`workers/scheduler.py`) | `PeriodicTask`s | run, time out, back off | a task comes again whatever the last one did |
| Traefik synchronisation (`drivers/traefik_sync.py`) | none between passes | discover, list, create or update, prune | NetBox's services become the routes; nobody else's are deleted |
| Template synchronisation (`drivers/template_sync.py`) | none between passes | discover, list, create or restore, delete or mark | the templates the schedule looks for become the platforms; a platform in use is only marked |
| Uptime Kuma synchronisation (`drivers/uptime_kuma.py`, `scripts/sync_kuma_*.py`) | a batch's dictionaries of monitors and groups | a devices' and a services' batch, each on a thread; links written back | what NetBox lists is monitored, in its group, and linked; nobody is linked to another's monitor |
| Telemetry (`drivers/metrics_sync.py`) | none between passes | observe guests, list machines, write usage, status and VMID | it does not hide a drift from the engine, nor link a record to another's guest |
| NetBox driver (`drivers/netbox.py`) | none | read and write records, addresses, DNS | an address is given once |
| Modules, preflight, configuration, security, schemas, notifier, API handlers, scripts | configuration | probes, parsing, messages | no protocol of their own |

**Interactions.** People change records in NetBox and guests in Proxmox. NetBox
sends a webhook for a record that changed; the dispatcher drops what it takes for
an echo and calls `reconcile_workload`, as do `POST /sync/reconcile` and, for
every record in turn, the periodic `reconcile_cluster`. A job takes its
workload's lock, reads the record, reads the guest, computes the delta and
awaits one of the tasks; the task runs a driver on a thread and writes the
outcome back to the record, which makes NetBox send another webhook. Every job
keeps a row in the job store, to which the driver's thread also appends. The
allocator is shared by every provisioning thread and by the HTTP API. The
synchronisation drivers have no lock and meet in NetBox: the telemetry writes
the status and the VMID of the very records the engine reads, and its webhooks go
through the same filter; the services that the Traefik passes make are what
Kuma's services' batch monitors; both of Kuma's batches change one set of
monitors.

**What is hard.** Every `await` is a point where other coroutines change what
was read before it. Driver threads outlive the coroutine that waits for them
(`wait_for` cancels a coroutine, never a thread: that holds for
Kuma's batches too), and Proxmox's build tasks
outlive both. Any request may fail, or may fail after it was carried out.
Webhooks come late, in any order, or not at all. A restart forgets locks,
reservations and in-flight sets, and leaves NetBox, Proxmox and the table on
disk. The `hazards` of `PROJECT.json` list these at the lines where they bite.

## 2. The modules

| Module | Models | Extends / instantiates |
|---|---|---|
| `VmidLease` | what the allocator promises: exclusive leases | |
| `VmidAllocator` | `ProxmoxClientManager`'s allocation and its use by the drivers | `INSTANCE VmidLease` |
| `WorkloadDelta` | `compute_workload_delta`, what driver calls make of a guest, the dispatcher's snapshot filter | |
| `Reconciler` | the engine between NetBox and Proxmox | `WorkloadDelta` |
| `Telemetry` | the telemetry pass beside the engine | `Reconciler` |
| `JobStore` | the job table, its callers, crash and recovery | |
| `TraefikSync` | `sync_instance` with overlapping callers | |
| `TemplateSync` | `sync_all_templates` with overlapping callers | |
| `KumaSync` | the two batches and the write-back of their links | |
| `MCReconciler`, `MCTraefikSync`, `MCTemplateSync`, `MCKumaSync` | symmetry and values for TLC | the module of the name |
| `VmidAllocator_proofs`, `Reconciler_proofs`, `JobStore_proofs`, `TraefikSync_proofs`, `TemplateSync_proofs`, `KumaSync_proofs` | theorems | the module of the name, TLAPS |
| `ReconcilerGuests_proofs` | theorems about the engine's locks, guests and quarantines | `Reconciler_proofs` |
| `Telemetry_proofs` | what of these survives the telemetry pass | `Telemetry`, `ReconcilerGuests_proofs` |

A definition whose comment begins with "Mutant:" is a plausible bug. It is no
part of any specification; it stands beside the definition it spoils so that a
checked property can be shown to notice it.

### VmidAllocator

A task is one call on a worker thread: a driver with an id to allocate
(`auto`), a driver given an id (`explicit`), or the endpoint that only asks
(`peek`). Its program counter stops wherever another thread can come between:
before and inside the mutex, at each Proxmox request, in the wait for the build,
and before the release of the `finally` clause. Proxmox is `owner` (who created
the guest with an id) and `upid` (the state of a call's build task), and goes on
by itself. A request that fails may have been carried out. `Restart` drops all
threads with mutex and reservations. Others may create and delete guests at any
moment; `gone` remembers the ids whose guest somebody else deleted, since no
driver could know. A lease (`VmidLease`) is held from the
reservation to the release.

### WorkloadDelta and Reconciler

`WorkloadDelta` has no state: it is the decision (`Action`), the power and boot
changes, the configuration that differs, what each driver call does when it
succeeds (`Changed`) and what it may leave when one of its requests fails
(`Interrupted`). Cores and memory are one field since they are compared and
written alike; disks are numbers since they only grow. `Passes` is the
dispatcher's filter: what it makes of the snapshots before and after a change.

In `Reconciler` a job is a coroutine inside `reconcile_workload` and its phase
is the `await` it is at: waiting for the workload's lock, looking at the guest,
or in one of the tasks. `Hooks` are webhook and API handlers. `Sweeper` is the
one cluster pass that its global lock admits, going through `todo`, the listing
it took at its start. A name is unique in NetBox, so that a record stands for its
name; `DefaultNamed` are the workloads somebody has called `vm-<id>`, the name
the engine looks for when it has no record. `pending` are webhooks and requests
on their way: every write to a record, an operator's or a task's own, makes
`Echo` offer its webhook to the filter, and one that passes may still be lost.
An operator's edit may change the status, the configuration, the disk and, along
with them or alone, the link (`proxmox_vmid`), which it sets to a finished guest of the
workload's own name (`Linkable`); it may take the quarantine tag off, but never
adds it by hand, and no workload is renamed. An edit that links the record is
dropped by the filter with whatever else it says (`dispatcher.py:57,202`), as is
one that only takes the tag off: the sweep is what heals these. `stray` are driver threads whose coroutine has
been cancelled. `Abandoned` clones are those nobody waits for. People's
changes are counted by `edits`, failing requests and interruptions by `faults`.

The blueprint's validation is one outcome, as is the hardware of a clone: the
guest is what was declared, or something else when a swallowed failure left the
template's sizes. Addresses, DNS, journal entries and notifications are left
out: no step of the engine reads them again. The dispatcher's guards against objects
that are no virtual machines (`dispatcher.py:147`), and against other sites and
clusters, concern objects that are no records of the model, and are left out with
them. The ids in flight
(`BeingRetired`) are only a second line behind the workload's lock in the
checked instances, where ids are not shared between workloads.

### Telemetry

A pass observes all guests at once, then lists the machines, then writes one
record after another: between the first step and the last lie the threads that
fetch each guest's history. It matches by VMID, or else by name, writes a status
that differs from the *listed* one unless the record is on its way out, staged or
pending, and a VMID if the listing had none. It takes none of the engine's locks.
A PATCH that NetBox refuses is logged and the pass goes on; one that raises ends it
(`Rest`). The measured values themselves are left out: nothing depends on them.

### JobStore

`disk` is the committed table and `conn` what the shared connection sees. A
caller (a job's coroutine, its driver's thread, the pruning task) makes one call
at a time: it waits for the lock, holds it having read the row, has executed its
statement, and commits. Each kind of job makes the calls of its code path in
that order (`Endings`): the reconcile branch, what its power and configuration tasks
report, in any combination, before it completes the job. A cancelled sweep releases the lock between execute and
commit, so that its statement is committed by the next caller. `Crash` keeps
`disk` only; `Recover` and `Serve` are the lifespan's recovery and its commit,
before which no request is served.

### TraefikSync

A pass holds what it discovered, the listing it took, and the services it has
dealt with; creating, updating and pruning are one request each. Any number of
passes overlap, since nothing keeps the periodic one, the one at startup and
`POST /sync/traefik` apart. Discovery swallows its errors and answers too
little; a request is refused, which the code logs, or cut off with its pass,
after or before NetBox carried it out. NetBox lists by id, so that of several
services with one key the last wins in the dictionaries. A host has one route,
the parent belongs to one instance, and fewer than the 100 services of a listing
exist.

### TemplateSync

A pass is about no node in particular, or by request about one. Machines are looked
for first, without a node on all of them, and then the archives for containers,
without a node on the *default* one only (`resolve_node(None)`,
`template_sync.py:132`, the constant `Home`): `Visible` is what a pass may
see, and an archive on shared storage is shown by several nodes (`On`). A node or a
storage that does not answer is left out; for a node that is off line another is
taken. A listing that fails counts as no platforms. Each template is looked up by the
description, the slug, the name, in that order, and created or restored; NetBox
refuses a name or slug that is taken. Then the platforms are listed again, and
those whose template was not found are deleted, or marked as deprecated when the
*listing* says that machines use them. So a request about another node registers
that node's archives and the next scheduled pass takes them away again;
`Mirrored` is about the templates the schedule looks for (`Scheduled`), and says of
every other that it has no platform but one marked and in use. A template keeps
its title; archives may share one.

### KumaSync

A batch is a thread of the executor that goes through one session with Kuma, call
by call: `Fetch` (NetBox is asked, the thread begins), `List`, the services'
group, deletions, each thing's group and monitor, and for devices a second
listing and the empty groups; the coroutine that awaits it then writes the links
(`PatchLink`). `Abandon` is the timeout, after which nobody awaits the thread,
which goes on. A listing becomes two things in a batch, as old as it is
while other batches go on: `known`, the monitors as they were, and `found`, the
dictionaries by address and by name, in which groups have keys of their own but
monitors of both kinds share theirs, and of several with one key the last stays.
`Existing` asks by address and else by name (`uptime_kuma.py:309`), for moving a monitor as
for deleting one; neither the name nor the address of a monitor that is found is ever
brought up to date. In NetBox devices and services move, are renamed, get another
address, are tagged, leave and come back (`Declare`, among the entries that
`EntriesOf` gives each). Kuma refuses a parent that does not exist and leaves the
children of a deleted group without one.

What Kuma can be said to show is therefore this (`Mirrored`): everything that is
monitored has a monitor of its name *or* its address, in its group, and a device is
linked to it. The monitor of a device whose address has changed goes on
pinging the old one. A device that loses its primary address is taken for one
that left, its link included, which in NetBox stays; a service without a URL
is skipped by the code and absent from the model; people's own ping monitors, which a
devices' batch deletes as orphans, are none of the model's.

`alone` is no part of the
code: it records, for the fairness only, that a services' batch has met no other.

## 3. The runs

| Run | Question | Result |
|---|---|---|
| `vmid_calls` | with calls of all kinds, strangers' guests and restarts: are allocated ids exclusive leases, is every reservation of a driver returned, and is a reported success the caller's own guest? | holds |
| `reconciler_rough` | with every fault enabled, is a guest purged only for a record that is gone? | holds |
| `reconciler_core` | two workloads, a handler and the sweep: one guest per workload, nobody touches another's, nothing starts a quarantined one? | holds |
| `reconciler_converges` | after the last edit and failure, is the declared state reached and kept, whatever webhooks were lost or dropped? | holds |
| `reconciler_deleted` | is a workload that NetBox no longer has, and that no job was at work on when it went, never built again? | violated |
| `reconciler_retirement` | does an operator's decision to retire a workload stand? | violated |
| `reconciler_purges` | is a guest purged only for a deleted record, when one is named `vm-<id>`? | violated |
| `jobstore_crash` | are log lines kept, orphans marked durably and for good, and does every row end? | holds |
| `traefik_converges` | do services become the routes, each once, through overlap, failure and cancellation, and is nobody else's deleted? | holds |
| `template_converges` | do the templates the schedule looks for become the platforms, and the others' platforms go, through overlap, requests about one node, failed listings and cancellation, and are people's own platforms left alone? | holds |
| `kuma_converges` | while a device moves, is renamed or gets another address: do monitors, groups and links end up as NetBox says, with both batches at work at once, failing, given up or cut off; is a device ever linked to a monitor that bears nothing of its own, or a monitor deleted that the batch's own listing calls for? | holds, never, never |
| `telemetry_drift` | is a guest that drifts from its declared power state brought back? | violated |

### What the violated runs show

- **`reconciler_deleted`.** A workload is edited, the webhook of the edit is
  accepted, and the workload is deleted before the job reads the record (the webhook of
  the deletion is lost). NetBox answers 404, the payload stands in for
  the record (`reconciler.py:707`), and as it is active and has no guest one is
  cloned. The write-back of its VMID finds no record, no listing has the workload any
  more, and the guest stays for ever.
- **`reconciler_retirement`.** The operator sets a workload to
  decommissioning while its clone runs. The write-back of the clone sets
  `status="active"` without looking (`provisioning.py:108`), so the webhook of the
  operator's change, which waited for the lock, reads an active record.
- **`reconciler_purges`.** `POST /sync/reconcile?vm_id=N` has no payload. When
  its read of NetBox fails, the job has no record at all, looks for a guest called
  `vm-N`, and takes the failed read for a deletion.
- **`telemetry_drift`.** A guest is stopped outside. The telemetry pass sees it
  stopped before the sweep does and writes `offline` to the record
  (`metrics_sync.py:246`): declared and actual state agree, and the drift that the
  sweep is there to heal is gone. Which of the two tasks comes first decides.

Some instances are known to violate a property and are no run, since each is one
of the hazards of `PROJECT.json`:

- Routes that share a name take one service from each other for ever
  (`TraefikSync` with a constant `NameOf`).
- Two threads that may take a services' batch of Kuma may leave what is in the
  lower of two groups behind (`ServiceThreads` of two).
- A device and a service of one name: the batch of the device, when it is excluded,
  finds the service's HTTP monitor by that name and deletes it (`SparesWanted` and
  `Converges` fail; `LinkedToOwn` holds, for the monitor does bear the name). An address that passes from
  one device to another: both are found at the first one's monitor, and share
  it for good.
- With `Mirrored` about *all* templates, as the docstrings have it
  (`template_sync.py:199-204`, `sync.py:168-172`), `TemplateSync` does not converge: archives
  of other nodes are not looked for.
- With `Interrupts`, or with `ReadFaults` and two faults, a second clone
  (`NoDuplicateGuest` in `reconciler_core`): a clone that outlasts the wait for it, or a
  guest that two failed listings have hidden.
- With the telemetry beside `reconciler_core`, a record linked to an id whose clone has
  failed since makes its next job configure another workload's guest
  (`OwnGuestOnly`).

### Bounds, and why they are enough

- **VmidAllocator**: two calls of any mode on two ids, so that the ids run out and
  Proxmox's answer is moved past the last one; any number of restarts and
  of guests that others create or delete. The id that a peeking call
  reserves is released by nobody (a hazard, at `templates.py:28`);
  `ReservationsReturned` speaks of the drivers.
- **Reconciler**: every hazard listed needs at most two jobs on one workload, or
  two workloads and one id: `reconciler_core` has the second, the others the
  first. `MaxEdits = 2` is a change and a change of mind (or a deletion, or a
  drift), `MaxFaults = 1` one failure in any request of any job. `LastVmid = 2`
  leaves room for a duplicate guest to appear. `ReadFaults` and
  `Interrupts` are off in `reconciler_core`, whose properties they violate (see
  above).
  `reconciler_converges` has one id and two disk sizes, so that a resize can fail;
  `Deletes` and `Interrupts` are off there since convergence speaks of records
  that exist, and a restart adds nothing but the loss of jobs, which lost webhooks
  already show.
- **JobStore**: two jobs of different kinds, since the connection and the lock are
  shared between any two, and one crash, at any point of calls and of the
  recovery of an earlier one, since the process also begins with a boot.
- **TraefikSync**: two hosts, the scheduler and one request, two edits (one of
  which may be the request), one fault, five ids, which is never short.
  Each route's name is its own.
- **TemplateSync**: two nodes; a machine at the default one, an archive on shared
  storage, and one of the same title on the other node only, which requests may be about; a
  platform made by hand may have that title. Two edits, one of which may be the
  request, one fault, four ids.
- **KumaSync**: a device of two sites, two names and two addresses in seven of their
  combinations, and a service, one thread for each kind of batch, one edit, one
  fault, six ids. No two things share a name or an address: what happens where they
  do is said above. Two batches of different kinds overlap at every call; a second
  thread of one kind is left out, as said above.
- **Telemetry**: one record and one id, one edit (the drift) and no fault are enough
  for the counterexample.

Where the system may really stop (all calls done, all jobs over) the
configuration says so with `CHECK_DEADLOCK FALSE`; the engine and the
synchronisations never stop.

### Fairness

- A thread or a coroutine that can move does: every request has a timeout (30 s)
  and every wait a deadline, so that weak fairness of a job's own step is what
  the event loop and the operating system give.
- The workload's lock and the store's are `asyncio.Lock`s, first come, first
  served: a waiter is not overtaken for ever. As the lock is free only now and
  then, this is strong fairness of `FetchDeclared` and of JobStore's `Acquire`.
- The scheduler begins a sweep, a pass or a batch, again and again
  (`scheduler.py:211-231`).
- A services' batch of Kuma is again and again alone, from its beginning to its end
  (`Undisturbed`): the two tasks run every 30 and every 15 minutes and take
  seconds, so that half of the services' batches meet no devices' batch. Without
  it two batches in lockstep could undo each other for ever
  (`uptime_kuma.py:389`).
- Nothing is assumed of people, of failures, or of a build in `VmidAllocator`,
  which may run for ever; there the wait times out. In `Reconciler` Proxmox ends
  the clones that nobody waits for, well or badly, as a build that never ends
  would keep its guest locked for ever.

## 4. What is proved

Checked by TLAPS for any set of tasks, records, ids, jobs and any bounds.

**VmidAllocator_proofs.** `TypeCorrect`, `Exclusive`, `Accounted`,
`ImplementsLease`, `OwnGuest`. `ExclusiveIds` is not inductive: that the id a
thread is about to reserve is free follows from its being in the critical
section and having passed every reservation there, so that the invariant adds
`MutexInv` (a thread between lock and unlock is the mutex's holder) and
`LocalInv` (what a thread knows at each place: whether it has an id, and that a
picked id is not reserved), besides `ReservationsAccounted`. The refinement
follows from it: reserving is a grant, because the id is not in the reservation
set, which is exactly the set of leases; releasing gives back; everything else
stutters. `OwnGuest` needs `BuiltInv` (a build that runs
or has succeeded has its own guest under its id, unless others deleted it).

**Reconciler_proofs.** `TypeCorrect`, `ClonesOwned`, `PurgeSafe`. The invariant
`Shape` is `StoresInv` (records and guests), `JobsInv` (a job past its decision
has a record, a declared state and a target; `EchoKeeps` does so for the webhooks
that writes cause) and `CloneInv` (a clone somebody
waits for has a guest that is still being built and no other owner). The last is
needed for type correctness already, because a clone that ends changes the guest
under its target. `PurgeSafe` adds `DeletedInv`: a delete event in flight or in
a job means that the record is gone, and it stays gone. It assumes
`DefaultNamed = {}`, which is exactly what `reconciler_purges` refutes otherwise;
failed reads, deletions, cancelled sweeps and restarts are all included.

**ReconcilerGuests_proofs.** Who acts on which guest. Each invariant below is added
to `Shape`; each theorem names the instances it excludes, because there the property
is false or not known to hold.

- `OneJobPerWorkload`: `LockInv`, one job at a time is past the lock of a workload,
  without any assumption: a cancelled sweep releases the lock and leaves only threads.
- `OwnGuest` states `OwnGuestOnly`. What makes it inductive is `OwnInv`: *every
  copy of a record, however old* (in NetBox, in webhooks under way, in the sweep's
  listing, in a job) is `Faithful`, that is, points to no guest or to its own
  workload's complete one; a job that acts has such a guest for a target; a guest that
  is being built has a job that waits for it. It assumes `Undisturbed`
  (no `Deletes`, no `OutsideDeletes`, no `Interrupts`): each of the three frees an id
  that stale copies still point to, or lets a thread act without its lock, and TLC
  finds `OwnGuestOnly` violated with any one of them. If reads may fail, it
  also assumes that nobody is named `vm-<id>`.
- `NoDuplicate` states `NoDuplicateGuest`, from `OwnInv` and `DupInv`: from the
  decision to provision to the registration nobody has a guest of that name. It
  assumes `Undisturbed` and no failing reads. `Interrupts`, and failing
  reads with two faults, do violate the property; with deletions TLC found no
  violation, so that those two hypotheses may be more than is needed.
- `QuarantineStands` states `NoStartUnderQuarantine`, with deletions of both kinds:
  `QuarInv` says that who works for a quarantined workload has read that it is
  one, or purges it, since the tag is set under the lock only. It assumes no failing
  reads (a webhook's payload from before the tag would do for the record) and
  no interruptions (a stray thread starts what has been tagged since); TLC finds
  both violated.
- `OnePassSettles` is about the operators: whatever the declared state and the guest,
  the engine finds nothing left to do about what its own plan makes of it.

**Telemetry_proofs.** The telemetry pass writes the same records without the lock.
`TelemetryTyped`, `TelemetryOneJob`, `TelemetryPurgeSafe` and
`TelemetryQuarantineStands` show what survives it: types, the lock, purges for
deleted records only, quarantines; for a measurement creates or deletes no record and
touches no tag. They assume `Reports`, that `offline` is among the statuses,
which the code writes. `OwnGuestOnly` does not survive (section 3).

**JobStore_proofs.** `TypeCorrect`, `OrphansAreMarked`, `LogsAreKept`,
`InterruptedIsFinal`. Only the safety part of the specification is used. The
invariant adds `FlowInv` (a coroutine has a call under way only while it starts or
ends; threads append and the janitor prunes; who holds the lock has read the table
as it is; nobody calls before requests are served) and `RowsInv` (a row that is
still to be created is in neither table; the committed log is part of the
connection's, and its "interrupted" is the connection's too; only dead or finished
jobs are interrupted; the rows of killed jobs are terminal, first in the
connection and, once it has committed, on disk). Both action properties follow
because the committed table changes only by becoming the connection's.

**TraefikSync_proofs.** `TypeCorrect`; its invariant is `TypeOK` itself, one pass
being `WellFormed`. `HandSafe`: no pass deletes a service made by hand. The
invariant adds `SyncInv` (a pass's listing and its answers are well formed) and
`HandInv` (a service made by hand is still as it was made, in NetBox and in every
listing that has it, so that no pass ever marks it as its own or takes it for an
orphan). It assumes `HandNamed`: people do not give their service a route's name,
as the fallback by name would then take it over.

**TemplateSync_proofs.** `TypeCorrect`, along the same lines: a pass writes only
templates it found, in the right phase, and every request leaves NetBox with
platforms that people or templates account for. `HandMadeSafe` states `HandMadeKept`: the
invariant `HandInv` says that a platform which is a template's in *any pass's listing*
is a template's, or gone, in NetBox by now, because ids are not given out twice and a
platform never becomes people's again; so what is pruned by an old listing is never
people's.

**KumaSync_proofs.** `TypeCorrect`, from `TypeInv`: each batch is `Sound` (only a
devices' batch gets as far as the sweep and the links, only a services' one makes
its group first, what is left to deal with was listed). `OwnLinks` and
`WantedSpared` state `LinkedToOwn` and `SparesWanted` for any number of overlapping
threads of either kind. Nothing says that a monitor is some thing's: it bears a
name and an address, things bear some in turn, and the dictionaries are what a listing
made of both. The invariant `MemInv` says what a batch *remembers* of Kuma
(`Recalls`): of each id in a dictionary, that a monitor of that id, if there still is
one, bears the key it was found by; of each id it will write as a link, that the monitor
bears something of the device's; of each id it is to delete, why. It is kept because no step changes the
name or the address of a monitor (the code never edits either), and a monitor that
is made has an id nobody remembers. `OwnLinks` needs no more, whatever names and
addresses things share. For `WantedSpared` the names and addresses have to be apart
(`Apart`, the theorem's hypothesis): then a key by which an excluded thing's
monitor was found is nobody else's, and every monitor is of one thing and in the
services' group only if that is a service (`Placed`). That Kuma never gives an id out
twice is the one assumption about it, and is part of the model (`Fresh`); that no two
devices share a name is one of the module (`DevicesAssumption`), since `run_sync`
writes links by name.

**Model-checked only.** Liveness under fairness (`Converges` of four modules,
`ReservationsReturned`, `RowsEnd`), which is out of the prover's reach. Every other
property of a passing run is stated by a theorem. The violated runs' properties are
false.

## 5. Plan

Done: the allocator and its lease, the delta and the webhook filter, the engine,
the telemetry beside it, the job store, and the synchronisations with Traefik,
the templates and Uptime Kuma. Next:

1. `PeriodicTask` (scheduler): run, timeout, exception, cancellation at
   shutdown; a task comes again and never overlaps itself. To be composed with the
   job store's pruning.
2. Quarantine in the driver: stop, boot flag, network isolation of a VM
   and of a container, in order, with swallowed errors.
3. Conversions of sizes (`_parse_memory_mb`, disks) as pure operators over bounded
   inputs, against a reference definition.
4. What the three synchronisations have in common (list, upsert, prune) as one
   abstract specification of a mirror that each implements.
5. Addresses and DNS records (`drivers/netbox.py`): two provisioning jobs and one
   prefix.

Proofs to come: the mirror of item 4 and that the synchronisations implement it;
`NoDuplicateGuest` with deletions; `LeaseSpec`'s counterpart for the workload's lock.

**Not modelled.** Parsing, schemas, credentials and message texts; preflight
and module probes, which change nothing; one-shot scripts; the read-only orphan
report; the API handlers beyond the requests they make of a modelled part. Of the
synchronisations: listings cut at a page's length, templates that change their
title, the parsing of template names and their resolution for a workload, Kuma's
notifications, rate limits and previews, and its methods without a caller. Of
the engine: addresses, DNS, journal entries, the parts of a configuration that
cannot be read.
