---------------------------- MODULE VmidAllocator ----------------------------
(***************************************************************************)
(* VMID allocation in app/drivers/proxmox: ProxmoxClientManager's mutex    *)
(* and in-memory reservations, and the way the three provisioning drivers  *)
(* (clone_linux_vm, clone_windows_vm, create_lxc_container) and the HTTP   *)
(* endpoint GET /templates/nextid use them.  Each task is one such call on *)
(* a worker thread; Proxmox runs its clone tasks on its own.               *)
(***************************************************************************)
EXTENDS Naturals, FiniteSets

CONSTANTS
  Tasks,           \* calls made during the life of the model, each run once
  Modes,           \* the kinds of call that occur, a subset of AllModes
  FirstVmid,       \* bounds of the ids Proxmox accepts (100 .. 999999999)
  LastVmid,
  NoTask,          \* the mutex is free / no guest has the id
  Foreign,         \* the guest was created by someone else
  NoVmid           \* the task has no id yet

AllModes == {"auto", "explicit", "peek"}
Vmids    == FirstVmid..LastVmid

ASSUME ModesAssumption == Modes \subseteq AllModes
ASSUME BoundsAssumption == FirstVmid \in Nat /\ LastVmid \in Nat
ASSUME NamesAssumption ==
  /\ NoTask \notin Tasks /\ Foreign \notin Tasks /\ NoTask # Foreign
  /\ NoVmid \notin Nat

VARIABLES
  owner,     \* Proxmox: who created the guest registered under an id
  gone,      \* ids whose guest somebody else has deleted
  upid,      \* Proxmox: the state of the build task a call started
  mutex,     \* _vmid_lock
  reserved,  \* _reserved_vmids
  pc,        \* where a call stands
  mode,      \* how a call came by its id
  vmid,      \* the call's local variable vmid
  nextid,    \* the call's local variable next_id
  outcome    \* what the call returned to its worker

proxmox == <<owner, gone, upid>>
local   == <<mode, vmid, nextid>>
vars    == <<owner, gone, upid, mutex, reserved, pc, mode, vmid, nextid, outcome>>

InTry    == {"prepare", "post", "wait", "configure", "start"}
Critical == {"query", "pick", "reserve"}
PcStates == {"new", "lock", "release", "peeked", "done"} \cup InTry \cup Critical

Holding(t) == mode[t] = "auto" /\ pc[t] \in InTry \cup {"release"}
Peeked(t)  == pc[t] = "peeked"
Holds(t)   == Holding(t) \/ Peeked(t)

-----------------------------------------------------------------------------

Init ==
  /\ owner \in [Vmids -> {NoTask, Foreign}]
  /\ gone = {}
  /\ upid = [t \in Tasks |-> "none"]
  /\ mutex = NoTask
  /\ reserved = {}
  /\ pc = [t \in Tasks |-> "new"]
  /\ mode = [t \in Tasks |-> "none"]
  /\ vmid = [t \in Tasks |-> NoVmid]
  /\ nextid = [t \in Tasks |-> NoVmid]
  /\ outcome = [t \in Tasks |-> "none"]

Goto(t, where) ==
  /\ pc' = [pc EXCEPT ![t] = where]
  /\ UNCHANGED outcome

\* The call ends before it entered its try block: nothing to release.
Abort(t) ==
  /\ pc' = [pc EXCEPT ![t] = "done"]
  /\ outcome' = [outcome EXCEPT ![t] = "error"]

\* Mutant: an error path without the finally clause.
LeaveNoFinally(t, result) ==
  /\ pc' = [pc EXCEPT ![t] = IF mode[t] = "auto" /\ result = "ok" THEN "release" ELSE "done"]
  /\ outcome' = [outcome EXCEPT ![t] = result]

\* The try block is left; its finally clause releases an allocated id only.
Leave(t, result) ==
  /\ pc' = [pc EXCEPT ![t] = IF mode[t] = "auto" THEN "release" ELSE "done"]
  /\ outcome' = [outcome EXCEPT ![t] = result]

\* A caller that supplies a VMID skips the allocator altogether.
BeginExplicit(t) ==
  /\ pc[t] = "new" /\ "explicit" \in Modes
  /\ mode' = [mode EXCEPT ![t] = "explicit"]
  /\ \E v \in Vmids : vmid' = [vmid EXCEPT ![t] = v]
  /\ Goto(t, "prepare")
  /\ UNCHANGED <<proxmox, mutex, reserved, nextid>>

BeginAllocating(t) ==
  /\ pc[t] = "new"
  /\ \E m \in Modes \cap {"auto", "peek"} : mode' = [mode EXCEPT ![t] = m]
  /\ Goto(t, "lock")
  /\ UNCHANGED <<proxmox, mutex, reserved, vmid, nextid>>

\* Mutant: the critical section is entered without the mutex.
TakeMutexUnguarded(t) ==
  /\ pc[t] = "lock"
  /\ mutex' = t
  /\ Goto(t, "query")
  /\ UNCHANGED <<proxmox, reserved, local>>

TakeMutex(t) ==
  /\ pc[t] = "lock" /\ mutex = NoTask
  /\ mutex' = t
  /\ Goto(t, "query")
  /\ UNCHANGED <<proxmox, reserved, local>>

IsLowestFree(v) ==
  /\ owner[v] = NoTask
  /\ \A w \in Vmids : w < v => owner[w] # NoTask

\* cluster.nextid is asked while the mutex is held ...
ReadNextId(t) ==
  /\ pc[t] = "query"
  /\ \E v \in Vmids : IsLowestFree(v) /\ nextid' = [nextid EXCEPT ![t] = v]
  /\ Goto(t, "pick")
  /\ UNCHANGED <<proxmox, mutex, reserved, mode, vmid>>

\* Mutant: an exception leaves the mutex taken.
NextIdFailsLocked(t) ==
  /\ pc[t] = "query"
  /\ Abort(t)
  /\ UNCHANGED <<proxmox, mutex, reserved, local>>

\* ... and may fail: no id left, or the request is lost.
NextIdFails(t) ==
  /\ pc[t] = "query"
  /\ mutex' = NoTask
  /\ Abort(t)
  /\ UNCHANGED <<proxmox, reserved, local>>

FirstUnreserved(n, v) == v \notin reserved /\ \A w \in n..(v - 1) : w \in reserved

\* Mutant: Proxmox's answer is taken as it is.
SkipNothing(t) ==
  /\ pc[t] = "pick"
  /\ Goto(t, "reserve")
  /\ UNCHANGED <<proxmox, mutex, reserved, local>>

\* The answer is moved past the ids other calls have reserved ...
SkipReserved(t) ==
  /\ pc[t] = "pick"
  /\ \E v \in nextid[t]..(nextid[t] + Cardinality(reserved)) :
       FirstUnreserved(nextid[t], v) /\ nextid' = [nextid EXCEPT ![t] = v]
  /\ Goto(t, "reserve")
  /\ UNCHANGED <<proxmox, mutex, reserved, mode, vmid>>

\* Mutant: the id is reserved before it is known.
ReserveNextEarly(t) ==
  /\ pc[t] = "reserve"
  /\ reserved' = reserved \cup {vmid[t]}
  /\ vmid' = [vmid EXCEPT ![t] = nextid[t]]
  /\ mutex' = NoTask
  /\ Goto(t, IF mode[t] = "auto" THEN "prepare" ELSE "peeked")
  /\ UNCHANGED <<proxmox, mode, nextid>>

\* ... then reserved, and the mutex dropped.  The endpoint returns here; the
\* drivers go on.
ReserveNext(t) ==
  /\ pc[t] = "reserve"
  /\ reserved' = reserved \cup {nextid[t]}
  /\ vmid' = [vmid EXCEPT ![t] = nextid[t]]
  /\ mutex' = NoTask
  /\ Goto(t, IF mode[t] = "auto" THEN "prepare" ELSE "peeked")
  /\ UNCHANGED <<proxmox, mode, nextid>>

\* Address and, for a container, template resolution: both may raise.
Prepare(t) ==
  /\ pc[t] = "prepare"
  /\ Goto(t, "post") \/ Leave(t, "error")
  /\ UNCHANGED <<proxmox, mutex, reserved, local>>

\* Proxmox registers the id before it starts the build; the answer may be lost.
PostBuild(t) ==
  /\ pc[t] = "post"
  /\ vmid[t] \in Vmids /\ owner[vmid[t]] = NoTask
  /\ owner' = [owner EXCEPT ![vmid[t]] = t]
  /\ upid' = [upid EXCEPT ![t] = "running"]
  /\ Goto(t, "wait") \/ Leave(t, "error")
  /\ UNCHANGED <<gone, mutex, reserved, local>>

\* Proxmox refuses: the id is taken or out of range, or the request fails.
PostRefused(t) ==
  /\ pc[t] = "post"
  /\ Leave(t, "error")
  /\ UNCHANGED <<proxmox, mutex, reserved, local>>

\* wait_for_task sees the build succeed: a container is complete, a VM is
\* still to be configured.
BuildSeen(t) ==
  /\ pc[t] = "wait" /\ upid[t] = "ok"
  /\ Goto(t, "configure") \/ Leave(t, "ok")
  /\ UNCHANGED <<proxmox, mutex, reserved, local>>

\* Mutant: a wait that times out passes for a success.
WaitIgnoresTimeout(t) ==
  /\ pc[t] = "wait"
  /\ Leave(t, "ok")
  /\ UNCHANGED <<proxmox, mutex, reserved, local>>

\* It sees the build fail, times out, or cannot poll; the build goes on.
WaitRaises(t) ==
  /\ pc[t] = "wait"
  /\ Leave(t, "error")
  /\ UNCHANGED <<proxmox, mutex, reserved, local>>

\* Hardware and cloud-init; then the start, unless start_on_create is off.
Configure(t) ==
  /\ pc[t] = "configure"
  /\ \/ owner[vmid[t]] # NoTask /\ (Goto(t, "start") \/ Leave(t, "ok"))
     \/ Leave(t, "error")
  /\ UNCHANGED <<proxmox, mutex, reserved, local>>

StartGuest(t) ==
  /\ pc[t] = "start"
  /\ \/ owner[vmid[t]] # NoTask /\ Leave(t, "ok")
     \/ Leave(t, "error")
  /\ UNCHANGED <<proxmox, mutex, reserved, local>>

Release(t) ==
  /\ pc[t] = "release" /\ mutex = NoTask
  /\ reserved' = reserved \ {vmid[t]}
  /\ Goto(t, "done")
  /\ UNCHANGED <<proxmox, mutex, local>>

-----------------------------------------------------------------------------

BuildOk(t) ==
  /\ upid[t] = "running"
  /\ upid' = [upid EXCEPT ![t] = "ok"]
  /\ UNCHANGED <<owner, gone, mutex, reserved, pc, local, outcome>>

\* A failed build removes the half-built guest and frees its id.
BuildFails(t) ==
  /\ upid[t] = "running"
  /\ upid' = [upid EXCEPT ![t] = "failed"]
  /\ owner' = [owner EXCEPT ![vmid[t]] = NoTask]
  /\ UNCHANGED <<gone, mutex, reserved, pc, local, outcome>>

BeingBuilt(v) == \E t \in Tasks : vmid[t] = v /\ upid[t] = "running"

\* An operator, or the orchestrator's own purge, in Proxmox.
ForeignCreate(v) ==
  /\ owner[v] = NoTask
  /\ owner' = [owner EXCEPT ![v] = Foreign]
  /\ UNCHANGED <<gone, upid, mutex, reserved, pc, local, outcome>>

ForeignDelete(v) ==
  /\ owner[v] # NoTask /\ ~BeingBuilt(v)
  /\ owner' = [owner EXCEPT ![v] = NoTask]
  /\ gone' = gone \cup {v}
  /\ UNCHANGED <<upid, mutex, reserved, pc, local, outcome>>

InFlight(t) == pc[t] \notin {"new", "done"}

\* The process dies with its threads and its memory; Proxmox builds on.
Restart ==
  /\ \E t \in Tasks : InFlight(t)
  /\ mutex' = NoTask
  /\ reserved' = {}
  /\ pc' = [t \in Tasks |-> IF InFlight(t) THEN "done" ELSE pc[t]]
  /\ outcome' = [t \in Tasks |-> IF InFlight(t) THEN "lost" ELSE outcome[t]]
  /\ UNCHANGED <<proxmox, local>>

Allocation(t) ==
  \/ TakeMutex(t) \/ ReadNextId(t) \/ NextIdFails(t)
  \/ SkipReserved(t) \/ ReserveNext(t)

Driver(t) ==
  \/ Prepare(t) \/ PostBuild(t) \/ PostRefused(t) \/ BuildSeen(t)
  \/ WaitRaises(t) \/ Configure(t) \/ StartGuest(t)

Next ==
  \/ \E t \in Tasks : BeginExplicit(t) \/ BeginAllocating(t)
  \/ \E t \in Tasks : Allocation(t) \/ Driver(t) \/ Release(t)
  \/ \E t \in Tasks : BuildOk(t) \/ BuildFails(t)
  \/ \E v \in Vmids : ForeignCreate(v) \/ ForeignDelete(v)
  \/ Restart

\* A thread that can move does: a request times out (30 s), a wait has a
\* deadline.  Nothing obliges a build to end or a request to arrive.
Fairness ==
  \A t \in Tasks :
    WF_vars(Allocation(t)) /\ WF_vars(Driver(t)) /\ WF_vars(Release(t))

Spec == Init /\ [][Next]_vars /\ Fairness

-----------------------------------------------------------------------------

Ids == Nat \cup {NoVmid}

\* Every variable has its type; the set of reservations stays finite.
TypeOK ==
  /\ owner \in [Vmids -> Tasks \cup {NoTask, Foreign}]
  /\ gone \subseteq Vmids
  /\ upid \in [Tasks -> {"none", "running", "ok", "failed"}]
  /\ mutex \in Tasks \cup {NoTask}
  /\ reserved \in SUBSET Nat /\ IsFiniteSet(reserved)
  /\ pc \in [Tasks -> PcStates]
  /\ mode \in [Tasks -> AllModes \cup {"none"}]
  /\ vmid \in [Tasks -> Ids]
  /\ nextid \in [Tasks -> Ids]
  /\ outcome \in [Tasks -> {"none", "ok", "error", "lost"}]

\* Two calls never hold the same allocated id, however their allocations,
\* clones, failures and releases interleave (client.py _vmid_lock).
ExclusiveIds ==
  \A t, u \in Tasks : Holds(t) /\ Holds(u) /\ vmid[t] = vmid[u] => t = u

\* The reservation set is exactly the ids of the calls that hold one: nobody
\* drops another's reservation, no error path of a driver leaks its own.
ReservationsAccounted == reserved = {vmid[t] : t \in {u \in Tasks : Holds(u)}}

\* A call that reports success returns the guest it built itself, even when
\* another call was given the same id explicitly (qemu.py, windows.py, lxc.py);
\* only a deletion from outside can put something else under its id.
SuccessIsOwnGuest ==
  \A t \in Tasks :
    outcome[t] = "ok" => upid[t] = "ok" /\ (owner[vmid[t]] = t \/ vmid[t] \in gone)

\* Every reservation of a driver is eventually released (release_vmid).
ReservationsReturned ==
  \A t \in Tasks : (Holding(t) ~> ~Holding(t))

\* The allocator implements exclusive leases.
Lease == INSTANCE VmidLease
           WITH lease <- [t \in Tasks |-> IF Holds(t) THEN vmid[t] ELSE NoVmid]
LeaseSpec == Lease!Spec
=============================================================================
