------------------------- MODULE VmidAllocator_proofs -------------------------
(***************************************************************************)
(* Proofs about VmidAllocator, for any set of calls, any range of ids and  *)
(* any interleaving.  The inductive invariant says who is in the critical  *)
(* section, that a call past it has a number for an id, and that the       *)
(* reservation set is exactly the ids of the calls that hold one.          *)
(***************************************************************************)
EXTENDS VmidAllocator, FiniteSetTheorems, TLAPS

\* A call holds the mutex exactly while it is between nextid and the
\* reservation (the `with self._vmid_lock` block of get_next_vmid).
MutexInv == \A t \in Tasks : pc[t] \in Critical <=> mutex = t

\* What the control point of a call says of its local variables.
LocalInv ==
  \A t \in Tasks :
    /\ pc[t] \in {"lock"} \cup Critical => mode[t] \in {"auto", "peek"}
    /\ pc[t] = "pick" => nextid[t] \in Nat
    /\ pc[t] = "reserve" => nextid[t] \in Nat \ reserved
    /\ pc[t] = "release" => mode[t] = "auto"
    /\ pc[t] \in InTry \cup {"release", "peeked"} => vmid[t] \in Nat

IInv ==
  /\ TypeOK
  /\ MutexInv
  /\ LocalInv
  /\ ExclusiveIds
  /\ ReservationsAccounted

\* The steps that leave every lease and every reservation as they are.
Quiet == /\ reserved' = reserved
         /\ \A t \in Tasks : Holds(t)' = Holds(t) /\ (Holds(t) => vmid'[t] = vmid[t])

-----------------------------------------------------------------------------

\* The bounds of the scan for an unreserved id are numbers.
LEMMA ScanBound == TypeOK => Cardinality(reserved) \in Nat
  BY FS_CardinalityType DEF TypeOK

\* Every id that can be configured is a natural number.
LEMMA VmidsAreNat == Vmids \subseteq Nat
  BY BoundsAssumption DEF Vmids

\* The initial states have no call under way and nothing reserved.
LEMMA InitIInv == Init => IInv
  <1> SUFFICES ASSUME Init PROVE IInv
    OBVIOUS
  <1>1. TypeOK
    BY FS_EmptySet DEF Init, TypeOK, PcStates, Ids
  <1>2. MutexInv
    BY NamesAssumption DEF Init, MutexInv, Critical
  <1>3. LocalInv
    BY DEF Init, LocalInv, InTry, Critical
  <1>4. \A t \in Tasks : ~Holds(t)
    BY DEF Init, Holds, Holding, Peeked, InTry
  <1>5. ExclusiveIds /\ ReservationsAccounted
    BY <1>4 DEF Init, ExclusiveIds, ReservationsAccounted
  <1>6. QED
    BY <1>1, <1>2, <1>3, <1>5 DEF IInv

-----------------------------------------------------------------------------

\* Types are kept by every step; LocalInv supplies the number the scan starts
\* from.
LEMMA TypeStep == TypeOK /\ LocalInv /\ [Next]_vars => TypeOK'
  <1> SUFFICES ASSUME TypeOK, LocalInv, [Next]_vars PROVE TypeOK'
    OBVIOUS
  <1> USE DEF TypeOK, PcStates, InTry, Critical, AllModes, Ids, Goto, Abort, Leave, local, proxmox
  <1>1. ASSUME NEW t \in Tasks, BeginExplicit(t) PROVE TypeOK'
    BY <1>1, VmidsAreNat DEF BeginExplicit
  <1>2. ASSUME NEW t \in Tasks, BeginAllocating(t) PROVE TypeOK'
    BY <1>2 DEF BeginAllocating
  <1>3. ASSUME NEW t \in Tasks, TakeMutex(t) PROVE TypeOK'
    BY <1>3 DEF TakeMutex
  <1>4. ASSUME NEW t \in Tasks, ReadNextId(t) PROVE TypeOK'
    BY <1>4, VmidsAreNat DEF ReadNextId
  <1>5. ASSUME NEW t \in Tasks, NextIdFails(t) PROVE TypeOK'
    BY <1>5 DEF NextIdFails
  <1>6. ASSUME NEW t \in Tasks, ReserveNext(t) PROVE TypeOK'
    <2>1. nextid[t] \in Nat
      BY <1>6 DEF ReserveNext, LocalInv
    <2>2. IsFiniteSet(reserved')
      BY <1>6, FS_AddElement DEF ReserveNext
    <2>3. QED
      BY <1>6, <2>1, <2>2 DEF ReserveNext
  <1>15. ASSUME NEW t \in Tasks, SkipReserved(t) PROVE TypeOK'
    <2>1. PICK v \in nextid[t]..(nextid[t] + Cardinality(reserved)) :
            nextid' = [nextid EXCEPT ![t] = v]
      BY <1>15 DEF SkipReserved
    <2>2. v \in Nat
      BY <1>15, <2>1, ScanBound DEF SkipReserved, LocalInv
    <2>3. QED
      BY <1>15, <2>1, <2>2 DEF SkipReserved
  <1>7. ASSUME NEW t \in Tasks, Prepare(t) PROVE TypeOK'
    BY <1>7 DEF Prepare
  <1>8. ASSUME NEW t \in Tasks, PostBuild(t) PROVE TypeOK'
    BY <1>8 DEF PostBuild
  <1>9. ASSUME NEW t \in Tasks,
               PostRefused(t) \/ BuildSeen(t) \/ WaitRaises(t) \/ Configure(t) \/ StartGuest(t)
        PROVE  TypeOK'
    BY <1>9 DEF PostRefused, BuildSeen, WaitRaises, Configure, StartGuest
  <1>10. ASSUME NEW t \in Tasks, Release(t) PROVE TypeOK'
    BY <1>10, FS_RemoveElement DEF Release
  <1>11. ASSUME NEW t \in Tasks, BuildOk(t) \/ BuildFails(t) PROVE TypeOK'
    BY <1>11 DEF BuildOk, BuildFails
  <1>12. ASSUME NEW v \in Vmids, ForeignCreate(v) \/ ForeignDelete(v) PROVE TypeOK'
    BY <1>12 DEF ForeignCreate, ForeignDelete
  <1>13. CASE Restart
    BY <1>13, FS_EmptySet DEF Restart
  <1>14. CASE UNCHANGED vars
    BY <1>14 DEF vars
  <1>16. QED
    BY <1>1, <1>2, <1>3, <1>4, <1>5, <1>6, <1>7, <1>8, <1>9, <1>10, <1>11, <1>12, <1>13, <1>14,
       <1>15
       DEF Next, Allocation, Driver

\* Only the holder of the mutex can be in the critical section.
LEMMA MutexStep == TypeOK /\ MutexInv /\ [Next]_vars => MutexInv'
  <1> SUFFICES ASSUME TypeOK, MutexInv, [Next]_vars PROVE MutexInv'
    OBVIOUS
  <1> USE NamesAssumption DEF TypeOK, MutexInv, InTry, Critical, Goto, Abort, Leave
  <1>1. ASSUME NEW t \in Tasks, BeginExplicit(t) \/ BeginAllocating(t) PROVE MutexInv'
    BY <1>1 DEF BeginExplicit, BeginAllocating
  <1>2. ASSUME NEW t \in Tasks, TakeMutex(t) PROVE MutexInv'
    BY <1>2 DEF TakeMutex
  <1>3. ASSUME NEW t \in Tasks, ReadNextId(t) \/ SkipReserved(t) PROVE MutexInv'
    BY <1>3 DEF ReadNextId, SkipReserved
  <1>4. ASSUME NEW t \in Tasks, NextIdFails(t) \/ ReserveNext(t) PROVE MutexInv'
    BY <1>4 DEF NextIdFails, ReserveNext
  <1>5. ASSUME NEW t \in Tasks, Driver(t) PROVE MutexInv'
    BY <1>5 DEF Driver, Prepare, PostBuild, PostRefused, BuildSeen, WaitRaises,
                Configure, StartGuest
  <1>6. ASSUME NEW t \in Tasks, Release(t) PROVE MutexInv'
    BY <1>6 DEF Release
  <1>7. ASSUME NEW t \in Tasks, BuildOk(t) \/ BuildFails(t) PROVE MutexInv'
    BY <1>7 DEF BuildOk, BuildFails
  <1>8. ASSUME NEW v \in Vmids, ForeignCreate(v) \/ ForeignDelete(v) PROVE MutexInv'
    BY <1>8 DEF ForeignCreate, ForeignDelete
  <1>9. CASE Restart
    BY <1>9 DEF Restart, InFlight
  <1>10. CASE UNCHANGED vars
    BY <1>10 DEF vars
  <1>11. QED
    BY <1>1, <1>2, <1>3, <1>4, <1>5, <1>6, <1>7, <1>8, <1>9, <1>10 DEF Next, Allocation

\* The local variables a control point relies on are set before it is reached;
\* an id found unreserved stays so, because only the holder of the mutex adds.
LEMMA LocalStep == TypeOK /\ MutexInv /\ LocalInv /\ [Next]_vars => LocalInv'
  <1> SUFFICES ASSUME TypeOK, MutexInv, LocalInv, [Next]_vars PROVE LocalInv'
    OBVIOUS
  <1> USE DEF TypeOK, LocalInv, InTry, Critical, Goto, Abort, Leave, local
  <1>1. ASSUME NEW t \in Tasks, BeginExplicit(t) PROVE LocalInv'
    BY <1>1, VmidsAreNat DEF BeginExplicit
  <1>2. ASSUME NEW t \in Tasks, BeginAllocating(t) PROVE LocalInv'
    BY <1>2 DEF BeginAllocating
  <1>3. ASSUME NEW t \in Tasks, TakeMutex(t) \/ NextIdFails(t) PROVE LocalInv'
    BY <1>3 DEF TakeMutex, NextIdFails
  <1>4. ASSUME NEW t \in Tasks, ReadNextId(t) PROVE LocalInv'
    BY <1>4, VmidsAreNat DEF ReadNextId
  <1>5. ASSUME NEW t \in Tasks, ReserveNext(t) PROVE LocalInv'
    <2>1. \A u \in Tasks \ {t} : pc[u] # "reserve"
      BY <1>5 DEF ReserveNext, MutexInv
    <2>2. QED
      BY <1>5, <2>1 DEF ReserveNext
  <1>12. ASSUME NEW t \in Tasks, SkipReserved(t) PROVE LocalInv'
    <2>1. PICK v \in nextid[t]..(nextid[t] + Cardinality(reserved)) :
            v \notin reserved /\ nextid' = [nextid EXCEPT ![t] = v]
      BY <1>12 DEF SkipReserved, FirstUnreserved
    <2>2. v \in Nat
      BY <1>12, <2>1, ScanBound DEF SkipReserved
    <2>3. QED
      BY <1>12, <2>1, <2>2 DEF SkipReserved
  <1>6. ASSUME NEW t \in Tasks, Driver(t) PROVE LocalInv'
    BY <1>6 DEF Driver, Prepare, PostBuild, PostRefused, BuildSeen, WaitRaises,
                Configure, StartGuest
  <1>7. ASSUME NEW t \in Tasks, Release(t) PROVE LocalInv'
    BY <1>7 DEF Release
  <1>8. ASSUME NEW t \in Tasks, BuildOk(t) \/ BuildFails(t) PROVE LocalInv'
    BY <1>8 DEF BuildOk, BuildFails
  <1>9. ASSUME NEW v \in Vmids, ForeignCreate(v) \/ ForeignDelete(v) PROVE LocalInv'
    BY <1>9 DEF ForeignCreate, ForeignDelete
  <1>10. CASE Restart
    BY <1>10 DEF Restart, InFlight
  <1>11. CASE UNCHANGED vars
    BY <1>11 DEF vars
  <1>13. QED
    BY <1>1, <1>2, <1>3, <1>4, <1>5, <1>6, <1>7, <1>8, <1>9, <1>10, <1>11, <1>12
       DEF Next, Allocation

-----------------------------------------------------------------------------

\* Apart from a reservation, a release and a restart, no step touches who
\* holds which id.
LEMMA QuietSteps ==
  ASSUME TypeOK, LocalInv, [Next]_vars
  PROVE  \/ Quiet
         \/ \E t \in Tasks : ReserveNext(t) \/ Release(t)
         \/ Restart
  <1> USE DEF TypeOK, LocalInv, Critical, Quiet, Holds, Holding, Peeked, InTry, Goto, Abort, Leave, local
  <1>1. ASSUME NEW t \in Tasks, BeginExplicit(t) \/ BeginAllocating(t) PROVE Quiet
    BY <1>1 DEF BeginExplicit, BeginAllocating
  <1>2. ASSUME NEW t \in Tasks,
               TakeMutex(t) \/ ReadNextId(t) \/ NextIdFails(t) \/ SkipReserved(t)
        PROVE  Quiet
    BY <1>2 DEF TakeMutex, ReadNextId, NextIdFails, SkipReserved
  <1>3. ASSUME NEW t \in Tasks, Driver(t) PROVE Quiet
    BY <1>3 DEF Driver, Prepare, PostBuild, PostRefused, BuildSeen, WaitRaises,
                Configure, StartGuest
  <1>4. ASSUME NEW t \in Tasks, BuildOk(t) \/ BuildFails(t) PROVE Quiet
    BY <1>4 DEF BuildOk, BuildFails
  <1>5. ASSUME NEW v \in Vmids, ForeignCreate(v) \/ ForeignDelete(v) PROVE Quiet
    BY <1>5 DEF ForeignCreate, ForeignDelete
  <1>6. CASE UNCHANGED vars
    BY <1>6 DEF vars
  <1>7. QED
    BY <1>1, <1>2, <1>3, <1>4, <1>5, <1>6 DEF Next, Allocation

\* What a reservation does: its call held nothing, and now holds an id that
\* no reservation covered.
LEMMA Reservation ==
  ASSUME TypeOK, LocalInv, NEW t \in Tasks, ReserveNext(t)
  PROVE  /\ ~Holds(t) /\ Holds(t)'
         /\ vmid'[t] \in Nat \ reserved
         /\ reserved' = reserved \cup {vmid'[t]}
         /\ \A u \in Tasks \ {t} : Holds(u)' = Holds(u) /\ vmid'[u] = vmid[u]
  BY DEF ReserveNext, TypeOK, LocalInv, Critical, Holds, Holding, Peeked, InTry, Goto

\* What a release does: it ends the lease of its own call and no other.
LEMMA Releasing ==
  ASSUME TypeOK, LocalInv, NEW t \in Tasks, Release(t)
  PROVE  /\ Holds(t) /\ ~Holds(t)' /\ vmid[t] \in Nat
         /\ reserved' = reserved \ {vmid[t]}
         /\ \A u \in Tasks \ {t} : Holds(u)' = Holds(u)
         /\ vmid' = vmid
  BY DEF Release, TypeOK, LocalInv, Holds, Holding, Peeked, InTry, Goto, local

\* A restart ends every lease.
LEMMA Restarting == Restart => reserved' = {} /\ \A t \in Tasks : ~Holds(t)'
  BY DEF Restart, InFlight, Holds, Holding, Peeked, InTry

\* The leases stay exclusive and the reservation set stays exact.
LEMMA LeaseStep ==
  IInv /\ [Next]_vars => ExclusiveIds' /\ ReservationsAccounted'
  <1> SUFFICES ASSUME IInv, [Next]_vars
               PROVE  ExclusiveIds' /\ ReservationsAccounted'
    OBVIOUS
  <1> USE DEF IInv, ExclusiveIds, ReservationsAccounted
  <1>1. CASE Quiet
    BY <1>1 DEF Quiet
  <1>2. ASSUME NEW t \in Tasks, ReserveNext(t)
        PROVE  ExclusiveIds' /\ ReservationsAccounted'
    <2>1. \A u \in Tasks \ {t} : Holds(u) => vmid'[u] # vmid'[t]
      BY <1>2, Reservation
    <2>2. ExclusiveIds'
      BY <1>2, <2>1, Reservation
    <2>3. ReservationsAccounted'
      BY <1>2, Reservation
    <2>4. QED
      BY <2>2, <2>3
  <1>3. ASSUME NEW t \in Tasks, Release(t)
        PROVE  ExclusiveIds' /\ ReservationsAccounted'
    BY <1>3, Releasing
  <1>4. CASE Restart
    BY <1>4, Restarting
  <1>5. QED
    BY <1>1, <1>2, <1>3, <1>4, QuietSteps

\* The invariant is inductive.
LEMMA IInvStep == IInv /\ [Next]_vars => IInv'
  BY TypeStep, MutexStep, LocalStep, LeaseStep DEF IInv

\* It holds in every state the allocator reaches.
LEMMA Invariance == Spec => []IInv
  BY InitIInv, IInvStep, PTL DEF Spec

\* The values of the allocator's state are always the ones the code can hold.
THEOREM TypeCorrect == Spec => []TypeOK
  BY Invariance, PTL DEF IInv

\* No two calls ever hold the same allocated id: race-free allocation, for any
\* number of concurrent drivers, endpoint calls, failures and restarts.
THEOREM Exclusive == Spec => []ExclusiveIds
  BY Invariance, PTL DEF IInv

\* A reservation is never dropped by another call and never outlives, on any
\* path of a driver, the call that made it.
THEOREM Accounted == Spec => []ReservationsAccounted
  BY Invariance, PTL DEF IInv

-----------------------------------------------------------------------------

\* The allocator starts with no lease granted.
LEMMA LeaseInit == Init => Lease!Init
  BY DEF Init, Lease!Init, Holds, Holding, Peeked, InTry

\* The lease function under the refinement mapping.
LeaseOf == [t \in Tasks |-> IF Holds(t) THEN vmid[t] ELSE NoVmid]

\* Every step of the allocator is a step of the lease specification or leaves
\* every lease alone.
LEMMA LeaseNext == IInv /\ [Next]_vars => [Lease!Next]_LeaseOf
  <1> SUFFICES ASSUME IInv, [Next]_vars PROVE Lease!Next \/ LeaseOf' = LeaseOf
    BY DEF LeaseOf
  <1> USE DEF IInv, LeaseOf
  <1>1. CASE Quiet
    BY <1>1 DEF Quiet
  <1>2. ASSUME NEW t \in Tasks, ReserveNext(t) PROVE Lease!Next
    <2>1. LeaseOf[t] = NoVmid /\ LeaseOf'[t] = vmid'[t] /\ LeaseOf'[t] \in Nat
      BY <1>2, Reservation
    <2>2. LeaseOf' = [LeaseOf EXCEPT ![t] = LeaseOf'[t]]
      BY <1>2, Reservation
    <2>3. \A u \in Tasks : LeaseOf[u] # LeaseOf'[t]
      BY <1>2, <2>1, Reservation, NamesAssumption DEF ReservationsAccounted
    <2>4. Lease!Grant(t)
      BY <2>1, <2>2, <2>3 DEF Lease!Grant, Lease!Free
    <2>5. QED
      BY <2>4 DEF Lease!Next
  <1>3. ASSUME NEW t \in Tasks, Release(t) PROVE Lease!Next
    <2>1. LeaseOf[t] # NoVmid
      BY <1>3, Releasing, NamesAssumption
    <2>2. LeaseOf' = [LeaseOf EXCEPT ![t] = NoVmid]
      BY <1>3, Releasing
    <2>3. QED
      BY <2>1, <2>2 DEF Lease!Next, Lease!GiveBack
  <1>4. CASE Restart
    BY <1>4, Restarting DEF Lease!Next, Lease!Reset
  <1>5. QED
    BY <1>1, <1>2, <1>3, <1>4, QuietSteps

\* The allocator, mutex, scan, failures and restarts included, implements the
\* exclusive leases of VmidLease.
THEOREM ImplementsLease == Spec => LeaseSpec
  <1>1. IInv /\ [Next]_vars => [Lease!Next]_[t \in Tasks |-> IF Holds(t) THEN vmid[t] ELSE NoVmid]
    BY LeaseNext DEF LeaseOf
  <1>2. QED
    BY LeaseInit, <1>1, Invariance, PTL DEF Spec, LeaseSpec, Lease!Spec

-----------------------------------------------------------------------------

\* A guest belongs to the call whose build made it: while the build runs,
\* because Proxmox locks it, and after that until somebody else deletes it.
BuiltInv ==
  \A t \in Tasks :
    /\ upid[t] = "running" => vmid[t] \in Vmids /\ owner[vmid[t]] = t
    /\ upid[t] = "ok" => vmid[t] \in Vmids /\ (owner[vmid[t]] = t \/ vmid[t] \in gone)
    /\ pc[t] \in {"new", "lock", "prepare", "post"} \cup Critical => upid[t] = "none"
    /\ pc[t] \in {"configure", "start"} => upid[t] = "ok"
    /\ outcome[t] = "ok" => upid[t] = "ok" /\ pc[t] \in {"release", "done"}

\* BuiltInv is kept by every step, also by those of other people.
LEMMA BuiltStep == TypeOK /\ LocalInv /\ BuiltInv /\ [Next]_vars => BuiltInv'
  <1> SUFFICES ASSUME TypeOK, LocalInv, BuiltInv, [Next]_vars PROVE BuiltInv'
    OBVIOUS
  <1> USE DEF TypeOK, BuiltInv, Critical, Goto, Abort, Leave, local, proxmox
  <1>1. ASSUME NEW t \in Tasks, BeginExplicit(t) \/ BeginAllocating(t) PROVE BuiltInv'
    BY <1>1 DEF BeginExplicit, BeginAllocating
  <1>2. ASSUME NEW t \in Tasks, Allocation(t) PROVE BuiltInv'
    BY <1>2 DEF Allocation, TakeMutex, ReadNextId, NextIdFails, SkipReserved, ReserveNext
  <1>3. ASSUME NEW t \in Tasks, PostBuild(t) PROVE BuiltInv'
    BY <1>3, NamesAssumption DEF PostBuild
  <1>4. ASSUME NEW t \in Tasks, Prepare(t) \/ PostRefused(t) \/ BuildSeen(t) PROVE BuiltInv'
    BY <1>4 DEF Prepare, PostRefused, BuildSeen
  <1>5. ASSUME NEW t \in Tasks, WaitRaises(t) \/ Configure(t) \/ StartGuest(t) PROVE BuiltInv'
    BY <1>5 DEF WaitRaises, Configure, StartGuest
  <1>6. ASSUME NEW t \in Tasks, Release(t) PROVE BuiltInv'
    BY <1>6 DEF Release
  <1>7. ASSUME NEW t \in Tasks, BuildOk(t) \/ BuildFails(t) PROVE BuiltInv'
    BY <1>7 DEF BuildOk, BuildFails
  <1>8. ASSUME NEW v \in Vmids, ForeignCreate(v) \/ ForeignDelete(v) PROVE BuiltInv'
    BY <1>8, NamesAssumption DEF ForeignCreate, ForeignDelete, BeingBuilt
  <1>9. CASE Restart
    BY <1>9 DEF Restart, InFlight
  <1>10. CASE UNCHANGED vars
    BY <1>10 DEF vars
  <1>11. QED
    BY <1>1, <1>2, <1>3, <1>4, <1>5, <1>6, <1>7, <1>8, <1>9, <1>10 DEF Next, Driver

\* A driver reports success only for a guest its own build made, also when
\* callers name the same VMID explicitly: Proxmox lets one build register it
\* and the loser of the race raises.
THEOREM OwnGuest == Spec => []SuccessIsOwnGuest
  <1>1. Init => BuiltInv
    BY DEF Init, BuiltInv
  <1>2. IInv /\ BuiltInv /\ [Next]_vars => BuiltInv'
    BY BuiltStep DEF IInv
  <1>3. BuiltInv => SuccessIsOwnGuest
    BY DEF BuiltInv, SuccessIsOwnGuest
  <1>4. QED
    BY <1>1, <1>2, <1>3, Invariance, PTL DEF Spec
=============================================================================
