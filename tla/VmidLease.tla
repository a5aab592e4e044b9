------------------------------ MODULE VmidLease ------------------------------
(***************************************************************************)
(* What the VMID allocator promises its callers, whatever the locking and  *)
(* the Proxmox calls behind it: an exclusive lease on an id.  A lease is   *)
(* granted on an id nobody else holds, never changes, and ends only when   *)
(* its holder gives it back or when the whole process restarts.            *)
(***************************************************************************)
EXTENDS Naturals

CONSTANTS Tasks,    \* the callers that may ask for an id
          NoVmid    \* "holds no lease"

VARIABLE lease      \* lease[t]: the id t holds, or NoVmid

Free(v) == \A t \in Tasks : lease[t] # v

Init == lease = [t \in Tasks |-> NoVmid]

Grant(t) ==
  /\ lease[t] = NoVmid
  /\ lease'[t] \in Nat /\ Free(lease'[t])
  /\ lease' = [lease EXCEPT ![t] = lease'[t]]

GiveBack(t) ==
  /\ lease[t] # NoVmid
  /\ lease' = [lease EXCEPT ![t] = NoVmid]

\* The reservations live in process memory: a restart forgets them together.
Reset == lease' = [t \in Tasks |-> NoVmid]

Next == Reset \/ \E t \in Tasks : Grant(t) \/ GiveBack(t)

Spec == Init /\ [][Next]_lease
=============================================================================
