---------------------------- MODULE WorkloadDelta ----------------------------
(***************************************************************************)
(* The pure core of app/workers/reconciler.py, compute_workload_delta, and *)
(* what the Proxmox and NetBox drivers make of its verdict.                *)
(*                                                                         *)
(* A record is what NetBox declares: [status, tagged, vmid, name, spec,    *)
(* disk].  A guest is what Proxmox holds under a VMID: [name, power,       *)
(* onboot, spec, disk, ...].  spec stands for cores and memory, which are  *)
(* compared and written alike; tagged for the `decommissioned` tag.        *)
(***************************************************************************)
EXTENDS Naturals

CONSTANTS NoRecord,  \* there is no such record in NetBox
          NoGuest,   \* Proxmox has no such guest
          NoVmid     \* the record is not linked to a VMID

UpStatuses       == {"active", "running"}
DownStatuses     == {"offline", "stopped"}
RetiringStatuses == {"decommissioning", "deprovisioning"}
WantedStatuses   == {"active", "staged"}

Retiring(d) == d.status \in RetiringStatuses \/ d.tagged

\* The power transition, and the start-on-boot flag that goes with it.
PowerChange(d, g) ==
  IF d.status \in UpStatuses /\ g.power # "running" THEN "start"
  ELSE IF d.status \in DownStatuses /\ g.power = "running" THEN "stop"
  ELSE "keep"

BootChange(d, g) ==
  IF d.status \in UpStatuses /\ (g.power # "running" \/ ~g.onboot) THEN "on"
  ELSE IF d.status \in DownStatuses /\ (g.power = "running" \/ g.onboot) THEN "off"
  ELSE "keep"

\* Disks only grow; a size Proxmox does not report (0) is left alone.
ConfigChanges(d, g) ==
  {f \in {"name", "spec"} : d[f] # g[f]}
    \cup {f \in {"disk"} : d.disk > g.disk /\ g.disk > 0}

Drifted(d, g) ==
  PowerChange(d, g) # "keep" \/ BootChange(d, g) # "keep" \/ ConfigChanges(d, g) # {}

Actions == {"noop", "purge", "decommission", "provision", "adopt", "reconcile"}

\* Mutant: a retiring workload is purged instead of quarantined.
ActionPurging(d, g, event) ==
  CASE d = NoRecord \/ event = "deleted" -> IF g = NoGuest THEN "noop" ELSE "purge"
    [] OTHER -> IF g = NoGuest THEN (IF d.status \in WantedStatuses THEN "provision" ELSE "noop")
                ELSE IF Retiring(d) THEN "purge" ELSE "adopt"

\* compute_workload_delta: the first case that applies decides.
Action(d, g, event) ==
  CASE d = NoRecord \/ event = "deleted" -> IF g = NoGuest THEN "noop" ELSE "purge"
    [] OTHER ->
       CASE Retiring(d) -> IF g = NoGuest \/ d.tagged THEN "noop" ELSE "decommission"
         [] ~Retiring(d) /\ g = NoGuest ->
              IF d.status \in WantedStatuses THEN "provision" ELSE "noop"
         [] ~Retiring(d) /\ g # NoGuest ->
              IF d.vmid = NoVmid THEN "adopt"
              ELSE IF Drifted(d, g) THEN "reconcile" ELSE "noop"

\* Mutant: a boot flag on its own is no reason to write.
NeedsConfigNoBoot(d, g) == ConfigChanges(d, g) # {}

\* After the power transition _apply_reconcile_transitions aligns the rest of
\* the configuration, unless the transition was all there was.
NeedsConfig(d, g) ==
  \/ ConfigChanges(d, g) # {}
  \/ BootChange(d, g) # "keep" /\ PowerChange(d, g) = "keep"

-----------------------------------------------------------------------------
(* The dispatcher's snapshot filter: extract_vm_deltas and Guard 4.         *)

Linked(pre, post) == pre.vmid = NoVmid /\ post.vmid # NoVmid

\* The webhook of a change reaches the engine unless it links the record (the
\* echo of a provisioning task) or touches neither status nor hardware.
Passes(pre, post) ==
  ~Linked(pre, post) /\ \E f \in {"status", "name", "spec", "disk"} : pre[f] # post[f]

-----------------------------------------------------------------------------
(* Drivers.  Changed(op, d, g) is the guest a call leaves when every request *)
(* in it succeeds; Partial(op) the sets of fields that may have been written *)
(* when one does not: most errors are swallowed and the call goes on.        *)

\* After the power transition the configuration follows the declared status.
EffectiveOnboot(d) == d.status \notin DownStatuses

Started(g)       == [g EXCEPT !.power = "running", !.onboot = TRUE]
Stopped(g)       == [g EXCEPT !.power = "stopped", !.onboot = FALSE]
Configured(d, g) ==
  [g EXCEPT !.name = d.name, !.spec = d.spec, !.onboot = EffectiveOnboot(d),
            !.disk = IF d.disk > @ /\ @ > 0 THEN d.disk ELSE @]

Changed(op, d, g) ==
  CASE op = "start" -> Started(g)
    [] op \in {"stop", "quarantine"} -> Stopped(g)
    [] op = "config" -> Configured(d, g)

Partial(op) ==
  IF op = "config" THEN {{}, {"disk"}, {"name", "spec", "onboot"}}
  ELSE SUBSET {"power", "onboot"}

\* Every guest the call may leave behind when one of its requests fails.
Interrupted(op, d, g) ==
  {[f \in DOMAIN g |-> IF f \in done THEN Changed(op, d, g)[f] ELSE g[f]] : done \in Partial(op)}
=============================================================================
