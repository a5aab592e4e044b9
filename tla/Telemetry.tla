------------------------------ MODULE Telemetry ------------------------------
(***************************************************************************)
(* app/drivers/metrics_sync.py beside the reconciliation engine: the       *)
(* telemetry pass reads the guests and the records and writes the records, *)
(* their status among them, without the engine's locks.  Its webhooks go   *)
(* through the dispatcher's filter like any others.                        *)
(***************************************************************************)
EXTENDS Reconciler

VARIABLE probe  \* the telemetry pass: what it has seen, what it has listed

Resting == [phase |-> "idle", seen |-> [v \in Vmids |-> NoGuest], listed |-> [r \in Recs |-> NoRecord]]

TInit == Init /\ probe = Resting

Unmoved == UNCHANGED <<guest, job, todo, stray, recent, edits>>

\* fetch_proxmox_telemetry asks for all guests at once and then, in a thread, for
\* the history of each; when the first question fails there is no pass.
Observe ==
  /\ probe.phase = "idle"
  /\ probe' = [Resting EXCEPT !.phase = "list", !.seen = guest]
  /\ Works /\ Unmoved /\ UNCHANGED <<record, pending>>

\* NetBox lists its machines once.
ListMachines ==
  /\ probe.phase = "list"
  /\ \/ Works /\ probe' = [probe EXCEPT !.phase = "write", !.listed = record]
     \/ Fails /\ probe' = Resting
  /\ Unmoved /\ UNCHANGED <<record, pending>>

\* By VMID first, or else by name; a guest that is being cloned may have none yet.
Matching(v) ==
  LET listed == {r \in Recs : probe.listed[r] # NoRecord}
      linked == {r \in listed : probe.listed[r].vmid = v}
  IN  IF linked # {} THEN linked ELSE {r \in listed : probe.listed[r].name = probe.seen[v].name}

Kept == {"decommissioning", "staged", "pending"}

Observed(g) == IF g.power = "running" THEN "active" ELSE "offline"

\* The PATCH carries a status that differs from the listed one, and a VMID if the
\* listing had none; d is what the record says when it arrives.
Measured(d, was, v) ==
  LET power == Observed(probe.seen[v]) IN
  [d EXCEPT !.status = IF was.status \in Kept \/ power = was.status THEN @ ELSE power,
            !.vmid = IF was.vmid = NoVmid THEN v ELSE @]

Ticked(v) ==
  probe' = LET left == [probe.seen EXCEPT ![v] = NoGuest] IN
           IF \A w \in Vmids : left[w] = NoGuest THEN Resting ELSE [probe EXCEPT !.seen = left]

\* One guest is written to NetBox, or has no record there.
Measure(v) ==
  /\ probe.phase = "write" /\ probe.seen[v] # NoGuest
  /\ \/ \E r \in Matching(v) :
          /\ WriteRecord(r, Measured(record[r], probe.listed[r], v))
          /\ Echo(r)
     \/ /\ Matching(v) = {} \/ probe.seen[v].building
        /\ Works /\ UNCHANGED <<record, pending>>
  /\ Ticked(v) /\ Unmoved

Nothing == \A v \in Vmids : probe.seen[v] = NoGuest

\* The pass ends, is cancelled after 180 s, or fails: a PATCH that raises ends it.
Rest ==
  /\ probe.phase = "write" /\ (IF Nothing THEN Works ELSE Fails)
  /\ probe' = Resting
  /\ Unmoved /\ UNCHANGED <<record, pending>>

TelemetryStep == Observe \/ ListMachines \/ (\E v \in Vmids : Measure(v)) \/ Rest

TNext ==
  \/ Next /\ probe' = IF Restart THEN Resting ELSE probe
  \/ TelemetryStep

tvars == <<vars, probe>>

\* The telemetry's task runs again and again, as the engine's do.
TSpec ==
  /\ TInit /\ [][TNext]_tvars
  /\ Fairness /\ WF_tvars(TelemetryStep)

-----------------------------------------------------------------------------

Stalled(r, v) ==
  /\ edits = MaxEdits /\ Usable(v) /\ guest[v].power = "stopped"
  /\ record[r] # NoRecord /\ record[r].vmid = v /\ record[r].status = "active" /\ ~record[r].tagged

\* A guest that is not in the power state its record declares is brought into
\* it, once people are done (config.example.yml, "Periodically heals silent drift,
\* recovers from dropped webhooks").
HealsDrift == \A r \in Recs, v \in Vmids : Stalled(r, v) ~> (Usable(v) => guest[v].power = "running")
=============================================================================
