-------------------------- MODULE Telemetry_proofs --------------------------
(***************************************************************************)
(* What of the engine's safety survives a telemetry pass that writes the   *)
(* engine's own records and takes none of its locks, for every set of      *)
(* records, coroutines, VMIDs and statuses and every bound.                *)
(***************************************************************************)
EXTENDS Telemetry, ReconcilerGuests_proofs

\* NetBox knows the status the telemetry writes of a guest that is not running.
Reports == "offline" \in Statuses

Probes == [phase : {"idle", "list", "write"}, seen : [Vmids -> Guests \cup {NoGuest}],
           listed : [Recs -> Records \cup {NoRecord}]]

ProbeInv == probe \in Probes

TShape == Shape /\ ProbeInv

\* A step that only looks leaves the engine as it is.
Looks == Unmoved /\ UNCHANGED <<record, pending>> /\ (Works \/ Fails)

\* A step is the engine's, only looks, or writes a measurement.
LEMMA TelemetryMoves ==
  ASSUME [TNext]_tvars
  PROVE  \/ [Next]_vars
         \/ Looks
         \/ \E v \in Vmids : Measure(v)
<1>1. CASE UNCHANGED tvars
  BY <1>1 DEF tvars, vars
<1>2. CASE Observe \/ ListMachines \/ Rest
  BY <1>2 DEF Observe, ListMachines, Rest, Looks
<1> QED
  BY <1>1, <1>2 DEF TNext, TelemetryStep

LEMMA MeasuredFacts ==
  ASSUME Reports, NEW d \in Records, NEW was, NEW v \in Vmids
  PROVE  Measured(d, was, v) \in Records /\ Measured(d, was, v).tagged = d.tagged
<1> DEFINE s == Observed(probe.seen[v])
<1>1. s \in Statuses \cup {"active", "decommissioning"}
  BY DEF Observed, Reports
<1> HIDE DEF s
<1>2. PICK x \in Statuses \cup {"active", "decommissioning"}, w \in Vmids \cup {NoVmid} :
        Measured(d, was, v) = [d EXCEPT !.status = x, !.vmid = w]
  <2>1. d.status \in Statuses \cup {"active", "decommissioning"} /\ d.vmid \in Vmids \cup {NoVmid}
    BY DEF Records
  <2>2. Measured(d, was, v) = [d EXCEPT !.status = IF was.status \in Kept \/ s = was.status THEN d.status ELSE s,
                                        !.vmid = IF was.vmid = NoVmid THEN v ELSE d.vmid]
    BY DEF Measured, s, Records
  <2> QED
    BY <1>1, <2>1, <2>2
<1> QED
  BY <1>2 DEF Records

\* One measurement writes at most one record of those that exist, and its tag stays.
LEMMA MeasureWrites ==
  ASSUME Assumed, Reports, TShape, NEW v \in Vmids, Measure(v)
  PROVE  /\ record' \in [Recs -> Records \cup {NoRecord}]
         /\ \A r \in Recs : record'[r] = NoRecord <=> record[r] = NoRecord
         /\ \A r \in Recs : record[r] # NoRecord => record'[r].tagged = record[r].tagged
         /\ pending' \subseteq Payloads /\ \A e \in pending' : e \in pending \/ e.event # "deleted"
         /\ faults' \in 0..MaxFaults
         /\ UNCHANGED <<guest, job, todo, stray, recent, edits>>
<1>1. UNCHANGED <<guest, job, todo, stray, recent, edits>>
  BY DEF Measure, Unmoved
<1>2. ASSUME NEW r \in Matching(v), WriteRecord(r, Measured(record[r], probe.listed[r], v)), Echo(r)
      PROVE  /\ record' \in [Recs -> Records \cup {NoRecord}]
             /\ \A q \in Recs : record'[q] = NoRecord <=> record[q] = NoRecord
             /\ \A q \in Recs : record[q] # NoRecord => record'[q].tagged = record[q].tagged
             /\ pending' \subseteq Payloads /\ \A e \in pending' : e \in pending \/ e.event # "deleted"
             /\ faults' \in 0..MaxFaults
  <2> DEFINE d == Measured(record[r], probe.listed[r], v)
  <2>1. r \in Recs /\ record \in [Recs -> Records \cup {NoRecord}] /\ NoRecord \notin Records
    BY DEF Matching, TShape, Shape, StoresInv, Assumed, NamesAssumption
  <2>2. record[r] # NoRecord => d \in Records /\ d.tagged = record[r].tagged
    BY <2>1, MeasuredFacts
  <2> HIDE DEF d
  <2>3. WriteRecord(r, d)
    BY <1>2 DEF d
  <2>4. record' \in [Recs -> Records \cup {NoRecord}] /\ faults' \in 0..MaxFaults
    BY <2>1, <2>2, <2>3, WriteKeeps DEF TShape, Shape
  <2>5. record' = record \/ (record[r] # NoRecord /\ record' = [record EXCEPT ![r] = d])
    BY <2>3 DEF WriteRecord
  <2>6. pending' \subseteq Payloads /\ \A e \in pending' : e \in pending \/ e.event # "deleted"
    BY <1>2, <2>1, <2>4, EchoKeeps DEF TShape, Shape
  <2>7. /\ \A q \in Recs : record'[q] = NoRecord <=> record[q] = NoRecord
        /\ \A q \in Recs : record[q] # NoRecord => record'[q].tagged = record[q].tagged
    BY <2>1, <2>2, <2>5
  <2> QED
    BY <2>4, <2>6, <2>7
<1>3. CASE Works /\ UNCHANGED <<record, pending>>
  BY <1>1, <1>3 DEF Works, TShape, Shape, StoresInv
<1> QED
  BY <1>1, <1>2, <1>3 DEF Measure

-----------------------------------------------------------------------------
(* Types *)

LEMMA InitTShape == ASSUME Assumed, Reports, TInit PROVE TShape
<1>1. Shape
  BY InitShape DEF TInit
<1>2. ProbeInv
  BY DEF TInit, ProbeInv, Probes, Resting
<1> QED
  BY <1>1, <1>2 DEF TShape

\* The engine's variables keep their shape if only NetBox and the webhooks change.
LEMMA RecordsKept ==
  ASSUME Shape, UNCHANGED <<guest, job, todo, stray, recent, edits>>,
         record' \in [Recs -> Records \cup {NoRecord}], pending' \subseteq Payloads, faults' \in 0..MaxFaults
  PROVE  Shape'
<1>1. StoresInv'
  BY DEF Shape, StoresInv
<1>2. JobsInv' /\ CloneInv'
  BY DEF Shape, JobsInv, WellFormed, CloneInv, Cloning, Running, Exists
<1> QED
  BY <1>1, <1>2 DEF Shape

LEMMA ProbeKept == ASSUME Assumed, TShape, [TNext]_tvars PROVE ProbeInv'
<1>1. Resting \in Probes
  BY DEF Resting, Probes
<1>2. CASE probe' \in {probe, Resting}
  BY <1>1, <1>2 DEF ProbeInv, TShape, Probes, Vmids, Guests, Power, Records
<1>3. CASE Observe
  BY <1>1, <1>3 DEF Observe, ProbeInv, TShape, Shape, StoresInv, Probes, Vmids, Guests, Power, Records
<1>4. CASE probe' = [probe EXCEPT !.phase = "write", !.listed = record]
  BY <1>4 DEF ProbeInv, TShape, Shape, StoresInv, Probes, Vmids, Guests, Power, Records
<1>5. ASSUME NEW v \in Vmids, Measure(v) PROVE ProbeInv'
  <2> DEFINE left == [probe.seen EXCEPT ![v] = NoGuest]
  <2>1. left \in [Vmids -> Guests \cup {NoGuest}]
    BY DEF TShape, ProbeInv, Probes
  <2>2. probe' = Resting \/ probe' = [probe EXCEPT !.seen = left]
    BY <1>5 DEF Measure, Ticked
  <2> HIDE DEF left
  <2>3. CASE probe' = [probe EXCEPT !.seen = left]
    BY <2>1, <2>3 DEF TShape, ProbeInv, Probes, Vmids, Guests, Power, Records
  <2> QED
    BY <1>2, <2>2, <2>3
<1> QED
  BY <1>2, <1>3, <1>4, <1>5 DEF TNext, TelemetryStep, ListMachines, Rest, tvars

LEMMA NextTShape == ASSUME Assumed, Reports, TShape, [TNext]_tvars PROVE TShape'
<1>1. Shape'
  <2>1. CASE [Next]_vars
    BY <2>1, NextShape DEF TShape
  <2>2. CASE Looks
    <3>1. faults' \in 0..MaxFaults
      BY <2>2 DEF Looks, Works, Fails, TShape, Shape, StoresInv, Assumed, SizesAssumption
    <3> QED
      BY <2>2, <3>1, RecordsKept DEF Looks, Unmoved, TShape, Shape, StoresInv
  <2>3. ASSUME NEW v \in Vmids, Measure(v) PROVE Shape'
    BY <2>3, MeasureWrites, RecordsKept DEF TShape
  <2> QED
    BY <2>1, <2>2, <2>3, TelemetryMoves
<1> QED
  BY <1>1, ProbeKept DEF TShape

LEMMA TShapeAlways == ASSUME Reports PROVE TSpec => []TShape
<1>1. Assumed
  BY FlagsAssumption, SizesAssumption, NamesAssumption DEF Assumed
<1>2. TInit => TShape
  BY <1>1, InitTShape
<1>3. TShape /\ [TNext]_tvars => TShape'
  BY <1>1, NextTShape
<1> QED
  BY <1>2, <1>3, PTL DEF TSpec

\* The types of the engine and of the telemetry's pass.
THEOREM TelemetryTyped == ASSUME Reports PROVE TSpec => [](TypeOK /\ ProbeInv)
<1>1. TShape => TypeOK /\ ProbeInv
  BY DEF TShape, Shape, StoresInv, JobsInv, WellFormed, TypeOK
<1> QED
  BY <1>1, TShapeAlways, PTL

-----------------------------------------------------------------------------
(* The engine's lock, its purge and its quarantine *)

LEMMA LooksKeeps ==
  ASSUME Looks
  PROVE  /\ LockInv => LockInv'
         /\ DeletedInv => DeletedInv'
         /\ QuarInv => QuarInv'
BY DEF Looks, Unmoved, LockInv, Working, DeletedInv, Running, QuarInv, Tagged

LEMMA MeasureKeeps ==
  ASSUME Assumed, Reports, TShape, NEW v \in Vmids, Measure(v)
  PROVE  /\ LockInv => LockInv'
         /\ DeletedInv => DeletedInv'
         /\ QuarInv => QuarInv'
<1>1. /\ UNCHANGED <<job, todo, stray>>
      /\ \A r \in Recs : record'[r] = NoRecord <=> record[r] = NoRecord
      /\ \A r \in Recs : record[r] # NoRecord => record'[r].tagged = record[r].tagged
      /\ \A e \in pending' : e \in pending \/ e.event # "deleted"
  BY MeasureWrites
<1>2. LockInv => LockInv'
  BY <1>1 DEF LockInv, Working
<1>3. DeletedInv => DeletedInv'
  <2>1. \A e \in pending : e.rec \in Recs
    BY DEF TShape, Shape, StoresInv, Payloads
  <2>2. Running' = Running
    BY <1>1 DEF Running
  <2> QED
    BY <1>1, <2>1, <2>2 DEF DeletedInv
<1>4. QuarInv => QuarInv'
  <2>1. \A t \in Tasks : Working(t) => job[t].rec \in Recs
    BY DEF TShape, Shape, JobsInv, WellFormed, Working
  <2> QED
    BY <1>1, <2>1 DEF QuarInv, Working, Tagged
<1> QED
  BY <1>2, <1>3, <1>4

\* The telemetry takes no lock of the engine and loses none for it: one job at a
\* time works for a workload.
THEOREM TelemetryOneJob == ASSUME Reports PROVE TSpec => []LockInv
<1>1. Assumed
  BY FlagsAssumption, SizesAssumption, NamesAssumption DEF Assumed
<1>2. TInit => LockInv
  BY DEF TInit, Init, LockInv, Working, Idle
<1>3. TShape /\ LockInv /\ [TNext]_tvars => LockInv'
  BY <1>1, TelemetryMoves, NextLock, LooksKeeps, MeasureKeeps DEF TShape
<1> QED
  BY <1>2, <1>3, TShapeAlways, PTL DEF TSpec

\* What the telemetry writes to a record makes nobody purge its guest: a measurement
\* neither deletes a record nor sends a webhook that says so.
THEOREM TelemetryPurgeSafe ==
  ASSUME Reports, DefaultNamed = {}
  PROVE  TSpec => []PurgeOnlyDeleted
<1>1. Assumed
  BY FlagsAssumption, SizesAssumption, NamesAssumption DEF Assumed
<1>2. TInit => DeletedInv
  BY IdleComes DEF TInit, Init, DeletedInv, Running, Idle
<1>3. TShape /\ DeletedInv /\ [TNext]_tvars => DeletedInv'
  BY <1>1, TelemetryMoves, NextDeleted, LooksKeeps, MeasureKeeps DEF TShape
<1>4. DeletedInv => PurgeOnlyDeleted
  BY DEF DeletedInv, PurgeOnlyDeleted
<1> QED
  BY <1>2, <1>3, <1>4, TShapeAlways, PTL DEF TSpec

\* The status the telemetry writes to a quarantined record starts no guest: an
\* operator's quarantine stands although the pass listed the record before it.
THEOREM TelemetryQuarantineStands ==
  ASSUME Reports, ~ReadFaults, ~Interrupts
  PROVE  TSpec => []NoStartUnderQuarantine
<1>1. Assumed
  BY FlagsAssumption, SizesAssumption, NamesAssumption DEF Assumed
<1>2. TInit => DeletedInv /\ QuarInv
  BY IdleComes DEF TInit, Init, DeletedInv, QuarInv, Running, Idle, Working
<1>3. TShape /\ DeletedInv /\ [TNext]_tvars => DeletedInv'
  BY <1>1, TelemetryMoves, NextDeleted, LooksKeeps, MeasureKeeps DEF TShape
<1>4. TShape /\ LockInv /\ DeletedInv /\ QuarInv /\ [TNext]_tvars => QuarInv'
  BY <1>1, TelemetryMoves, NextQuar, LooksKeeps, MeasureKeeps DEF TShape
<1>5. QuarInv => NoStartUnderQuarantine
  BY DEF QuarInv, NoStartUnderQuarantine, Running, Working, Tagged
<1> QED
  BY <1>2, <1>3, <1>4, <1>5, TShapeAlways, TelemetryOneJob, PTL DEF TSpec
=============================================================================
