SPECIFICATION Spec
CONSTANTS
  Recs = {r1}
  DefaultNamed = {}
  Hooks = {h1, h2}
  Sweeper = sweeper
  NoRec = NoRec
  LastVmid = 2
  Statuses = {"active", "decommissioning"}
  Specs = {s1}
  Disks = {1}
  MaxEdits = 2
  MaxFaults = 1
  Deletes = TRUE
  OutsideDeletes = TRUE
  ReadFaults = TRUE
  Interrupts = TRUE
  NoRecord = NoRecord
  NoGuest = NoGuest
  NoVmid = NoVmid
SYMMETRY Symmetry
INVARIANTS TypeOK PurgeOnlyDeleted
