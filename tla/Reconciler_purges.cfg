SPECIFICATION Spec
CONSTANTS
  Recs = {r1}
  DefaultNamed = {r1}
  Hooks = {h1}
  Sweeper = sweeper
  NoRec = NoRec
  LastVmid = 2
  Statuses = {"active", "offline", "decommissioning"}
  Specs = {s1}
  Disks = {1}
  MaxEdits = 2
  MaxFaults = 1
  Deletes = FALSE
  OutsideDeletes = FALSE
  ReadFaults = TRUE
  Interrupts = FALSE
  NoRecord = NoRecord
  NoGuest = NoGuest
  NoVmid = NoVmid
INVARIANT PurgeOnlyDeleted
