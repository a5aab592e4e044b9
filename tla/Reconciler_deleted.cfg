SPECIFICATION Spec
CONSTANTS
  Recs = {r1}
  DefaultNamed = {}
  Hooks = {h1}
  Sweeper = sweeper
  NoRec = NoRec
  LastVmid = 2
  Statuses = {"active", "offline", "decommissioning"}
  Specs = {s1}
  Disks = {1}
  MaxEdits = 2
  MaxFaults = 0
  Deletes = TRUE
  OutsideDeletes = FALSE
  ReadFaults = FALSE
  Interrupts = FALSE
  NoRecord = NoRecord
  NoGuest = NoGuest
  NoVmid = NoVmid
PROPERTY DeletedStaysGone
