SPECIFICATION TSpec
CONSTANTS
  Recs = {r1}
  DefaultNamed = {}
  Hooks = {h1}
  LastVmid = 1
  Sweeper = Sweeper
  NoRec = NoRec
  NoRecord = NoRecord
  NoGuest = NoGuest
  NoVmid = NoVmid
  Statuses = {"active", "offline"}
  Specs = {s1}
  Disks = {1}
  MaxEdits = 1
  MaxFaults = 0
  Deletes = FALSE
  OutsideDeletes = FALSE
  ReadFaults = FALSE
  Interrupts = FALSE
PROPERTY HealsDrift
