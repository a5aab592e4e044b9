SPECIFICATION Spec
CONSTANTS
  Tasks = {t1, t2}
  Modes = {"auto", "explicit", "peek"}
  FirstVmid = 1
  LastVmid = 2
  NoTask = NoTask
  Foreign = Foreign
  NoVmid = NoVmid
INVARIANTS TypeOK ExclusiveIds ReservationsAccounted SuccessIsOwnGuest
PROPERTIES LeaseSpec ReservationsReturned
CHECK_DEADLOCK FALSE
