SPECIFICATION Spec
CONSTANTS
  Fqdns = {f1, f2}
  NameOf <- OwnNames
  Targets = {t1}
  Scheduler = scheduler
  Requests = {request}
  LastId = 5
  NoRoute = NoRoute
  NoService = NoService
  NoFqdn = NoFqdn
  ManualName = manual
  MaxEdits = 2
  MaxFaults = 1
INVARIANT TypeOK
INVARIANT ManualKept
PROPERTY Converges
