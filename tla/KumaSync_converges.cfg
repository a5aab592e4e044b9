SPECIFICATION Spec
CONSTANTS
  d = d
  w = w
  s1 = s1
  s2 = s2
  nameD = nameD
  nameE = nameE
  hostD = hostD
  hostE = hostE
  nameW = nameW
  urlW = urlW
  Devices = {d}
  Services = {w}
  Names = {nameD, nameE, nameW}
  Hosts = {hostD, hostE}
  Urls = {urlW}
  EntriesOf <- Declared
  Home <- AtHome
  Sites = {s1, s2}
  Web = web
  DeviceThreads = {p1}
  ServiceThreads = {q1}
  LastId = 6
  Excluded = Excluded
  Absent = Absent
  NoMonitor = NoMonitor
  NoAddress = NoAddress
  NoLink = NoLink
  NoPatch = NoPatch
  MaxEdits = 1
  MaxFaults = 1
INVARIANT TypeOK
INVARIANT LinkedToOwn
PROPERTY SparesWanted
PROPERTY Converges
