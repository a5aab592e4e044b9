SPECIFICATION Spec
CONSTANTS
  vm = vm
  ct1 = ct1
  ct2 = ct2
  titleV = titleV
  titleC = titleC
  Machines = {vm}
  Containers = {ct1, ct2}
  TitleOf <- Titled
  nodeA = nodeA
  nodeB = nodeB
  Nodes = {nodeA, nodeB}
  On <- Showing
  Home = nodeA
  NoNode = NoNode
  Scheduler = scheduler
  Requests = {request}
  LastId = 4
  NoPlatform = NoPlatform
  ByHand = ByHand
  HandTitles = {titleC}
  MaxEdits = 2
  MaxFaults = 1
INVARIANT TypeOK
PROPERTY Converges
PROPERTY HandMadeKept
