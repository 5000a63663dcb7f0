SPECIFICATION Spec
CONSTANTS
  lab1 = lab1  lab2 = lab2  host1 = host1  host2 = host2
  r = r  a = a  b = b  m1 = m1  m2 = m2
  NoLab = NoLab
  Labs <- MCLabs
  Hosts <- MCHosts
  FirstHost = host1
  Nodes <- MCNodes
  Routers <- MCRouters
  Nets <- MCNets
  Members <- MCMembers
  Links <- MCLinks
  Extensions <- MCExtensions
  MaxNetworks = 2
  MaxFailures = 1
INVARIANTS
  TypeOK
  RecordedContainers
  OneHostPerNode
  NodesConnected
  TunsUnique
