SPECIFICATION FairSockets
CONSTANTS
  lab1 = lab1  lab2 = lab2  host1 = host1  host2 = host2
  r = r  a = a
  NoLab = NoLab  NoHost = NoHost
  Labs <- MCLabs
  Hosts <- MCHosts
  FirstHost = host1
  Nodes <- MCNodes
  Routers <- MCRouters
  Nets <- MCNets
  Members <- MCMembers
  Links <- MCLinks
  Extensions <- MCExtensions
  PortsLike <- MCPortsLike
  MaxNetworks = 2
  MaxFailures = 0
  MaxStarts = 2
  MaxMissed = 1
CHECK_DEADLOCK FALSE
INVARIANTS
  CommandsWait
  HostsServed
  NoLeaks
PROPERTIES
  CommandsRun
