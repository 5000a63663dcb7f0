SPECIFICATION Spec
CONSTANTS
  r = r  h1 = h1  h2 = h2  net = net  net1 = net1
  NoConfig = NoConfig
  NoNode = NoNode
  CliPrefix = CliPrefix
  Actors = {"cli"}
  WebPrefix = WebPrefix
  Nodes <- MCNodes
  Routers <- MCRouters
  Nets <- MCNets
  Matches <- MCMatches
  Configs <- MCConfigs
  CliPrefixes <- Copy
  Timeout = 10
  Poll = 10
  MaxNetworks = 2
  RenderAnytime = TRUE
INVARIANTS
  StartedNodesUp
PROPERTIES
  StopClearsLoaded
