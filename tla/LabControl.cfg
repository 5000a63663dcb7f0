SPECIFICATION FairSpec
CONSTANTS
  r = r  h1 = h1  h2 = h2  net = net  net1 = net1
  NoConfig = NoConfig
  NoNode = NoNode
  CliPrefix = CliPrefix
  Actors = {"web"}
  WebPrefix = WebPrefix
  Nodes <- MCNodes
  Routers <- MCRouters
  Nets <- MCNets
  Matches <- MCMatches
  Configs <- MCConfigs
  CliPrefixes <- WebOnly
  Timeout = 20
  Poll = 10
  MaxNetworks = 2
  RenderAnytime = FALSE
INVARIANTS
  TypeOK
  NothingLeftWithoutRow
  StartedAsConfigured
PROPERTIES
  KeepsPromises
  RequestsEnd
  StartedHostsRun
