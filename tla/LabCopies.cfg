SPECIFICATION FairSpec
CONSTANTS
  r = r  h1 = h1  h2 = h2  net = net  net1 = net1
  NoConfig = NoConfig
  NoNode = NoNode
  CliPrefix = CliPrefix
  Actors = {"web", "cli"}
  WebPrefix = WebPrefix
  Nodes <- MCTwoNodes
  Routers <- MCRouters
  Nets <- MCOneNet
  Matches <- MCOneMatch
  Configs <- MCOneConfig
  CliPrefixes <- Copy
  Timeout = 10
  Poll = 10
  MaxNetworks = 1
  RenderAnytime = FALSE
PROPERTIES
  CopiesRun
