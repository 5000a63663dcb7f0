SPECIFICATION Spec
CONSTANTS
  r = r  g = g
  Nodes <- MCNodes
  Routers <- MCRouters
  Quagga <- MCQuagga
  Requests <- OnlyRate
  LabOptions <- MCLabOptions
  Defaults <- MCDefaults
  MayFail = FALSE
INVARIANTS
  PanelObeyed
