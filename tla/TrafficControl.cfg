SPECIFICATION Spec
CONSTANTS
  r = r  g = g
  Nodes <- One
  Routers <- MCRouters
  Quagga <- MCQuagga
  Requests <- Every
  LabOptions <- MCLabOptions
  Defaults <- MCDefaults
  MayFail = TRUE
INVARIANTS
  TypeOK
  InForceWasAsked
  DelayUnderneath
  AsAsked
  LimitedRoutersRed
