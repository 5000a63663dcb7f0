SPECIFICATION MCSpec
CONSTANTS
  NodeNames = {1, 2, 3}
  SubnetNames = {1, 2, 3}
  LocalNames = {0}
  MaxNodes = 4
  MaxParts = 4
CHECK_DEADLOCK FALSE
INVARIANTS
  TypeOK
  RenderedWhole
  HostsRouted
  NatOutside
  OverlaysAgree
  GraphFaithful
