SPECIFICATION Spec
CONSTANTS
  s1 = s1  s2 = s2  s3 = s3
  n1 = n1  n2 = n2  n3 = n3  n4 = n4  n5 = n5  n6 = n6  n7 = n7
  n8 = n8  n9 = n9  n10 = n10  n11 = n11  n12 = n12  n13 = n13  n14 = n14
  NoBlock = NoBlock
  Subnets <- MCSubnets
  Nodes <- MCNodes
  NodeLists <- MCNodeLists
  Partitions <- MCPartitions
  Width <- MCWidth
  Size <- MCSize
  Main <- MCMain
CHECK_DEADLOCK FALSE
SYMMETRY Symmetry
INVARIANTS
  TypeOK
  SubnetsDisjoint
  HostAddressesUnique
  RaisesOnlyWhenFull
  AnnouncedRangeIsInner
  SessionsReciprocal
PROPERTIES
  AddressedOnce
  ConfigureComplete
