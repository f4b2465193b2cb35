CONSTANTS
  Capacity = 3
  DescriptorCount = 2
  BacklogCapacity = 1
  Ports = {1}
  EphemeralPorts = {1}
  Peers = {p, q}
  NoPeer = NoPeer
  Lifetime = 1
SPECIFICATION FairSpec
INVARIANTS
  DescriptorsCounted
  ChildrenHaveListener
  EndpointsExclusive
PROPERTIES
  HalfOpenEnds
