SPECIFICATION FairSpec
CONSTANTS
  Nodes = {"a", "b", "c"}
  Addrs <- MCAddrs
  Dialable <- MCDialable
  Bound <- MCBound
  Advertised <- MCAdvertised
  MaxPeers = 2
  Environments <- MCEnvironments
INVARIANTS
  BookIsSound
PROPERTIES
  MinersKnown
  ListingsLearnt
