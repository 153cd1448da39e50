\* One host with two ports, as carbon_ch and fnv1a_ch see it.
SPECIFICATION Spec
CONSTANTS
  Server <- MCServer
  Ip <- MCIp
  Port <- MCPort
  Inst <- MCInst
  NoInst <- None
  HASH_REPLICAS = 2
  MaxPos = 2
  Lists <- TwoPorts
PROPERTIES
  ReplicasFound
