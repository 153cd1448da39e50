\* Three positions for up to six entries: neighbours, duplicates within and
\* across servers, metrics before, between, on and after the entries.
SPECIFICATION Spec
CONSTANTS
  Server <- MCServer
  Ip <- MCIp
  Port <- MCPort
  Inst <- MCInst
  NoInst <- None
  HASH_REPLICAS = 2
  MaxPos = 2
  Lists <- MCLists
INVARIANTS
  
  NodesAreClockwise
  NodesDistinct
PROPERTIES
  LookupEnds
