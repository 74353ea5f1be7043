CONSTANTS
  s0 = s0
  p1 = p1
  p2 = p2
  p3 = p3
  Pcb <- Pcbs
  ssi_pcb = s0
  NULL = NULL
SYMMETRY Symmetry
SPECIFICATION Spec
INVARIANTS
  TypeOK
  DoublyLinked
  NobodyLost
PROPERTIES
  AreQueues
