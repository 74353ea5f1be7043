CONSTANTS
  s = s
  r = r
  a = a
  b = b
  Pcb <- Pcbs4
  ssi_pcb = s
  root_pcb = r
  freeList <- Free2
  NULL = NULL
  Computing = Computing
  Device <- TwoLines
  Faulty <- NoDevice
  drives <- OwnDevice
  MaxMessages = 3
  Budget <- KillBudget
  Endless <- NoOps
  Orderly = FALSE
SPECIFICATION Spec
CHECK_DEADLOCK FALSE
INVARIANTS
  TreeSound
  

  
