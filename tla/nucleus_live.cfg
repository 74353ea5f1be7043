CONSTANTS
  s = s
  r = r
  a = a
  b = b
  Pcb <- Pcbs4
  ssi_pcb = s
  root_pcb = r
  freeList <- Free2
  NULL = NULL
  Computing = Computing
  Device <- OneDisk
  Faulty <- NoDevice
  drives <- RootDisk
  MaxMessages = 3
  Budget <- LiveBudget
  Endless <- Queries
  Orderly = TRUE
SPECIFICATION FairSpec
CHECK_DEADLOCK FALSE
PROPERTIES
  Answered
