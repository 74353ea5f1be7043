CONSTANTS
  s = s
  r = r
  a = a
  b = b
  Pcb <- Pcbs3
  ssi_pcb = s
  root_pcb = r
  freeList <- Free1
  NULL = NULL
  Computing = Computing
  Device <- Lines
  Faulty <- FaultyTerminal
  drives <- AnyDevice
  MaxMessages = 2
  Budget <- LinesBudget
  Endless <- NoOps
  Orderly = FALSE
SPECIFICATION Spec
CONSTRAINT SoftBound
CHECK_DEADLOCK FALSE
INVARIANTS
  TypeOK
  NoLostWakeup
PROPERTIES
  NoOvertaking
  
  MessagesConserved
