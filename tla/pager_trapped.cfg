CONSTANTS
  a1 = a1
  a2 = a2
  a3 = a3
  t1 = t1
  t2 = t2
  t3 = t3
  x1 = x1
  x2 = x2
  v1 = v1
  v2 = v2
  NULL = NULL
  NOPROC = NOPROC
  swap_pcb = swap
  ssi_pcb = ssi
  image <- Images
  ASID <- Two
  uProcs <- TwoInOrder
  sst_pcb <- SstOf
  Page <- OnePage
  touched <- TwoPages
  POOLSIZE = 1
  Value <- OneValue
  Faulty <- Two
  Quitters <- None
  QuietEnd = FALSE
  PreemptAt <- InUserMode
SPECIFICATION FairSpec
CHECK_DEADLOCK FALSE
PROPERTIES
  QuitterKilled
