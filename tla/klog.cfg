CONSTANTS
  p = p
  q = q
  Printer <- One
  Texts <- SomeTexts
  Numbers <- SomeNumbers
  Addresses <- SomeAddresses
  KLOG_LINES = 3
  KLOG_LINE_SIZE = 3
  MaxPrints = 3
SPECIFICATION Spec
INVARIANTS
  TypeOK
  IndexInLine
  ShowsLog
