---------------------------- MODULE DeviceMapProofs ----------------------------
(* The computations of device registers and slots agree. *)
EXTENDS DeviceMap, TLAPS

\* The slot that doIO() computes from any address within a device register is the one
\* deviceInterrupt() looks into for that device: no requester is lost or mistaken.
THEOREM SlotIsDevice ==
  ASSUME NEW line \in 3..7, NEW devNo \in 0..(DEVPERINT - 1), NEW byte \in 0..(DEVREGSIZE - 1)
  PROVE SlotOf(DevAddrBase(line, devNo) + byte) = <<line - 3, devNo>>
<1> DEFINE address == DevAddrBase(line, devNo) + byte
           index == (address - START_DEVREG) \div DEVREGSIZE
<1>1. /\ address - START_DEVREG = 16 * (8 * (line - 3) + devNo) + byte
      /\ devNo \in 0..7 /\ byte \in 0..15
  BY DEF DevAddrBase, START_DEVREG, DEVPERINT, DEVREGSIZE
<1>2. index = 8 * (line - 3) + devNo
  BY <1>1 DEF DEVREGSIZE
<1>3. SlotOf(address) = <<index \div DEVPERINT, index % DEVPERINT>>
  BY DEF SlotOf
<1> HIDE DEF index
<1>4. index \div DEVPERINT = line - 3 /\ index % DEVPERINT = devNo
  BY <1>1, <1>2 DEF DEVPERINT
<1>5. QED
  BY <1>3, <1>4

\* The addresses that sst.c and vmSupport.c compute from an ASID lie in the registers of
\* device asid - 1 of the printers, the terminals and the flash devices.
THEOREM DevicesOfAsid ==
  ASSUME NEW asid \in 1..UPROCLIMIT
  PROVE /\ SlotOf(CmdAddr(PrinterDev(asid))) = <<PRNTINT - 3, asid - 1>>
        /\ SlotOf(CmdAddr(TerminalDev(asid))) = <<TERMINT - 3, asid - 1>>
        /\ SlotOf(FlashDev(asid) + DTPCOMMAND) = <<FLASHINT - 3, asid - 1>>
<1>1. /\ CmdAddr(PrinterDev(asid)) = DevAddrBase(PRNTINT, asid - 1) + DTPCOMMAND
      /\ CmdAddr(TerminalDev(asid)) = DevAddrBase(TERMINT, asid - 1) + TRANSMCOMMAND
      /\ FlashDev(asid) = DevAddrBase(FLASHINT, asid - 1)
  BY DEF CmdAddr, PrinterDev, TerminalDev, FlashDev, DevAddrBase, START_DEVREG, PRNTINT,
         TERMINT, FLASHINT, PRNT0ADDR, TERM0ADDR, DTPCOMMAND, TRANSMCOMMAND, UPROCLIMIT
<1>2. /\ asid - 1 \in 0..(DEVPERINT - 1) /\ {PRNTINT, TERMINT, FLASHINT} \subseteq 3..7
      /\ {DTPCOMMAND, TRANSMCOMMAND} \subseteq 0..(DEVREGSIZE - 1)
  BY DEF UPROCLIMIT, DEVPERINT, DEVREGSIZE, PRNTINT, TERMINT, FLASHINT, DTPCOMMAND,
         TRANSMCOMMAND
<1>3. QED
  BY <1>1, <1>2, SlotIsDevice
==============================================================================
