------------------------------- MODULE DeviceMap -------------------------------
(****************************************************************************)
(* The device registers of uMPS3 as the code computes them: by ASID (sst.c, *)
(* vmSupport.c), by line and number (interrupts.c), and from a command      *)
(* address back to a slot of devQueue (ssi.c).  A slot is <<line - 3,       *)
(* number>>, the two indices of devQueue.                                   *)
(****************************************************************************)
EXTENDS Integers

START_DEVREG == \h10000054   \* also DEVADDR
PRNT0ADDR == \h100001D4
TERM0ADDR == \h10000254

FLASHINT == 4
PRNTINT == 6
TERMINT == 7
DEVPERINT == 8
DEVREGSIZE == 16
DEVINTNUM == 5
UPROCLIMIT == 8              \* UPROCMAX of the code

Slot == (0..(DEVINTNUM - 1)) \X (0..(DEVPERINT - 1))

\* Offsets of dtp.command and term.transm_command in a device register.
DTPCOMMAND == 4
TRANSMCOMMAND == 12

\* devAddrBase of deviceInterrupt().
DevAddrBase(line, devNo) == START_DEVREG + (line - 3) * 128 + devNo * 16

\* The register of user process asid: in flashDev(), and what SSTrequest()
\* hands to writeString().
FlashDev(asid) == START_DEVREG + (FLASHINT - 3) * 128 + (asid - 1) * 16
PrinterDev(asid) == PRNT0ADDR + (asid - 1) * 16
TerminalDev(asid) == TERM0ADDR + (asid - 1) * 16

\* cmdAddr of writeString().
CmdAddr(dev) == IF dev < TERM0ADDR THEN dev + DTPCOMMAND ELSE dev + TRANSMCOMMAND

\* Mutant: the byte offset is not divided by the size of a register.
SlotOfByte(commandAddr) ==
  LET device == commandAddr - START_DEVREG
  IN <<device \div DEVPERINT, device % DEVPERINT>>

\* intLineNo and devNo of doIO().
SlotOf(commandAddr) ==
  LET device == (commandAddr - START_DEVREG) \div DEVREGSIZE
  IN <<device \div DEVPERINT, device % DEVPERINT>>
==============================================================================
