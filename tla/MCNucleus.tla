------------------------------ MODULE MCNucleus ------------------------------
(* Instances of Nucleus for TLC. *)
EXTENDS Nucleus

CONSTANTS s, r, a, b

Disk0 == <<DISKINT, 0>>
Disk1 == <<DISKINT, 1>>
Flash0 == <<FLASHINT, 0>>
Term0 == <<TERMINT, 0>>

Pcbs4 == {s, r, a, b}
Free2 == <<a, b>>

NoDevice == {}
\* A disk that may report errors: it is acknowledged whatever it reports.
FaultyDisk == {Disk1}
\* A terminal that may report errors: it is not.
FaultyTerminal == {Term0}
NoDrives == [p \in Pcb |-> {}]

\* A disk and a terminal, each used by one process; device 0 of the disk's line
\* is there because getDeviceNumber() falls back to it.
TwoLines == {Disk0, Disk1, Term0}
OwnDevice == [p \in Pcb |-> CASE p = r -> {Disk1} [] p = a -> {Term0} [] OTHER -> {}]

NoUse == [k \in ClientOps |-> 0]
Uses(f) == f @@ NoUse

IoBudget == Uses("create" :> 2 @@ "terminate" :> 3 @@ "doio" :> 2 @@ "clock" :> 1 @@ "receive" :> 1)
NoOps == {}

\* Any client may terminate any other and one may trap, at any time, and the
\* PCBs freed are allocated again.
KillBudget == Uses("create" :> 3 @@ "terminate" :> 1 @@ "trap" :> 1 @@ "doio" :> 1 @@ "clock" :> 1)

\* Clients that never stop asking.
RootDisk == [p \in Pcb |-> IF p = r THEN {Disk0} ELSE {}]
LiveBudget == Uses("create" :> 2 @@ "clock" :> 1 @@ "doio" :> 1)
Queries == {"query"}

\* Instances the code does not get right.
Disk2 == <<DISKINT, 2>>
OneLine == {Disk0, Disk1, Disk2}
TwoDisks == [p \in Pcb |-> CASE p = r -> {Disk1} [] p = a -> {Disk2} [] OTHER -> {}]
OneDisk == {Disk0}
SharedDisk == [p \in Pcb |-> {Disk0}]

\* Three disks of one line and a terminal that may report errors; a client may be killed
\* while it waits or has a message, and its PCB, the only spare one, is allocated again.
Pcbs3 == {s, r, a}
Free1 == <<a>>
Lines == {Disk0, Disk1, Disk2, Term0}
AnyDevice == [p \in Pcb |-> CASE p = r -> {Disk0, Term0} [] p = a -> {Disk1, Disk2} [] OTHER -> {}]
LinesBudget ==
  Uses("create" :> 2 @@ "terminate" :> 1 @@ "doio" :> 3 @@ "send" :> 1 @@ "receive" :> 1)
\* An interrupt that is not acknowledged comes again, and decrements again, for ever.
SoftBound == softBlockCount >= 0

IpcBudget == Uses("create" :> 1 @@ "send" :> 3 @@ "receive" :> 3 @@ "query" :> 1)
LineBudget == Uses("create" :> 1 @@ "doio" :> 2)
FullBudget == Uses("create" :> 3)
ZombieBudget == Uses("create" :> 1 @@ "doio" :> 1 @@ "terminate" :> 2)
TimerBudget == Uses("create" :> 1 @@ "doio" :> 1 @@ "receive" :> 1)
IdleBudget == Uses("create" :> 1 @@ "doio" :> 1 @@ "receive" :> 2 @@ "clock" :> 1)
==============================================================================
