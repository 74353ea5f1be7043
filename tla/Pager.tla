-------------------------------- MODULE Pager --------------------------------
(****************************************************************************)
(* Virtual memory on top of the nucleus (phase3Umps3): the page fault       *)
(* handler each user process runs, the swapMutex process, the swap table,   *)
(* the page tables and the TLB, and the end of a user process with its SST. *)
(*                                                                          *)
(* The nucleus is here what its processes see of it: the ready queue is     *)
(* FIFO, an inbox is a stack, RECEIVEMESSAGE blocks, a message wakes its    *)
(* destination, the SSI answers and a flash device wakes who waits for it.  *)
(* What runs with interrupts on is cut into the steps between which another *)
(* process can run; a step is executed by current_process.                  *)
(****************************************************************************)
EXTENDS Integers, FiniteSets, SequencesExt

CONSTANTS
  ASID,          \* the user processes, each named by its ASID
  uProcs,        \* the order in which they were created
  sst_pcb,       \* sst_pcb[a]: the SST of user process a, its parent
  swap_pcb,      \* the process that runs swapMutex()
  ssi_pcb,
  NULL,
  NOPROC,        \* sw_asid of an unoccupied frame
  Page,          \* the pages of an address space
  touched,       \* touched[a]: the pages process a uses
  POOLSIZE,      \* frames in the swap pool
  Value,         \* what a page may hold
  image,         \* image[a][x]: page x of the program on flash device a
  Faulty,        \* the flash devices that may report an error
  Quitters,      \* the user processes that may ask to terminate
  QuietEnd,      \* TRUE: a process touches no absent page once it asked to
  PreemptAt      \* the steps before which a time slice may end

Sst == {sst_pcb[a] : a \in ASID}
Proc == ASID \cup Sst \cup {swap_pcb, ssi_pcb}
Frame == 0..(POOLSIZE - 1)
INVALID == -1     \* an entry without the V bit
ABSENT == -2      \* no entry in the TLB

\* The steps of a user process (between the grant and the release of the mutex,
\* and otherwise), of swapMutex() and of an SST.
Critical == {"select", "check", "invalidate", "askWrite", "getWrite", "trapRelease",
             "askRead", "getRead", "claim", "map", "release"}
UserSteps == {"user", "askSupport", "getSupport", "askMutex", "getMutex", "trapAsk",
              "trapGet", "trapTell"}
               \cup Critical
MutexSteps == {"any", "give", "wait"}
SstSteps == {"serve", "scan", "clear", "suicide", "dying"}

ASSUME PagerAssumption ==
  /\ IsFiniteSet(ASID) /\ POOLSIZE \in Nat \ {0}
  /\ uProcs \in Seq(ASID) /\ IsInjective(uProcs) /\ ToSet(uProcs) = ASID /\ uProcs # <<>>
  /\ \A a, b \in ASID : sst_pcb[a] = sst_pcb[b] => a = b
  /\ Sst \cap ASID = {} /\ {swap_pcb, ssi_pcb} \cap (ASID \cup Sst) = {}
  /\ swap_pcb # ssi_pcb /\ NULL \notin Proc /\ NOPROC \notin ASID
  /\ touched \in [ASID -> SUBSET Page] /\ image \in [ASID -> [Page -> Value]]
  /\ Faulty \subseteq ASID /\ Quitters \subseteq ASID /\ QuietEnd \in BOOLEAN
  /\ PreemptAt \subseteq UserSteps \cup MutexSteps \cup SstSteps

VARIABLES
  current_process, readyQueue,
  receiving,        \* receiveMessageQueue
  msg_inbox,
  pcbFree_h,        \* the processes that were killed: their PCBs are free
  pc,               \* the next step of each process
  client,           \* sender in swapMutex()
  missing,          \* missing[a]: the page in sup_exceptState[PGFAULTEXCEPT]
  frame,            \* f of the page fault handler
  do_io,            \* the flash command it asks for
  quitting,         \* the user processes whose SST was told to terminate
  scan,             \* i of cleanSwapTable() in each SST
  swap_table,       \* [asid, owner, page]; <<owner, page>> is where sw_pte points
  nextFrame,        \* the static f of selectFrame(), modulo POOLSIZE
  privatePgTbl,
  tlb,
  ram, flash,       \* what frames and flash blocks hold
  device            \* the operation in progress on each flash device

nucleus == <<current_process, readyQueue, receiving, msg_inbox, pcbFree_h>>
handler == <<missing, frame, do_io>>
ending == <<quitting, scan>>
tables == <<swap_table, nextFrame, privatePgTbl, tlb>>
store == <<ram, flash, device>>
locals == <<client, handler, ending, tables, store>>
vars == <<nucleus, pc, locals>>

NoCommand == [asid |-> NOPROC, cmd |-> "none", page |-> NULL]
Idle == [cmd |-> "none", page |-> NULL, frame |-> 0, who |-> NULL]

\* test() has created swapMutex() and the SSTs, and each SST its user process.
Init ==
  /\ current_process = Head(uProcs) /\ readyQueue = Tail(uProcs)
  /\ receiving = Sst \cup {swap_pcb, ssi_pcb}
  /\ msg_inbox = [p \in Proc |-> <<>>] /\ pcbFree_h = {}
  /\ pc = [p \in Proc |-> CASE p \in ASID -> "user" [] p = swap_pcb -> "any"
                            [] p = ssi_pcb -> "ssi" [] OTHER -> "serve"]
  /\ client = NULL
  /\ missing = [a \in ASID |-> NULL] /\ frame = [a \in ASID |-> 0]
  /\ do_io = [a \in ASID |-> NoCommand]
  /\ quitting = {} /\ scan = [a \in ASID |-> 0]
  /\ swap_table = [f \in Frame |-> [asid |-> NOPROC, owner |-> NULL, page |-> NULL]]
  /\ nextFrame = 0
  /\ privatePgTbl = [a \in ASID |-> [x \in Page |-> INVALID]]
  /\ tlb = [a \in ASID |-> [x \in Page |-> ABSENT]]
  /\ ram = [f \in Frame |-> NULL] /\ flash = image
  /\ device = [a \in ASID |-> Idle]
------------------------------------------------------------------------------
(* What the nucleus does for a process.                                     *)

At(p, l) == current_process = p /\ pc[p] = l
Goto(p, l) == pc' = [pc EXCEPT ![p] = l]

Dispatch(ready) ==
  \/ ready = <<>> /\ current_process' = NULL /\ readyQueue' = <<>>
  \/ ready # <<>> /\ current_process' = Head(ready) /\ readyQueue' = Tail(ready)

\* sendMessage(), given the inboxes; a dead destination gets nothing.
Send(inboxes, from, op, dest) ==
  /\ msg_inbox' = IF dest \in pcbFree_h THEN inboxes
                  ELSE [inboxes EXCEPT ![dest] = <<[from |-> from, op |-> op]>> \o @]
  /\ receiving' = receiving \ {dest}
  /\ readyQueue' = IF dest \in receiving THEN Append(readyQueue, dest) ELSE readyQueue
  /\ UNCHANGED <<current_process, pcbFree_h>>

\* receiveMessage(): the message it takes, and the two ways it can go.
Match(p, from) == SelectInSeq(msg_inbox[p], LAMBDA m : from = NULL \/ m.from = from)
Block(p, from) ==
  /\ Match(p, from) = 0
  /\ receiving' = receiving \cup {p} /\ Dispatch(readyQueue)
  /\ UNCHANGED <<msg_inbox, pcbFree_h, pc>>
Take(p, from) ==
  /\ Match(p, from) > 0
  /\ msg_inbox' = [msg_inbox EXCEPT ![p] = RemoveAt(@, Match(p, from))]
  /\ UNCHANGED <<current_process, readyQueue, receiving, pcbFree_h>>
Taken(p, from) == msg_inbox[p][Match(p, from)]

\* Process p, at step l, sends or receives and goes on at l2.
Tell(p, l, op, dest, l2) ==
  At(p, l) /\ Send(msg_inbox, p, op, dest) /\ Goto(p, l2) /\ UNCHANGED locals
Receive(p, l, from, l2) ==
  At(p, l) /\ (Block(p, from) \/ (Take(p, from) /\ Goto(p, l2))) /\ UNCHANGED locals

\* The local timer; the SSI runs with it disabled.
Preempt(p) ==
  /\ current_process = p /\ pc[p] \in PreemptAt
  /\ Dispatch(Append(readyQueue, p))
  /\ UNCHANGED <<receiving, msg_inbox, pcbFree_h, pc, locals>>
------------------------------------------------------------------------------
(* A user process in user mode.                                             *)

MayTouch(a) == At(a, "user") /\ (a \in quitting => ~QuietEnd)

\* A store to a page the TLB maps.
Write(a) ==
  /\ MayTouch(a)
  /\ \E x \in touched[a], v \in Value :
       tlb[a][x] \in Frame /\ ram' = [ram EXCEPT ![tlb[a][x]] = v]
  /\ UNCHANGED <<nucleus, pc, client, handler, ending, tables, flash, device>>

\* uTLB_RefillHandler(): the page's entry goes to a random slot of the TLB,
\* which is empty or holds another entry.
Refill(a) ==
  /\ MayTouch(a)
  /\ \E x \in touched[a] :
       /\ tlb[a][x] = ABSENT
       /\ \E b \in ASID, y \in Page :
            tlb' = [[tlb EXCEPT ![b][y] = ABSENT] EXCEPT ![a][x] = privatePgTbl[a][x]]
  /\ UNCHANGED <<nucleus, pc, client, handler, ending, swap_table, nextFrame, privatePgTbl,
                 store>>

\* A TLB-invalid exception, passed up to pageFaultExceptionHandler().  The D
\* bit is always set, so that there is no TLB-Modification.
Fault(a) ==
  /\ MayTouch(a)
  /\ \E x \in touched[a] : tlb[a][x] = INVALID /\ missing' = [missing EXCEPT ![a] = x]
  /\ Goto(a, "askSupport")
  /\ UNCHANGED <<nucleus, client, frame, do_io, ending, tables, store>>

\* The TERMINATE request to the SST through usyscallHandler(), and the
\* RECEIVEMSG after it.
Quit(a) ==
  /\ At(a, "user") /\ a \in Quitters \ quitting
  /\ Send(msg_inbox, a, "terminate", sst_pcb[a])
  /\ quitting' = quitting \cup {a}
  /\ UNCHANGED <<pc, client, handler, scan, tables, store>>

AwaitEnd(a) == a \in quitting /\ Receive(a, "user", NULL, "user")
------------------------------------------------------------------------------
(* pageFaultExceptionHandler(), run by user process a in kernel mode.       *)

\* A step without a system call.
Internal(a, l, l2) ==
  At(a, l) /\ Goto(a, l2) /\ UNCHANGED <<nucleus, client, missing, do_io, ending, store>>

\* getSupportStruct(), then GETMUTEX to the swapMutex process.
AskSupport(a) == Tell(a, "askSupport", "support", ssi_pcb, "getSupport")
GetSupport(a) == Receive(a, "getSupport", ssi_pcb, "askMutex")
AskMutex(a) == Tell(a, "askMutex", "get", swap_pcb, "getMutex")
GetMutex(a) == Receive(a, "getMutex", swap_pcb, "select")

Unoccupied == {f \in Frame : swap_table[f].asid = NOPROC}

\* Mutant: the frame in turn is not taken modulo POOLSIZE.
SelectBeyond(a) ==
  /\ Internal(a, "select", "check")
  /\ \/ /\ Unoccupied # {}
        /\ frame' = [frame EXCEPT ![a] = Min(Unoccupied)] /\ UNCHANGED nextFrame
     \/ /\ Unoccupied = {}
        /\ frame' = [frame EXCEPT ![a] = nextFrame] /\ nextFrame' = nextFrame + 1
  /\ UNCHANGED <<swap_table, privatePgTbl, tlb>>

\* selectFrame(): the first unoccupied frame, or the next one in turn.
SelectFrame(a) ==
  /\ Internal(a, "select", "check")
  /\ \/ /\ Unoccupied # {}
        /\ frame' = [frame EXCEPT ![a] = Min(Unoccupied)] /\ UNCHANGED nextFrame
     \/ /\ Unoccupied = {}
        /\ frame' = [frame EXCEPT ![a] = nextFrame]
        /\ nextFrame' = (nextFrame + 1) % POOLSIZE
  /\ UNCHANGED <<swap_table, privatePgTbl, tlb>>

\* "if frame f is occupied".
CheckFrame(a) ==
  /\ Internal(a, "check", IF frame[a] \in Unoccupied THEN "askRead" ELSE "invalidate")
  /\ UNCHANGED <<frame, tables>>

\* Mutant: the TLB is not updated.
InvalidateKeepsTlb(a) ==
  /\ Internal(a, "invalidate", "askWrite")
  /\ LET e == swap_table[frame[a]] IN
       privatePgTbl' = [privatePgTbl EXCEPT ![e.owner][e.page] = INVALID]
  /\ UNCHANGED <<frame, swap_table, nextFrame, tlb>>

\* Mutant: the page is not written out.
InvalidateNoWrite(a) ==
  /\ Internal(a, "invalidate", "askRead")
  /\ LET e == swap_table[frame[a]] IN
       /\ privatePgTbl' = [privatePgTbl EXCEPT ![e.owner][e.page] = INVALID]
       /\ tlb' = [tlb EXCEPT ![e.owner][e.page] = IF @ = ABSENT THEN ABSENT ELSE INVALID]
  /\ UNCHANGED <<frame, swap_table, nextFrame>>

\* The V bit of the page in the frame and its TLB entry, interrupts off.
Invalidate(a) ==
  /\ Internal(a, "invalidate", "askWrite")
  /\ LET e == swap_table[frame[a]] IN
       /\ privatePgTbl' = [privatePgTbl EXCEPT ![e.owner][e.page] = INVALID]
       /\ tlb' = [tlb EXCEPT ![e.owner][e.page] = IF @ = ABSENT THEN ABSENT ELSE INVALID]
  /\ UNCHANGED <<frame, swap_table, nextFrame>>

\* flashDev() up to its SENDMESSAGE: DOIO on the flash device of an ASID.  The
\* frame it writes to the device's data0 is taken with the command.
FlashDev(a, l, cmd, page, asid, l2) ==
  /\ At(a, l)
  /\ do_io' = [do_io EXCEPT ![a] = [asid |-> asid, cmd |-> cmd, page |-> page]]
  /\ Send(msg_inbox, a, "doio", ssi_pcb) /\ Goto(a, l2)
  /\ UNCHANGED <<client, missing, frame, ending, tables, store>>

AskWrite(a) ==
  LET e == swap_table[frame[a]]
  IN FlashDev(a, "askWrite", "write", e.page, e.asid, "getWrite")
AskRead(a) == FlashDev(a, "askRead", "read", missing[a], a, "getRead")

\* The rest of flashDev(): an error is treated as a program trap, and then the
\* handler goes on as after a success.
AfterFlash(a) == IF do_io[a].cmd = "write" THEN "askRead" ELSE "claim"
FlashDone(a) ==
  /\ At(a, "getWrite") \/ At(a, "getRead")
  /\ \/ Block(a, ssi_pcb)
     \/ /\ Take(a, ssi_pcb)
        /\ Goto(a, IF Taken(a, ssi_pcb).op = "error" THEN "trapRelease" ELSE AfterFlash(a))
  /\ UNCHANGED locals

\* programTrapsHandler(): it releases the mutex, asks the SST to terminate (a
\* SENDMSG, passed up to generalExceptionHandler()), and returns.
TrapRelease(a) == Tell(a, "trapRelease", "release", swap_pcb, "trapAsk")
TrapAsk(a) == Tell(a, "trapAsk", "support", ssi_pcb, "trapGet")
TrapGet(a) == Receive(a, "trapGet", ssi_pcb, "trapTell")
TrapTell(a) ==
  /\ At(a, "trapTell")
  /\ Send(msg_inbox, a, "terminate", sst_pcb[a])
  /\ quitting' = quitting \cup {a}
  /\ Goto(a, AfterFlash(a))
  /\ UNCHANGED <<client, handler, scan, tables, store>>

\* The entry of the swap table.
Claim(a) ==
  /\ Internal(a, "claim", "map")
  /\ swap_table' = [swap_table EXCEPT
       ![frame[a]] = [asid |-> a, owner |-> a, page |-> missing[a]]]
  /\ UNCHANGED <<frame, nextFrame, privatePgTbl, tlb>>

\* The page table and the TLB, interrupts off.
Map(a) ==
  /\ Internal(a, "map", "release")
  /\ privatePgTbl' = [privatePgTbl EXCEPT ![a][missing[a]] = frame[a]]
  /\ tlb' = [tlb EXCEPT ![a][missing[a]] = IF @ = ABSENT THEN ABSENT ELSE frame[a]]
  /\ UNCHANGED <<frame, swap_table, nextFrame>>

\* Mutant: the mutex is not released.
ReleaseForgotten(a) == Internal(a, "release", "user") /\ UNCHANGED <<frame, tables>>

\* RELEASEMUTEX, and back to the instruction that faulted.
Release(a) == Tell(a, "release", "release", swap_pcb, "user")

Handler(a) ==
  \/ AskSupport(a) \/ GetSupport(a) \/ AskMutex(a) \/ GetMutex(a)
  \/ SelectFrame(a) \/ CheckFrame(a) \/ Invalidate(a) \/ AskWrite(a) \/ AskRead(a)
  \/ FlashDone(a) \/ TrapRelease(a) \/ TrapAsk(a) \/ TrapGet(a) \/ TrapTell(a)
  \/ Claim(a) \/ Map(a) \/ Release(a)
------------------------------------------------------------------------------
(* swapMutex().                                                             *)

\* RECEIVEMESSAGE from anyone; a release is ignored.
MutexAny ==
  /\ At(swap_pcb, "any")
  /\ \/ Block(swap_pcb, NULL) /\ UNCHANGED client
     \/ /\ Take(swap_pcb, NULL)
        /\ client' = Taken(swap_pcb, NULL).from
        /\ Goto(swap_pcb, IF Taken(swap_pcb, NULL).op = "release" THEN "any" ELSE "give")
  /\ UNCHANGED <<handler, ending, tables, store>>

\* Mutant: it does not wait for the release.
MutexGiveAndForget == Tell(swap_pcb, "give", "grant", client, "any")

MutexGive == Tell(swap_pcb, "give", "grant", client, "wait")

\* RECEIVEMESSAGE from the client: whatever it sends counts as its release.
MutexWait == Receive(swap_pcb, "wait", client, "any")

SwapMutex == MutexAny \/ MutexGive \/ MutexWait
------------------------------------------------------------------------------
(* The SST of user process a, as far as it ends: terminate(), whose message *)
(* to test() is left out, and suicide().                                    *)

Serve(a) == Receive(sst_pcb[a], "serve", a, "scan")

\* Mutant: the last frame is not looked at.
ScanShort(a) ==
  /\ At(sst_pcb[a], "scan")
  /\ \/ /\ scan[a] = POOLSIZE - 1
        /\ Goto(sst_pcb[a], "suicide") /\ UNCHANGED scan
     \/ /\ scan[a] < POOLSIZE - 1 /\ swap_table[scan[a]].asid = a
        /\ Goto(sst_pcb[a], "clear") /\ UNCHANGED scan
     \/ /\ scan[a] < POOLSIZE - 1 /\ swap_table[scan[a]].asid # a
        /\ scan' = [scan EXCEPT ![a] = @ + 1] /\ UNCHANGED pc
  /\ UNCHANGED <<nucleus, client, handler, quitting, tables, store>>

\* cleanSwapTable(): entry i is looked at and, if it is a's, cleared.
Scan(a) ==
  /\ At(sst_pcb[a], "scan")
  /\ \/ /\ scan[a] = POOLSIZE
        /\ Goto(sst_pcb[a], "suicide") /\ UNCHANGED scan
     \/ /\ scan[a] < POOLSIZE /\ swap_table[scan[a]].asid = a
        /\ Goto(sst_pcb[a], "clear") /\ UNCHANGED scan
     \/ /\ scan[a] < POOLSIZE /\ swap_table[scan[a]].asid # a
        /\ scan' = [scan EXCEPT ![a] = @ + 1] /\ UNCHANGED pc
  /\ UNCHANGED <<nucleus, client, handler, quitting, tables, store>>
Clear(a) ==
  /\ At(sst_pcb[a], "clear") /\ Goto(sst_pcb[a], "scan")
  /\ swap_table' = [swap_table EXCEPT ![scan[a]].asid = NOPROC]
  /\ scan' = [scan EXCEPT ![a] = @ + 1]
  /\ UNCHANGED <<nucleus, client, handler, quitting, nextFrame, privatePgTbl, tlb, store>>

Suicide(a) ==
  \/ Tell(sst_pcb[a], "suicide", "kill", ssi_pcb, "dying")
  \/ Receive(sst_pcb[a], "dying", ssi_pcb, "dying")

SstStep(a) == Serve(a) \/ Scan(a) \/ Clear(a) \/ Suicide(a)
------------------------------------------------------------------------------
(* The SSI, one request at a time, and the flash devices.                   *)

SsiBlock == At(ssi_pcb, "ssi") /\ Block(ssi_pcb, NULL) /\ UNCHANGED locals

Serving(op) ==
  At(ssi_pcb, "ssi") /\ msg_inbox[ssi_pcb] # <<>> /\ Head(msg_inbox[ssi_pcb]).op = op
sender == Head(msg_inbox[ssi_pcb]).from
Served == [msg_inbox EXCEPT ![ssi_pcb] = Tail(@)]

SsiSupport ==
  Serving("support") /\ Send(Served, ssi_pcb, "answer", sender) /\ UNCHANGED <<pc, locals>>

\* doIO(): off the queue it is on, pcbFree_h if it was killed meanwhile, and into
\* devQueue.  The device that NOPROC addresses is a disk that is not installed,
\* which never interrupts.
SsiDoIO ==
  /\ Serving("doio")
  /\ LET d == do_io[sender] IN
       device' = IF d.asid = NOPROC THEN device
                 ELSE [device EXCEPT ![d.asid] =
                        [cmd |-> d.cmd, page |-> d.page, frame |-> frame[sender],
                         who |-> sender]]
  /\ msg_inbox' = Served
  /\ readyQueue' = RemoveFirst(readyQueue, sender)
  /\ receiving' = receiving \ {sender} /\ pcbFree_h' = pcbFree_h \ {sender}
  /\ UNCHANGED <<current_process, pc, client, handler, ending, tables, ram, flash>>

\* killProcess(): first of the sender's child, then of the sender, each taken out
\* of the queue it is in.  Their messages stay in their inboxes.
Kill(child) ==
  LET victims == {child, sender} IN
  /\ Serving("kill")
  /\ pcbFree_h' = pcbFree_h \cup victims
  /\ msg_inbox' = Served
  /\ readyQueue' = RemoveFirst(RemoveFirst(readyQueue, child), sender)
  /\ receiving' = receiving \ victims
  /\ device' = [a \in ASID |-> IF device[a].who \in victims
                               THEN [device[a] EXCEPT !.who = NULL] ELSE device[a]]
  /\ UNCHANGED <<current_process, pc, client, handler, ending, tables, ram, flash>>

\* Mutant: the child of the SST survives it.
SsiKillKeepsChild == Kill(sender)

\* TERMPROCESS of an SST kills its child, the user process, too.
SsiKill == \E a \in ASID : Kill(a) /\ sst_pcb[a] = sender

Ssi == SsiBlock \/ SsiSupport \/ SsiDoIO \/ SsiKill

\* A flash device transfers the page and interrupts: deviceInterrupt() answers
\* the process in devQueue in the name of the SSI.
FlashInterrupt(a) ==
  LET d == device[a]
      woken == IF d.who = NULL THEN readyQueue ELSE Append(readyQueue, d.who)
  IN
  /\ d.cmd # "none"
  /\ device' = [device EXCEPT ![a] = Idle]
  /\ \E status \in {"ok"} \cup IF a \in Faulty THEN {"error"} ELSE {} :
       /\ flash' = IF status = "ok" /\ d.cmd = "write"
                   THEN [flash EXCEPT ![a][d.page] = ram[d.frame]] ELSE flash
       /\ ram' = IF status = "ok" /\ d.cmd = "read"
                 THEN [ram EXCEPT ![d.frame] = flash[a][d.page]] ELSE ram
       /\ msg_inbox' = IF d.who = NULL THEN msg_inbox
                       ELSE [msg_inbox EXCEPT ![d.who] =
                              <<[from |-> ssi_pcb, op |-> status]>> \o @]
  /\ \/ current_process = NULL /\ Dispatch(woken)
     \/ current_process # NULL /\ readyQueue' = woken /\ UNCHANGED current_process
  /\ UNCHANGED <<receiving, pcbFree_h, pc, client, handler, ending, tables>>
------------------------------------------------------------------------------
User(a) == Write(a) \/ Refill(a) \/ Fault(a) \/ Quit(a) \/ AwaitEnd(a)

Next ==
  \/ \E a \in ASID : User(a) \/ Handler(a) \/ SstStep(a) \/ FlashInterrupt(a)
  \/ SwapMutex \/ Ssi \/ \E p \in Proc : Preempt(p)

Spec == Init /\ [][Next]_vars

(* Fairness: a dispatched process executes the step it is at before its     *)
(* slice ends (strong: it may be preempted first again and again), a user   *)
(* program that computes on is preempted, the SSI and swapMutex() run until *)
(* they block, and a flash device completes what it was asked for.          *)
Fairness ==
  /\ \A a \in ASID : SF_vars(Handler(a)) /\ SF_vars(SstStep(a))
  /\ WF_vars(SwapMutex) /\ WF_vars(Ssi)
  /\ WF_vars(\E a \in ASID : FlashInterrupt(a))
  /\ WF_vars(\E p \in Proc : Preempt(p))

FairSpec == Spec /\ Fairness
------------------------------------------------------------------------------
Message == [from : Proc, op : {"support", "doio", "kill", "get", "release", "terminate",
                               "answer", "grant", "ok", "error"}]

TypeOK ==
  /\ current_process \in Proc \cup {NULL} /\ readyQueue \in Seq(Proc)
  /\ receiving \subseteq Proc /\ pcbFree_h \subseteq Proc /\ msg_inbox \in [Proc -> Seq(Message)]
  /\ pc \in [Proc -> UserSteps \cup MutexSteps \cup SstSteps \cup {"ssi"}]
  /\ client \in Proc \cup {NULL} /\ missing \in [ASID -> Page \cup {NULL}]
  /\ frame \in [ASID -> Frame] /\ nextFrame \in Frame
  /\ do_io \in [ASID -> [asid : ASID \cup {NOPROC}, cmd : {"none", "read", "write"},
                         page : Page \cup {NULL}]]
  /\ quitting \subseteq ASID /\ scan \in [ASID -> 0..POOLSIZE]
  /\ swap_table \in [Frame -> [asid : ASID \cup {NOPROC}, owner : ASID \cup {NULL},
                               page : Page \cup {NULL}]]
  /\ privatePgTbl \in [ASID -> [Page -> Frame \cup {INVALID}]]
  /\ tlb \in [ASID -> [Page -> Frame \cup {INVALID, ABSENT}]]
  /\ ram \in [Frame -> Value \cup {NULL}] /\ flash \in [ASID -> [Page -> Value]]
  /\ device \in [ASID -> [cmd : {"none", "read", "write"}, page : Page \cup {NULL},
                          frame : Frame, who : ASID \cup {NULL}]]

\* At most one live user process is between the grant and the release of the mutex
\* over the swap table (pageFaultExceptionHandler, swapMutex).
MutualExclusion ==
  \A a, b \in ASID \ pcbFree_h : pc[a] \in Critical /\ pc[b] \in Critical => a = b

\* What the TLB translates is what the page tables and the swap table say, so
\* that no process reads a frame that holds another page (updateTLB).
TranslationSound ==
  \A a \in ASID, x \in Page :
    /\ tlb[a][x] \in Frame => privatePgTbl[a][x] = tlb[a][x]
    /\ privatePgTbl[a][x] \in Frame =>
         LET e == swap_table[privatePgTbl[a][x]] IN e.asid = a /\ e.page = x

\* What a page holds is in its frame while it is mapped and while the handler
\* writes it out, and on the flash device otherwise.
BeingWritten(a, x) ==
  {f \in Frame : \E u \in ASID : pc[u] \in {"askWrite", "getWrite"} /\ frame[u] = f
                   /\ swap_table[f].owner = a /\ swap_table[f].page = x}
mem ==
  [a \in ASID |-> [x \in Page |->
     IF privatePgTbl[a][x] \in Frame THEN ram[privatePgTbl[a][x]]
     ELSE IF BeingWritten(a, x) # {} THEN ram[CHOOSE f \in BeingWritten(a, x) : TRUE]
     ELSE flash[a][x]]]

\* Paging is invisible: what a page holds changes only when its own process,
\* running, writes to it, wherever the page then is.
VM == INSTANCE VirtualMemory WITH Process <- ASID, running <- current_process
Transparent == VM!Spec

\* An SST leaves no frame behind: once it asks the SSI to end it, no entry of
\* the swap table is its child's (terminate, cleanSwapTable).
FramesReturned ==
  \A a \in ASID, f \in Frame :
    pc[sst_pcb[a]] \in {"suicide", "dying"} => swap_table[f].asid # a

\* "frame unoccupied": what selectFrame() gives away holds no page of a process
\* that still computes.
FreeMeansUnmapped ==
  \A f \in Unoccupied, a \in ASID \ quitting, x \in Page : privatePgTbl[a][x] # f

\* Every page fault is served, or its process ends: swapMutex() grants the
\* mutex, the flash device answers and the handler returns.
FaultServed == \A a \in ASID : pc[a] = "askSupport" ~> pc[a] = "user" \/ a \in pcbFree_h

\* A user process whose SST was told to terminate is killed, wherever it is: in
\* its handler, waiting for the mutex or for a device, or computing.
QuitterKilled == \A a \in ASID : <>(a \in quitting) => <>(a \in pcbFree_h)

\* A killed process never comes back (killProcess).
KilledForGood == [][pcbFree_h \subseteq pcbFree_h']_vars
==============================================================================
