# A verification of MicroPandOS

MicroPandOS is a small operating system for the uMPS3 machine: a message-passing
nucleus (phase 1 and 2) with a support level on top (phase 3) that gives user
programs virtual memory and device services. This directory holds TLA+ models
of it, their TLC configurations, and proofs checked by TLAPS.

Run in this directory:

    tlc -workers 2 -config nucleus_io.cfg MCNucleus     # any .cfg below
    tlc -workers 2 -config pager_memory.cfg MCPager
    tlc -workers 2 -config support.cfg MCSupport
    tlc -workers 2 -config listx.cfg MCListX
    tlc -workers 2 -config klog.cfg MCKlog
    tlapm NucleusProofs.tla                             # any *Proofs.tla, QueueLemmas.tla

Contents: 1 the system, 2 the modules, 3 the model of the nucleus, 4 the model of
virtual memory, 5 the rest of the support level, 6 the lists, the log and the
addresses, 7 runs and bounds, 8 fairness, 9 disagreements found, 10 proofs, 11
what is left out.

## 1. The system

One processor. Exception and interrupt handlers run with interrupts off, so
nothing interleaves *with* a handler. Everything else is a process, and all of
the interleaving is between handlers and the one process that is not like the
others: the **SSI** runs in kernel mode, changes the same globals as the
handlers (the PCB queues, `softBlockCount`, `process_count`, the sibling lists)
and runs with interrupts **on**. Its status word (`initialize.c:55`) lacks
`TEBITON`, so that the local timer never preempts it, but a device or the interval
timer may interrupt it between any two instructions.

| component | state | operations | talks to |
|---|---|---|---|
| PCB pool, queues, tree (`phase1/pcb.c`) | `pcbTable`, `pcbFree_h`, the queue heads; per PCB `p_list`, `p_parent`, `p_child`, `p_sib` | `allocPcb`, `freePcb`, `insertProcQ`, `removeProcQ`, `outProcQ`, `insertChild`, `removeChild`, `outChild` | called by handlers and the SSI |
| Messages (`phase1/msg.c`) | `msgTable`, `msgFree_h`, `msg_inbox` of each PCB | `allocMsg`, `freeMsg`, `pushMessage`, `popMessage` | called by `sendMessage`, `receiveMessage`, `deviceInterrupt` |
| Kernel lists (`headers/listx.h`) | the links | add, delete, splice-free circular lists | under both of the above |
| Start-up (`initialize.c`) | everything | `main` | makes the SSI and `test`, calls `scheduler` |
| Scheduler (`scheduler.c`) | `readyQueue`, `current_process`, the counters | `scheduler`: dispatch, HALT, WAIT, PANIC | ends every blocking handler |
| Exceptions (`exceptions.c`) | `current_process`, inboxes | `sendMessage`, `receiveMessage`, `passUpOrDie` | messages; `killProcess` |
| Interrupts (`interrupts.c`) | `devQueue`, `pseudoClockQueue`, device registers | `processorLocalTimer`, `intervalTimer`, `deviceInterrupt`, `getDeviceNumber` | wakes processes, answers `DOIO` |
| SSI (`ssi.c`) | all of the above | create, terminate, doIO, clock, time, support, pid; `killProcess` | receives requests, sends answers |
| Pager (`vmSupport.c`) | `swap_table`, page tables, TLB | `pageFaultExceptionHandler`, `swapMutex`, `flashDev` | messages to `swap_pcb` and the SSI |
| SST and system calls (`sst.c`, `sysSupport.c`) | a `support_t` per user process | `SST`, `terminate`, `writeString`, `programTrapsHandler` | user process, SSI, pager, `test` |
| `test` (`initProc.c`) | `uProcCount` | creates `swapMutex` and the SSTs, waits for their end | SSI, SSTs |
| Log (`klog.c`) | a circular text buffer | `klog_print` and variants | a debugger |

A request travels as follows. A client does `SENDMESSAGE` to the SSI and
`RECEIVEMESSAGE` from it. `sendMessage` pushes the message on the *head* of
the inbox (inboxes are stacks) and, if the SSI is in `receiveMessageQueue`,
makes it ready. The SSI serves one request and answers with a message; `DOIO` it does
not answer: it unlinks the client from whatever queue it is in, stores it in
`devQueue` and writes the command, and `deviceInterrupt` answers in the SSI's
name.

What makes this hard, and the properties that make each part correct:

- *Queues.* A PCB has one `p_list` node: it must be in one place at a time. The SSI moves
  PCBs that handlers move too, and moves them on the word of requests that
  may have waited in its inbox while the sender died. One of these ways leads to two places, and
  no other (`OnlyFreedTwice`). Outside `killProcess` a PCB must be somewhere (`NoProcessLost`).
- *Messages.* Whoever `receiveMessage` blocks is woken by the message it waits for
  (`NoLostWakeup`); the pool loses messages in two ways, and in no other (`MessagesConserved`).
- *The SSI protocol.* Each request has one answer, given by one of three
  places in the code (`ExactlyOneAnswer`), in the end (`Answered`), and never before what was asked
  for has been done (`RequestsAnswered`).
- *Devices.* Whoever waits for a device stays in its slot until that device has finished, and is
  there when it has: there are four exceptions, and no other (`RequesterKept`).
- *The scheduler* tells HALT, WAIT and PANIC apart by two counters that must agree
  with the queues (`HaltOnlyWhenDone`, `WaitOnlyForIo`, `PanicOnlyOnDeadlock`), and the
  ready queue is round robin (`NoOvertaking`).
- *Termination.* `killProcess` recurses over a tree whose nodes may have been
  freed and allocated again, with interrupts on, while its victims are moved by
  interrupts (`KillSound`, `TreeSound`).
- *Virtual memory.* The swap table is protected by a mutex that is a process
  and a convention between messages (`MutualExclusion`, `FaultServed`). Page
  tables, TLB, swap table, frames and flash blocks must agree although the owner
  of a page runs while another process evicts it (`TranslationSound`,
  `Transparent`), and a process that ends must take its pages with it
  (`FramesReturned`, `FreeMeansUnmapped`, `QuitterKilled`, `KilledForGood`).
- *The rest of the support level.* An SST and its program share a support structure and end
  together (`EndTogether`); `test` ends after all (`TestEndsLast`), and then the machine halts
  (`Halts`). A program receives its answer from anyone (`NoStaleAnswer`). A text is printed by
  a device per character, with an address computed forth and back (`InterruptFindsSst`), by a
  thread that may fault on the pages of its program, and still whole and in order (`PrintsAsAsked`).
  The two share the place where the state of a page fault is saved, and one may load the other's: not, however,
  while the program computes (`StrayOnlyInRequest`).
- *The lists* are changed by the SSI with interrupts on, store by store, while handlers change them
  too. As long as no handler changes the very list the SSI is changing, they are lists and queues (`DoublyLinked`,
  `NobodyLost`, `AreQueues`). So is the log (`IndexInLine`, `ShowsLog`).

## 2. The modules

| module | models | composed with |
|---|---|---|
| `Nucleus` | phase 1 and 2 at the granularity of interrupts | implements `RequestReply` |
| `RequestReply` | abstract: requests that are served, without queues, messages, counters, interrupts or an SSI | |
| `NucleusProofs` | | theorems about `Nucleus`, with `QueueLemmas` |
| `QueueLemmas` | | facts about sequences for the proofs of every component |
| `Pager` | `vmSupport.c`, `swapMutex`, the handlers of several user processes, the TLB, traps in the handler, the end of a process and its SST | implements `VirtualMemory` |
| `VirtualMemory` | abstract: memory without paging | |
| `PagerProofs` | | theorems about `Pager`, with `QueueLemmas` |
| `Support` | `sst.c`, `sysSupport.c`, `initProc.c`: everything of the support level besides paging | extends `DeviceMap`; implements `Console` |
| `SupportProofs` | | theorems about `Support`, with `DeviceMapProofs` and `QueueLemmas` |
| `Console` | abstract: printing without threads, pages or interrupts | |
| `DeviceMap`, `DeviceMapProofs` | the address arithmetic of `doIO`, `flashDev`, `SSTrequest`, `deviceInterrupt`, and theorems about it | |
| `ListX`, `ListXProofs` | `listx.h` and the queue half of `pcb.c`, pointer by pointer; theorems about it, with `QueueLemmas` | implements `Queues` |
| `Queues` | abstract: queues that change by one PCB at a time | |
| `Klog`, `KlogProofs` | `klog.c`, and theorems about it, with `QueueLemmas` | |
| `Layout`, `LayoutProofs` | where the kernel stacks and the swap pool are | |
| `MCNucleus`, `MCPager`, `MCSupport`, `MCListX`, `MCKlog` | instances for TLC | |

`Nucleus` takes one list operation for one step; `ListX` says under which condition that is
right. `Pager` and `Support` take of the nucleus what its processes notice; `Nucleus` shows
what is behind it. `Support` takes a page fault for two steps; `Pager` has the others.

Still worth doing: the sibling lists in `ListX`, and `CpuTime` (`p_time` over a timer that
counts down).

## 3. The model of the nucleus

`Nucleus.tla` has one variable per global of the code, under its name.

| variable | code |
|---|---|
| `pcbFree`, `readyQueue`, `pseudoClockQueue` | sequences of PCBs, as the lists are FIFO |
| `receiveMessageQueue` | a set: the code searches it and never looks at its order |
| `devQueue[d]` | the PCB waiting for device `d = <<line, number>>`, or `NULL` |
| `p_parent`, `p_child` | the tree; `p_child[q]` is the list of `q`'s children as a set. A child that is in no list of its parent (its parent's PCB was reused) is `Orphaned` |
| `msg_inbox`, `msgFree` | inboxes (newest first), and the number of free messages |
| `process_count`, `softBlockCount` | the counters, which may go below zero |
| `awaiting[p]` | stands for `p`'s program counter and registers: the sender it names in the `RECEIVEMESSAGE` it is stopped at, or `Computing` |
| `step`, `request`, `loaded`, `doomed` | where the SSI (or a dying process in `killProcess`) is, the request it serves, the register of `softBlockCount`, and the recursion stack of `killProcess` |
| `devState` | per device: idle, busy, interrupting with a good or an error status |
| `machine`, `pltPending` | running, `WAIT`, `HALT`, `PANIC` or broken; a local timer interrupt left pending in the wait state |

**Atomicity.** A handler together with the `scheduler()` it ends in is one
action: it runs with interrupts off and nothing can fall in between. A
client's action is one system call. The SSI's services and `killProcess` are
cut where an interrupt matters: between the load and the store of `softBlockCount++` /
`--`, between looking for a process and unlinking it, between unlinking it and
the device command, between two frames of the recursion. `passUpOrDie` runs
the same `killProcess` with interrupts off: there the steps are the same but `InterruptsOn` is
false until the last one, so that no other action can intervene. One list
operation is one step (section 6).

**Actions.** `Request` (send to the SSI), `SendToClient`, `StartReceive`, `Receive`
(`receiveMessage`: take the first match or block), `Preempt` (`processorLocalTimer`),
`Trap` (`passUpOrDie` without a support structure); `SsiReceive`,
`SsiCreate`, `SsiCreateFails`, `SsiReply`, `SsiTerminate`, `SsiLoad`,
`SsiStore`, `SsiWaitForClock`, `SsiBlock`, `SsiCommand`; the nine steps of
`KillProcess`; `IntervalTimer`, `DeviceCompletes`, `DeviceInterrupt`,
`LocalTimerIdle`. `Scheduler` is an operator over the ready queue and counters its caller leaves.

**Clients** are any program that pairs each SSI request with a `RECEIVEMESSAGE`
from the SSI, as every client in the repository does: they compute, ask for
services, send to each other (dead destinations included), receive from
anyone or someone, trap, are preempted anywhere. `drives` says which devices a process uses and
`Orderly` whether processes may terminate others or die with children: several
properties hold only in orderly executions, because the code has the
flaws of section 9. Every property says in its run which kind it is about.

**Broken states.** After a NULL dereference (`scheduler`'s `breakPoint`
branch, the local timer without a current process) the model stops in `"crash"`,
after linking a node that is linked or unlinking one that is not in `"corrupt"`: two lists then
share a node, and what follows depends on the links and not on the lists any more. `KillFree` frees
its PCB whatever list it is in, as `freePcb()` does, and ends in `"corrupt"` if it is in one.

**The abstract specification** `RequestReply` has for each process what it computes or waits
for: a request, a device that works for it, a tick of the clock, or an answer it has only to
take. A process is made for one request, a device works for the one process that asked for it
from the command to the answer, a tick wakes all who wait for it. The refinement mapping
`Standing` finds the request of a process where the code has it: in the inbox of the SSI, in
the service under way, in the clock queue, in a slot of `devQueue` (where it is not started until
the command is written), or answered. A sender that the clock wakes before `waitForClock()` has
answered it counts as answered: it gets to run only when the SSI blocks, with the answer sent.

**A query** stands for `GETTIME`, `GETSUPPORTPTR` and `GETPROCESSID`, which only reply.

## 4. The model of virtual memory

`Pager.tla` models the processes of the support level. The nucleus is in it as
far as they notice: a FIFO ready queue, inboxes that are stacks, `RECEIVEMESSAGE`
that blocks, an SSI that serves one request at a time and whose answer wakes a
process. (`Nucleus` shows what is behind that, and its flaws are in `Pager` where
these processes meet them: `SsiDoIO` revives a dead sender.)

| variable | code |
|---|---|
| `current_process`, `readyQueue`, `receiving`, `msg_inbox`, `pcbFree_h` | the nucleus's; `receiving` is `receiveMessageQueue` |
| `pc[p]` | the next step of process `p`: a step is what runs between two points where another process can come in |
| `client` | `sender` in `swapMutex()` |
| `missing[a]`, `frame[a]`, `do_io[a]` | `p`, `f` and `do_io_struct` on the stack of the page fault handler |
| `quitting`, `scan[a]` | who has sent a `TERMINATE`; the `i` of `cleanSwapTable()` |
| `swap_table`, `nextFrame`, `privatePgTbl` | the tables and the static `f` of `selectFrame()`. A page table entry is a frame or `INVALID`; the D bit is always set (`initProc.c:98`), so that no TLB-Modification occurs |
| `tlb[a][x]` | what the TLB says of page `x` of process `a`: a frame, `INVALID`, or `ABSENT` |
| `ram`, `flash`, `device` | what frames and blocks hold, the command in progress on each flash device and the process in its `devQueue` slot |

**Actions.** A user process writes to a page, misses the TLB (`Refill`, which may push
any other entry out), faults, or asks to terminate. The handler of a fault is
the steps `AskSupport` ... `Release`, one per system call or per stretch of code
between two such calls that another process could see: "is the frame occupied" and
the read of `sw_asid` for the write are two steps, since the SST changes the
field meanwhile; the page table and the TLB are one step, since interrupts are
off. `FlashDone` leads through `TrapRelease`, `TrapAsk`, `TrapGet`, `TrapTell` after an
error, and then on in the handler, as the code does. `swapMutex` has
three steps, an SST `Serve`, `Scan`, `Clear` and `Suicide`. The SSI's services are
one action each. `FlashInterrupt` is the end of a transfer with its interrupt.

`PreemptAt` names the steps before which a time slice may end. `Anywhere` is the
machine with arbitrarily short slices; `ButInMutex` excludes the few
instructions `swapMutex()` runs between being dispatched and blocking, which a
slice of 5 ms outlasts; `InUserMode` also excludes the handler and the SST. `QuietEnd`
says that a program touches no absent page between its `TERMINATE` and its end.

**The abstract specification** `VirtualMemory` has no frames, tables or devices: one
memory cell per page of each process, changed only by its own process while it runs.
The refinement mapping `mem` finds a page in its frame while it is mapped, in the frame it is
being written from while the evictor waits for the device, and on the flash device otherwise.

## 5. The rest of the support level

`Support.tla` models `test()` from its first instruction to HALT: it creates `swapMutex` and
the SSTs, each SST creates its program and serves it, and `test()` counts the ends.

| variable | code |
|---|---|
| `alive`, `msg_inbox`, `pc` | the PCBs that are not free, their inboxes, and the step each process is at |
| `asid`, `uProcCount` | of `test()` |
| `request[a]` | the payload of program `a` with the text it asks to print. It is in the *program's* memory: a message is a pointer, and the SST reads and changes what it points to (`s->string++`) |
| `printed[a]`, `do_io[a]` | `i` and `do_io` of `writeString()`, on the stack of the SST; the SSI reads `do_io` when it serves the request |
| `devQueue`, `printing`, `output` | printers and terminals: who waits, the character in progress, what has been printed |
| `page[a]`, `exceptState[a]` | whether the page of program `a` with its payload and strings is in the TLB, in memory or absent; `sup_exceptState[PGFAULTEXCEPT]` of the structure that the SST shares: whose state it is |

**Actions.** `newProc` and `suicide` are shared by `test()` and the SSTs. `TestNewSwap`,
`TestNewSst`, `TestCounts`; `SstStart`, `SstReceive`, `SSTrequest`, the four steps of
`writeString`, `SstAnswer`, `terminate`; `Ask...`, `usyscallSend`, `Sent`, `usyscallReceive` of a
program, `Trap` and `programTrapsHandler`; `PageFault` and `PageIn` of either. `SsiCreate`,
`SsiDoIO`, `SsiKill` and `DeviceInterrupt` are the nucleus. A system call of a program goes
through `generalExceptionHandler()`, whose question to the SSI for the support structure is
part of the step. `Drop` and `Evict` are what other programs do to a page, at any time.

A program is any that asks for services and receives from anyone after each, as those in
`testers/` do (`print.c:20`); it may stop computing after `MaxRequests` requests, and then only terminates.

**Going astray.** A step `"foreign"` is the `LDST` of a state that another process saved,
`"nested"` a TLB miss inside the nucleus's own handler, `"lost"` a return from
`programTrapsHandler()`, which has no caller to return to. `Where` says at which step a process
is, or will be when its page fault has been handled: it is `"foreign"` as soon as the other process of
the program has overwritten the state. `Astray` is that some process is or will be at one of the first
two. From there on a process executes code at the state of another, and no property but
`TypeOK` and `StrayOnlyInRequest` claims anything. The inboxes of processes that have been killed keep
their messages until `allocPcb()` empties them.

**The abstract specification** `Console` has a program, its text and two devices. A step
prints the next character or resumes the program once nothing is left. In the refinement
mapping, what is left of a text leaves out the character already printed whose pointer is not
yet advanced, and is cut by the length that was given.

## 6. The lists, the log and the addresses

**`ListX`** has the fields `next` and `prev` of the four list heads and of the `p_list` of each PCB. What
a function of `listx.h` stores is a sequence of stores in the order of the source. In a handler they are one
step. In the SSI each store is a step, and `intervalTimer()`, `deviceInterrupt()` may come
between any two (the two loads of `list_del` are one step with the call). `where` says which list a PCB was put
into; it changes with the last store, or at once in a handler. `CreateProcess`,
`WaitForClock`, `DoIO` and `KillProcess` are the calls each service makes, on any PCB;
what else the services do, messages and the sibling lists are left out.

Nothing in the code keeps a handler from a list the SSI is changing, and nothing in the model does.
`clashed` records that it has happened: a handler has changed the list that the SSI is in the middle of an
operation on. The properties of the run `listx` are about executions up to the first clash, in which handlers
change *other* lists between any two stores, and `listx_race` is about the clash: `DoneIsDone` says that once the operations are
done every list is complete, and it is not. After a clash the operation under way and the handlers go on,
following the pointers as they are; `TypeOK` is about that, too. The further services of the SSI and the
search of `sendMessage()`, which go through lists of any shape then, are not modelled.

**`Klog`** has the two indices and the buffer. A handler prints one character per step and no
process runs before it is done; a process loads and stores the indices step by step, as
the compiler's `-O0` does. `++klog_char_index >= KLOG_LINE_SIZE` may compare what it stored or load the index again:
both are allowed. Digits, letters and the newline are told apart, other characters are not.
(`klog_print_hex` prints the lowest digit first, and so it is modelled. Without
`DEBUG` only error paths and `pageFaultExceptionHandler()` print.)

**`DeviceMap`** is pure: register addresses by ASID, by line and number, and the
slot of `devQueue` that `doIO()` computes back. `Support` uses it for its devices.

**`Layout`** is pure: the stack pointers that `main()`, `test()` and `initSupportStruct()` compute for any
number of programs, and the frames of the swap pool.

## 7. Runs and bounds

### Nucleus

All instances but `nucleus_lines` have four PCBs: the SSI, the root and two that are free at
first, so that there are trees of depth two or three (with a parent, a child and a grandchild),
the pool of PCBs can be exhausted, and PCBs are reused. `Budget` bounds how often the clients
together use each operation; an operation in `Endless` is not bounded.
`MaxMessages` is 2 to 4, so that the pool of messages can run out. Devices are a disk and a terminal,
and the disk 0 that `getDeviceNumber` falls back to;
`nucleus_live` has one disk and one process that drives it. `nucleus_lines` has the SSI, the root and one
free PCB, three disks of one line, two of which may be pending while the third works, and a terminal that may fail. An error that
is not acknowledged interrupts for ever and decrements `softBlockCount` each time: states in which that is below zero are
checked, and not followed (`CONSTRAINT SoftBound`).

| run | checks | shows |
|---|---|---|
| `nucleus_io` | `ExactlyOneAnswer`, `NoProcessLost`, `HaltOnlyWhenDone`, `PanicOnlyOnDeadlock`, `RequestsAnswered` | orderly clients, one device each, one on a line at a time, the disk may fail: the request protocol and the counters the scheduler decides on are right, with interrupts anywhere in the SSI, and the services are those of `RequestReply` (506,000 states) |
| `nucleus_kill` | `TreeSound`, `KillSound`, `OnlyFreedTwice` | any client terminates any other, one traps, interrupts fall into `killProcess`, dead clients have requests queued, and the PCBs freed are given to new children, of dead parents too. A PCB gets into two places in one way only: freed by `killProcess()` after an interrupt has made it ready (1.6 million states) |
| `nucleus_lines` | `TypeOK`, `NoLostWakeup`, `NoOvertaking`, `RequesterKept`, `MessagesConserved` | two clients drive any of the devices, at the same time too, exchange messages while a pool of two runs out, and one may be terminated while it waits or has messages, and its PCB be used again: no wakeup is lost, nobody overtakes, a device and the process in its slot part in four ways only, and messages are lost in two (1.1 million states) |
| `nucleus_live` | `Answered` under `FairSpec` | clients that ask for ever, and still each request is answered |

The four ways of `RequesterKept` (`Parted`) are: the process is killed; another device's interrupt on the line is taken for its own;
a terminal whose error is not acknowledged interrupts again; and a new command is written while the end of an earlier
operation is pending. The two of `MessagesConserved` are: sent to a process that is dead, and left in an
inbox that `allocPcb()` empties for a new process. `nucleus_lines` meets all six: without any one of them TLC finds
the property violated there.

The run `nucleus_idle` ends in a violation and shows a disagreement of section 9.

Are the bounds enough? The races of this code are between the SSI and one
interrupt, or two; they need one victim, one more process to wake and a
third to observe: four PCBs. (The properties of `nucleus_lines` are about one step and the two clients in it.) Two uses of DOIO and an interval timer that goes off
at any time let a second interrupt fall into the handling of the first. `nucleus_kill` allows one
`TERMINATE`, which with the recursion and the invalid messages of dead clients reaches
three nested frames. What must hold for any number is proved (section 10).
Deadlock is not checked: HALT, PANIC and a spent budget are states in which the machine
really stops. The type invariant, `TypeOK`, is checked in `nucleus_lines`, and proved.

### Virtual memory

| run | instance | checks | shows |
|---|---|---|---|
| `pager_memory` | 2 processes with 3 pages, 2 frames, 2 values, slices end in user mode | `TranslationSound`, `Transparent`, `FaultServed` under `FairSpec` | what the TLB translates is what the tables say, paging is invisible, each fault is served, and nothing deadlocks (178,000 states) |
| `pager_end` | one of two processes terminates, slices end anywhere | `TypeOK`, `MutualExclusion`, `FramesReturned` | one pager at a time, with every step open to preemption, and a dead process owns no frame (574,000 states) |
| `pager_trapped` | 2 pages, 1 frame, both flash devices may fail | `QuitterKilled` under `FairSpec` | who traps in its handler is killed |

The run `pager_zombie` ends in a violation (section 9).

Three pages over two frames make every fault beyond the second an eviction, of
a page of the same process or of the other, unoccupied and occupied frames both
occur, and a page comes back after its eviction; two processes are the evictor and the
owner. One frame (`pager_trapped`, `pager_hang`) makes all faults collide. A
third process adds only a longer inbox of the mutex, whose order is what
`pager_starve` is about: with two processes there is never more than one waiting, and
so `pager_memory` claims what it does for two. It checks deadlock; the others do not, since a
process that ended is a real end. Slices that end in the middle of the handler are in `pager_end`.

### Support, lists, log

| run | instance | checks | shows |
|---|---|---|---|
| `support` | 2 programs; one prints on its printer a text cut by its length; the other prints on its terminal with a length beyond the end, reads the clock, may trap, and may lose its page at any time | `TypeOK`, `TestEndsLast`, `EndTogether`, `NoStaleAnswer`, `InterruptFindsSst`, `StrayOnlyInRequest`, `PrintsAsAsked`, `Halts` under `FairSpec` | nobody goes astray but between `SENDMSG` and `RECEIVEMSG`, and until somebody does texts are printed as asked, everyone ends with its SST, and the machine halts (253,000 states) |
| `listx` | 4 PCBs: the SSI, one ready, two free | `TypeOK`, `DoublyLinked`, `NobodyLost`, `AreQueues` | until a clash the lists are queues, store by store (140,000 states, symmetric ones counted once) |
| `klog` | 3 lines of 3 characters, one process and handlers, 3 calls | `TypeOK`, `IndexInLine`, `ShowsLog` | the buffer shows the last lines printed (800,000 states) |

The states in which somebody has gone astray are checked in `support`, and not followed (`CONSTRAINT Sane`; `Halts` claims
nothing of them).
Two programs are enough for `support`: they meet only in `test()`, the SSI and the memory, which each
serve one at a time and in any order; two devices of two kinds tell a wrong slot from the right one
(`DeviceMapProofs` has all of them). One eviction and any number of TLB drops hit every step at which the SST touches the page.
A text of two characters has a first, a last and a next. In `listx` a list can hold up to three PCBs besides the one
being changed, so that the neighbours of a store are two PCBs, a PCB and the head, or the head alone; there is no
other bound. In `klog` the longest text, eight digits, passes the end of the line twice and three calls
wrap around the buffer. All of them check deadlock; `Halt` and `Done` are the ends.

## 8. Fairness

`FairSpec` assumes what the machine gives: the processor executes the running
process (`WF` of `Ssi` and `KillProcess`, which no process preempts), the local timer ends the slice of
a client that computes on (`WF` of `Preempt`), a busy device ends its operation and a
pending interrupt or the interval timer is taken (`WF`). `Receive` is strongly
fair: preemption disables it again and again, but a time slice (5 ms) is far
longer than a system call, so a client dispatched infinitely often gets to execute
the call it is stopped at. Nothing is assumed of `Request`, `SendToClient`,
`StartReceive` and `Trap`: a client need never ask. Answers do not depend on the
stack order of the inbox: clients cannot run while the SSI has requests, except one that
an interrupt finds running already, and so the SSI empties its inbox each time.

`FairSpec` of `Pager` assumes the same: a process dispatched again and again
gets to execute the step of the handler, or of the SST, that it is at before its slice ends (`SF` of
`Handler` and `SstStep`: preemption disables them), `swapMutex` and the SSI run until they block,
a program that computes on is preempted, a flash device ends its transfer (`WF`). Nothing is assumed of
what user programs do, nor of whether a device succeeds.

`FairSpec` of `Support` has weak fairness of each process: the ready queue is round robin, so
that a process that need not wait gets on. There is no preemption in the model that could disable a step. It includes that programs terminate,
as those of the repository do: `Halts`, which is `<>(Halted \/ Astray)`, is about what follows. The order in which the SSI, a
stack, takes requests is not fair, and need not be: each sender waits for its answer.

## 9. Disagreements found

Each has a configuration under which TLC prints the trace that shows it. The runs of
`PROJECT.json` are `nucleus_idle` and `pager_zombie`; the others are kept beside them, to be run by hand: they repeat a cause or a property of those, or show where the condition of a passing run ends.

- `nucleus_idle`: `softBlockCount++` in the interruptible SSI loses a
  decrement; the scheduler then waits for I/O nobody requested (`ssi.c:88`).
- `nucleus_moved`: `killProcess()` looks for its victim in the ready queue, in `receiveMessageQueue` and in the clock queue, one after the
  other and with interrupts on. If the interval timer makes the victim ready after the first search, it is taken for
  one that waits for a device, and is freed while it is in the ready queue (`ssi.c:164`, where line 158 says
  "remove from any process queue": `RemovedFromAnyQueue`). `OnlyFreedTwice` says that this is the only way to get a PCB into two lists.
- `nucleus_line`: two pending devices of one line are taken for device 0 (`interrupts.c:77`),
  whose slot is empty; the two are never served.
- `nucleus_storm`: a terminal that reports an error is answered but not
  acknowledged, and interrupts again (`interrupts.c:141`).
- `nucleus_zombie`: `doIO` for a sender that was killed meanwhile unlinks its
  PCB from the free list and brings it back to life uncounted (`ssi.c:63`).
- `nucleus_full`: `CREATEPROCESS` with no free PCB is never answered (`ssi.c:23`),
  while `p2test.c:201` expects `NOPROC`.
- `nucleus_ipc`: when the pool of messages is empty a request is dropped (`exceptions.c:112`), and its sender waits for the answer for ever.
- `nucleus_timer`: a local timer interrupt pending when the scheduler enters
  WAIT is taken there with no current process (`scheduler.c:35`).
- `nucleus_shared`: a second process on a busy device overwrites the first in
  `devQueue` (`ssi.c:63`), which is then in no queue and never resumed.
- `pager_clean`: `cleanSwapTable()` tests `sw_asid` and then stores, without the
  mutex; a pager that claims the frame in between has its entry cleared, and its
  frame is given away while it is mapped (`vmSupport.c:15`).
- `pager_trap`: after a flash error the handler releases the mutex
  (`sysSupport.c:42`) and, since `programTrapsHandler()` returns, goes on changing the
  tables while another process holds it.
- `pager_hang`: `sw_asid` is read again for the write (`vmSupport.c:89`); cleared meanwhile
  by an SST, it is -1, which addresses disk 6. No interrupt ever comes, and the mutex is never released.
- `pager_holder`: a process killed while it waits for the mutex or holds it, since
  it faulted after its `TERMINATE`, keeps `swapMutex()` waiting for its release (`vmSupport.c:28`).
- `pager_starve`: the inbox of `swapMutex()` is a stack (`vmSupport.c:23`,
  `exceptions.c:132`): two processes that fault in turn keep a third from the mutex for ever.
- `pager_zombie`: a pager that traps sends `TERMINATE` and then a `DOIO` (`sysSupport.c:48`); the
  SSI, whose inbox is a stack, kills it first and then serves the `DOIO`, which takes it
  out of `pcbFree_h`: it comes back and pages on, with its SST gone.
- `support_tod`: `receiveMessage()` stores the answer to `GET_TOD` through an address of the program, in the exception handler
  (`exceptions.c:165`). If the page has left the TLB since the program asked, the miss is an exception in the handler, and
  the state saved at `BIOSDATAPAGE` is overwritten.
- `support_fault`: an SST faults on the string of its program through the support structure that both share; if the program
  faults at the same time, one of them loads the other's state (`sst.c:45`, `vmSupport.c:44`). It takes a program that runs
  while its SST reads, that is after `SENDMSG` has returned and before `RECEIVEMSG`; `StrayOnlyInRequest` says that it takes that.
- `listx_race`: the SSI's `list_add_tail` of a PCB is interrupted between its stores by `deviceInterrupt()`, which inserts another into
  the same queue: when both are done (`DoneIsDone`) one of the two is in no list, and never runs (`ssi.c:28`, `listx.h:104`).
- `klog_two`: two processes print, and one is preempted between the increment of the index and the comparison: the index
  runs beyond its line, and beyond the buffer (`klog.c:77`).
- The RAM check of `test()` (`initProc.c:39`, with `DEBUG`) adds the bytes of the swap *table* to the start of the swap *pool*. Theorem
  `RamCheckTooWeak` gives a machine it accepts on which a stack is a frame of the pool. The machine of the repository has enough RAM.

## 10. Proofs

### Nucleus

`NucleusProofs.tla` proves for all constants satisfying `NucleusAssumption`
(distinct SSI and root, a free list that enumerates the other PCBs, device 0
on each line in use; nothing on sizes, budgets or order):

| theorem | statement |
|---|---|
| `TypeCorrect` | `Spec => []TypeOK` |
| `OnlyFreePcbDoubles` | `Spec => OnlyFreedTwice` |
| `TreeCorrect` | `Spec => []TreeSound` |
| `KillCorrect` | `Spec => []KillSound` |
| `WakeupNeverLost` | `Spec => []NoLostWakeup` |
| `NobodyOvertakes` | `Spec => NoOvertaking` |
| `RequesterStays` | `Spec => RequesterKept` |
| `PoolKept` | `Spec => MessagesConserved` |

All of them hold in every execution, the disorderly ones included. The second to fourth are not inductive alone. They come from
(lemma `Invariant`)

    IInv == TypeOK /\ TreeSound /\ KillSound /\ DyingOut /\ (machine # "corrupt" => OnePlace)

- `OnePlace`, one place for each PCB, is broken in one place of the code, by `KillFree` of a PCB that is linked, and there the machine
  becomes `"corrupt"`. Otherwise it survives `KillFree` because the PCB is in no device slot (`KillSound`: a process found in a queue
  is in none, by `OnePlace`, and no step in between puts it in one) and, if it is the current
  process, is the last of the recursion (`KillSound`).
- `DyingOut` is what is true of a victim between the search of `killProcess()` and `KillFree` whatever interrupts come: it is
  not free, and it is out of the queues that have been searched, but for the ready queue, into which an interrupt may have put it. So
  `OnlyFreedTwice` can name the ready queue: it is there that the PCB freed is found.
- `KillSound` survives `KillChild` because a child is not itself doomed:
  doomed processes have no parent (`TreeSound`).
- `TreeSound` survives `AllocPcb` because the PCB allocated is not left in the
  free list (`OnePlace`), and survives `insertChild` for a dead sender because it is
  about the two ends of the link only.

`NoLostWakeup` then needs from `IInv` that a blocked process is not running, and
that the SSI itself always receives from anyone (`WakeInv`). `NobodyOvertakes` is about
steps: each leaves the ready queue as it is, takes a process out, or appends processes that were not in
it (`OnePlace`), and `scheduler()` dispatches the first; none of these puts a process before one that was ahead of it
(`InTurn`). `RequesterStays` and `PoolKept` need only types: each step moves a device, a slot or a message with its counterpart, or
is one of the exceptions the property names.

The properties of `nucleus_io` do not hold in every execution, and are proved for all constants under one more assumption:

| theorem | assuming | statement |
|---|---|---|
| `PeacefulInvariant` | `Peaceful` | `Spec => []PInv` |
| `AnsweredOnce` | `Peaceful` | `Spec => []ExactlyOneAnswer` |
| `NobodyDropsOut` | `Peaceful` | `Spec => []NoProcessLost` |
| `HaltsWhenDone` | `Peaceful` | `Spec => []HaltOnlyWhenDone` |
| `PanicsOnDeadlock` | `Peaceful` | `Spec => []PanicOnlyOnDeadlock` |
| `ImplementsRequestReply` | `Peaceful` | `Spec => RequestsAnswered`: `Nucleus` implements `RequestReply` |

`Peaceful` is about the constants, that is about what the clients do and which devices they use; the interrupts
are not restricted, and requests other than to create a process may be made without end. Its clauses, and what
TLC finds without each:

| clause | without it |
|---|---|
| a process terminates only itself, and childless (`Orderly`) | `nucleus_zombie`: `HaltOnlyWhenDone` fails |
| clients send each other nothing | `nucleus_ipc`: there is no message left for a request, and it is dropped |
| there is a message for each client | the same: `nucleus_io` with one message violates `ExactlyOneAnswer` |
| no more processes are created than there are PCBs | `nucleus_full`: the request is never answered |
| a device has one user, and its line to itself | `nucleus_shared`, `nucleus_line` |
| no terminal fails | `nucleus_storm` |

`nucleus_io` satisfies them all. The programs of phase 3 do not: they exchange messages, their printers and
terminals share a line, and an SST terminates with its program below it. What their protocols need is in
`Pager` and `Support`.

`PInv` is a conjunction of what is proved together, because each action's case uses most of it:

- `Letters`, `OneEach`: a client that waits for the SSI has exactly one of a message in the SSI's inbox, the
  service under way, a device slot, and an answer; no one else has any. So an inbox, which is a stack, can be served in any order.
- `Places`, `Serving`, `Killed`, `Requests`: who is where while the SSI is between two steps of a service; only `killProcess()` has
  a PCB in no list.
- `Family`: a PCB returns to the free list without parent and children, so that the next process in it has no strangers for children.
- `Devices`: a device that works has its user in its slot, and is idle until `doIO()` writes the command.
- `Counting`: `process_count` and the free list add up; so do `msgFree` and the messages of `OneEach`; and there is a PCB for every
  request to create a process. `softBlockCount` is *not* exact: an interrupt between its load and its store is lost. `SoftOK` says that it
  is then too high and never too low, with the value in the SSI's register (`loaded`) and the one process the SSI is about to block or has
  counted already (`Coming`) taken into account. That is enough for `PanicOnlyOnDeadlock`; that it is not enough for `WaitOnlyForIo`
  is what `nucleus_idle` shows.
- `Ends`: what the counters were when the machine stopped.

TLC checked `PInv` on the 506,000 states of `nucleus_io` before it was proved.

`ImplementsRequestReply` shows that each step moves the standing of one process as `RequestReply` allows (`OneMoves`),
or of those on the clock (`TimerMoves`), or of none (`NobodyMoves`). By `OneEach` the request of a process is at one
place only, so that its standing is read off that place (`ByPlace`) in spite of the `CHOOSE` of the mapping, and by
`StandingKept` it changes only if the place does. The theorem covers what the budget of `nucleus_io` leaves out:
queries, unknown services, traps, and requests without end.

The proof has one lemma per action and property; facts on sequences
(`Append`, `Head`/`Tail`, `RemoveAt`, `RemoveFirst`, `SelectInSeq` through its minimum)
are in `QueueLemmas.tla`, which does not depend on the nucleus.

### Virtual memory

`PagerProofs.tla` proves for all constants satisfying `PagerAssumption` (any number of processes,
pages, frames and values, and slices that may end before any step):

| theorem | assuming | statement |
|---|---|---|
| `PagerTypes` | `Faulty = {}` | `Spec => []TypeOK` |
| `PagerExcludes` | `Faulty = {}` | `Spec => []MutualExclusion` |
| `PagerReturnsFrames` | `Faulty = {}`, `QuietEnd` | `Spec => []FramesReturned` |
| `PagerTranslates` | `Faulty = {}`, `Quitters = {}` | `Spec => []TranslationSound` |
| `PagerTransparent` | `Faulty = {}`, `Quitters = {}` | `Spec => Transparent`: `Pager` implements `VirtualMemory` |

The assumptions are those of the runs, and none can be dropped: a flash error makes the handler give the mutex
back and go on (`pager_trap`, section 9), a process that faults after its `TERMINATE` can claim a
frame its SST has already looked at, and the frames a dead process leaves are handed out while its page table
still points to them (`pager_clean`). The runs vary them as configurations.

The inductive invariant is built in layers, each proved with the ones before it:

- `Shape`: types, and who may write what to whom (`Letters`): `swapMutex()`, the SSI and an SST each
  receive only the requests they know, so that an answer is never taken for something else.
- `Locking`: who is between grant and release is the client `swapMutex()` waits for, and has neither a
  `GETMUTEX` nor a release in that inbox. A release can be left there only by a process whose next
  `GETMUTEX` was taken in its place, which slices that end in the middle of `swapMutex()` allow: that
  process waits for a grant in vain, and so does no harm here (which is why the runs that check
  `FaultServed` do not let slices end there).
- `Asking`, `Flashing`: each process has at most one request under way, which is in the inbox of the SSI, in one
  device slot, or answered; what is in the slot is what the process at `getWrite` or `getRead` asked for.
- `Stored`: a frame that is occupied, or being written out, holds a page (`Sound` is the conjunction so far).
- `Ending` (for `FramesReturned`): an SST that cleans the swap table has a child that asked to end and is in user
  mode, so that nobody claims a frame for it behind `scan`.
- `Computing`, `Consistent` (for `TranslationSound`): a page that is mapped to a frame is the one in its swap table
  entry, a frame with an entry is mapped unless the one handler in its critical section is emptying or filling it, and the
  frame of that handler is mapped nowhere.
- `Moved` (for `Transparent`): once the answer of the device is in the inbox, frame and block agree. `Held` says where the contents
  of a page are, in place of the `CHOOSE` of `mem`, and `MemNext` shows step by step that only `Write` changes them.

TLC checked each layer on small instances before it was proved. The runs of section 7 let slices end in user mode
when they check `Transparent`; the theorem has them end anywhere.

### The support level

`SupportProofs.tla` proves for all constants satisfying `SupportAssumption` (one to eight programs, any
services and texts, any number of requests and evictions, any set of trapping programs) and
`NullAssumption` (`NULL` is not a request):

| theorem | statement |
|---|---|
| `SupportTypes` | `Spec => []TypeOK` |
| `SupportStrays` | `Spec => []StrayOnlyInRequest` |
| `SupportEndsLast` | `Spec => []TestEndsLast` |
| `SupportEndsTogether` | `Spec => []EndTogether` |
| `SupportAnswersFresh` | `Spec => []NoStaleAnswer` |
| `SupportInterrupts` | `Spec => []InterruptFindsSst` |
| `SupportPrints` | `Spec => PrintsAsAsked`: `Support` implements `Console` |

Pages may leave at any time. All but the first two properties say "until a process goes astray" (section 5): `support_fault`
and `support_tod` show that processes do.

None of them is inductive, because each depends on an answer being taken for the answer to the
right question. The invariant follows every message from its writer to its reader:

- `Letters`: who may write to whom, and never two messages of one writer in an inbox (`Distinct`). So `Match` finds *the* message, and
  the order of an inbox, a stack, does not matter.
- `Births`: `test()` has made the SSTs below `asid` and one more if its answer is there (`Born`); an SST has made its program
  once it has been answered (`Parent`), and an SST and its program die together (`Family`).
- `Conversations`: a client of the SSI has asked, is in a slot of `devQueue`, or has been answered, one at a
  time. Its step says which request it is, so that `NewChild` is the child the sender waits for. That the device `DeviceAt` finds
  is the one `SlotOf` finds is `SlotIsDevice` of `DeviceMapProofs`.
- `Counting`: `uProcCount` is the number of programs less the SSTs that have ended *and* whose message `test()` has taken (`Ended`, `Told`).
- `Session`, `Order`: a program and its SST take turns, and the SST is at the step that the service in the request leads to. Both
  speak of the step a process is at *when its page fault has been handled* (`Where`): a fault is not a change of turn. `foreign`
  is among the steps of `Where`, so that these hold even when the shared exception state has been lost.

`SupportStrays` follows from `Session` and `Order`: of the two, one that computes or waits for a request finds the other
waiting for it, and so not in a page fault.

`SupportPrints` adds `Printed`: the count of printed characters starts at 0 in every request, and the device prints the
character that the SST's pointer is at, of its own program's text. The state of `Support` maps to `Console` by how far the SST is with that character
(`Phase`): not printed, printed and not yet counted, or nothing left. A page fault of the SST changes none of these, as long as it
returns to where it was; whoever is astray once is so for ever (`StrayStays`), and so `IInv /\ (Astray \/ Printed)` is inductive. Then each step of
`Support` leads astray or is one of four: the program asks or resumes (`Goes`), its device prints (`C!Put`), or nothing that `Console`
shows changes (`Rests`), which for the steps of the other programs, `test()` and the SSI follows from who may write what.

TLC checked the layers on the instances of section 7 first. The proof corrected `TypeOK`: a request without text
has an empty string, which is not among the texts when no program prints.

### Lists

`ListXProofs.tla` proves, for any finite set of PCBs:

| theorem | statement |
|---|---|
| `ListTypes` | `Spec => []TypeOK` |
| `ListsDoublyLinked` | `Spec => []DoublyLinked` |
| `NobodyIsLost` | `Spec => []NobodyLost` |
| `ListsAreQueues` | `Spec => AreQueues`: `ListX` implements `Queues` |

All but `ListTypes` say "until a clash" (section 6), and `listx_race` shows why they must; they are proved as `~clashed => IInv` and
`~clashed => QInv`. `DoublyLinked` says nothing of the list in
the middle of an operation, and so is not inductive. `IInv` is about the links *after the stores that are left*
(`After`), where the PCB under way is taken to have landed (`Landed`): those links are sound for every list (`Sound`). A store
of the SSI does not change them. A handler that does not clash writes to nodes of other lists than the one under way (`InOperation`,
`Apace`), so that it does to those links what it does to the links as they are, and each of its operations takes
doubly linked lists to doubly linked lists (`InsertKeeps`, `OutKeeps`, `MoveKeeps`). `CallsFit` says that
what the SSI is going to unlink is linked and what it is going to link is not, `CurrentUnlinked` that the running process is in no list.
`ListTypes` holds after clashes too, and has an invariant of its own (`Typed`): fields, calls and stores, whatever has become of the links.

`NobodyIsLost` and `ListsAreQueues` are about the order of the PCBs from the head on, which `IInv` does not see: a ring of PCBs beside
the list would be doubly linked too. `QInv` adds, for every list, that a sequence of exactly its PCBs is what `next` goes
through (`Follows`, `Queued`), *at every store*. For this it says in which order an operation stores (`StoreOrder`): until the last one, `next` is
written only in the PCB that is in no list, so that the walk does not see the operation, and sees all of it at the last store.
Each call then adds to a sequence or takes from it (`Becomes`), and that is a step of `Queues`. That a walk along `next` gathers
the sequence, whatever its length, is an induction on the steps of the walk, made as the argument from the least step at
which it would fail (`MinNat` of `QueueLemmas`).

### The log, the addresses and the layout

| theorem | statement |
|---|---|
| `KlogProofs!IndexStaysInLine` | at most one process prints implies `Spec => []IndexInLine`. The invariant adds what the register of that process holds between its load, its store and its comparison (`RegOK`) |
| `KlogProofs!KlogTypeOK` | `Spec => []TypeOK`, for any number of processes that print: the line index stays in the buffer. The invariant adds that the register stored as a line index holds one, and that there is a character left where one is fetched and stored (`StrOK`) |
| `KlogProofs!LogIsShown` | `Spec => []ShowsLog`, for a buffer and texts of any size and any number of processes that print |
| `DeviceMapProofs!SlotIsDevice` | for every line and number, `doIO()` finds the slot of `deviceInterrupt()` from any address in the device's register |
| `DeviceMapProofs!DevicesOfAsid` | the devices addressed for an ASID are device ASID - 1 of their lines |
| `LayoutProofs!StacksApart` | no two stacks share a page, for any number of programs |
| `LayoutProofs!StacksAboveFrames` | nor do a stack and a frame, with enough RAM for both |
| `LayoutProofs!RamCheckTooWeak` | the check in `test()` does not establish the premise of the former |

`ShowsLog` speaks of the moments at which nothing is being printed, and only as long as no call has come in the middle of
another. `LogInv` says what the buffer is at every step of every character in between. The characters logged are laid on an endless tape of lines
(`Spots`), of which the buffer is the last piece. At each step some `k` of them are printed, the rest are still to
be fetched (`Left`), the indices are where the `k`th left the tape, or where the step the process is at has taken them (`Printing`,
`Arrived`), and the buffer is the picture of the `k` characters from some line of the tape on (`Picture`): the line that is being
cleaned is partly that of the next turn. One lemma per step of a character moves `k`, the line, or neither (`StoreGoes`, `MoveGoes`, `CleanGoes`, ...).

Every safety invariant and every action property that a passing run checks has a theorem, and so have the four refinements
with their abstract specifications. Only model-checked are:

- Liveness (`Answered`, `FaultServed`, `QuitterKilled`, `Halts`): it needs fairness, and so `ENABLED`, which is out of the prover's reach.
- What the two runs that end in a violation show, and the configurations of section 9.

## 11. Not modelled, and why

- *Half-done list operations in `Nucleus`*: one operation is one step there, so that it understates the races;
  `ListX` has them without the rest of the nucleus. The sibling lists are sets everywhere.
- *What follows a flaw.* In `Nucleus`, what happens once a PCB is linked twice or a NULL pointer is followed
  (section 3); in `ListX`, the services of the SSI after a clash (section 6); in `Support`, what a process does that has gone
  astray (section 5).
- *Registers.* `reg_v0`, `pc_epc` and the saved state are abstracted to `awaiting` or `pc`. That
  `deviceInterrupt` stores the status in the saved `reg_v0` is invisible to a client that then receives.
- *Time.* `p_time`, `getTOD` and the values of the timers: nothing but an answer depends on them.
  (`p_time` adds the timer's *remaining* value, `exceptions.c:150`.)
- *Payloads.* What a message says matters only to the SSI and to the SST, and there only as
  service and argument. A malformed DOIO address is not modelled: no code makes one but `pager_hang`'s.
- *The two subdevices of a terminal* are one device: no code in the repository uses both at once.
- *In `Pager`*: `terminate()`'s message to `test()`, and what happens after it (both are in `Support`);
  `usyscallHandler()`'s round trip to the SSI in user mode (a delay like any
  other of a program that computes); `data0` of a flash device, taken with the command
  (the two can differ only after mutual exclusion is lost); two flash interrupts
  at a time, which need the same and then meet `nucleus_line`; a process revived in `pager_zombie` that
  traps again, whose message to its parent, by then `NULL`, is dropped; what
  follows a trap outside the handler, where `generalExceptionHandler()` returns to nowhere.
  The comparison of the whole cause register with `TLBMOD`
  (`vmSupport.c:49`) is without effect, as there are no TLB-Modifications.
- *In `Support`*: failing devices (`writeString()` ignores the status), the pool of messages, preemption as such (any process that can
  run may run next), the interrupt line shared by two printers (`nucleus_line`), page faults as a cause of `nested`
  elsewhere than in `RECEIVEMSG`, programs that send to anyone but their parent.
- *In `Klog`*: what lies behind the buffer in memory, and the text of messages.
- *`enforceKernelMode`* turns a nucleus system call in user mode into a trap, which is
  `Trap`; no program of the repository makes one.
- *p2test, the texts of the testers, the Makefiles, emulator configurations*: clients and build files.
