------------------------------- MODULE Nucleus -------------------------------
(****************************************************************************)
(* The nucleus of MicroPandOS: the PCB and message pools (phase1), the      *)
(* scheduler, the SYSCALL/trap handlers, the interrupt handlers and the     *)
(* System Service Interface process (phase2Umps3), on one processor.        *)
(*                                                                          *)
(* Handlers run with interrupts off, so a handler, with the scheduler() it  *)
(* ends in, is one action.  The SSI is an ordinary process that the local   *)
(* timer does not preempt (its status lacks TEBITON) but that devices and   *)
(* the interval timer do interrupt: its body is cut into the steps an       *)
(* interrupt can fall between, down to the load and the store of            *)
(* softBlockCount++ and softBlockCount--.  A list operation is one step.    *)
(****************************************************************************)
EXTENDS Integers, FiniteSets, SequencesExt

CONSTANTS
  Pcb,          \* the process control blocks of pcbTable
  ssi_pcb,      \* the one main() gives to the SSI
  root_pcb,     \* the one main() gives to test()
  freeList,     \* the other PCBs in the order of pcbFree_h after main()
  NULL,         \* the null pointer, also ANYMESSAGE
  Computing,    \* awaiting[p] when p is not at a RECEIVEMESSAGE
  Device,       \* <<interrupt line, device number>>
  Faulty,       \* the devices that may end an operation with an error status
  drives,       \* drives[p]: the devices process p uses
  MaxMessages,  \* MAXMESSAGES, the size of msgTable
  Budget,       \* how often the clients use each operation in one behaviour
  Endless,      \* the operations whose use is not bounded by Budget
  Orderly       \* TRUE: a process terminates only itself, and childless

SsiServices == {"create", "terminate", "doio", "query", "clock", "invalid"}
ClientOps == SsiServices \cup {"send", "receive", "trap"}

DISKINT == 3
FLASHINT == 4
PRNTINT == 6
TERMINT == 7

ASSUME NucleusAssumption ==
  /\ ssi_pcb \in Pcb /\ root_pcb \in Pcb /\ ssi_pcb # root_pcb
  /\ freeList \in Seq(Pcb) /\ IsInjective(freeList)
  /\ ToSet(freeList) = Pcb \ {ssi_pcb, root_pcb}
  /\ NULL \notin Pcb \cup Device /\ Computing \notin Pcb \cup {NULL}
  /\ Device \subseteq {DISKINT, FLASHINT, PRNTINT, TERMINT} \X (0..7)
  /\ \A d \in Device : <<d[1], 0>> \in Device
  /\ Faulty \subseteq Device
  /\ drives \in [Pcb -> SUBSET Device]
  /\ MaxMessages \in Nat
  /\ Budget \in [ClientOps -> Nat]
  /\ Endless \subseteq ClientOps
  /\ Orderly \in BOOLEAN

VARIABLES
  machine,              \* "on", "wait", "halt", "panic", or broken: see Broken
  current_process,
  pcbFree,              \* pcbFree_h
  readyQueue,
  receiveMessageQueue,  \* a set: no operation depends on its order
  pseudoClockQueue,
  devQueue,
  process_count,
  softBlockCount,
  p_parent,
  p_child,              \* the sibling list of p's children, as a set
  msg_inbox,
  msgFree,              \* length of msgFree_h
  awaiting,             \* the sender argument of the RECEIVEMESSAGE p is at
  step,                 \* where the SSI, or a dying process in killProcess, is
  request,              \* the message the SSI serves
  loaded,               \* the register softBlockCount is loaded into
  doomed,               \* the doomed argument of each active killProcess frame
  devState,             \* the device registers
  pltPending,           \* a local timer interrupt is pending in the wait state
  budget                \* what is left of Budget

queues == <<pcbFree, readyQueue, receiveMessageQueue, pseudoClockQueue, devQueue>>
cpu == <<machine, current_process, pltPending>>
counts == <<process_count, softBlockCount>>
tree == <<p_parent, p_child>>
mail == <<msg_inbox, msgFree, awaiting>>
ssi == <<step, request, loaded, doomed>>
vars == <<queues, cpu, counts, tree, mail, ssi, devState, budget>>

KillSteps == {"kill", "seek", "decClock", "decDev", "storeClock", "storeDev",
              "outClock", "outDev", "free"}
SsiSteps == {"receive", "serve", "reply", "inc", "store", "block", "command"}

\* The states nothing is modelled after: the scheduler or a handler
\* dereferences NULL, or a list node is linked twice or unlinked while linked
\* nowhere.
Broken == {"crash", "corrupt"}

\* A request as SSIRequest() gets it: the sender, the service and its argument.
ClientPcb == Pcb \ {ssi_pcb}
SsiMessage ==
  [from : ClientPcb, op : {"create", "query", "clock", "invalid"}, arg : {NULL}]
    \cup [from : ClientPcb, op : {"terminate"}, arg : ClientPcb \cup {NULL}]
    \cup [from : ClientPcb, op : {"doio"}, arg : Device]
Message == SsiMessage \cup [from : Pcb, op : {"answer", "data"}, arg : {NULL}]

DeviceState == {"idle", "busy", "done", "failed"}
------------------------------------------------------------------------------
(* Where a PCB is.                                                          *)

Free == ToSet(pcbFree)
Ready == ToSet(readyQueue)
OnClock == ToSet(pseudoClockQueue)
OnDevice == {devQueue[d] : d \in Device} \ {NULL}
Running == {current_process} \ {NULL}

\* p_list of p is linked into some list headed by a list head.
Linked == Free \cup Ready \cup receiveMessageQueue \cup OnClock

Corrupt ==
  /\ machine' = "corrupt"
  /\ UNCHANGED <<queues, current_process, pltPending, counts, tree, mail, ssi,
                 devState, budget>>

\* What a client spends to use operation k.
Spend(k) ==
  \/ k \in Endless /\ UNCHANGED budget
  \/ /\ k \notin Endless /\ budget[k] > 0
     /\ budget' = [budget EXCEPT ![k] = @ - 1]

Msg(from, op, arg) == [from |-> from, op |-> op, arg |-> arg]
------------------------------------------------------------------------------
(* main() up to and including its scheduler() call.                         *)

Init ==
  /\ machine = "on" /\ current_process = ssi_pcb /\ pltPending = FALSE
  /\ pcbFree = freeList
  /\ readyQueue = <<root_pcb>>
  /\ receiveMessageQueue = {} /\ pseudoClockQueue = <<>>
  /\ devQueue = [d \in Device |-> NULL]
  /\ process_count = 2 /\ softBlockCount = 0
  /\ p_parent = [p \in Pcb |-> NULL] /\ p_child = [p \in Pcb |-> {}]
  /\ msg_inbox = [p \in Pcb |-> <<>>] /\ msgFree = MaxMessages
  /\ awaiting = [p \in Pcb |-> IF p = ssi_pcb THEN NULL ELSE Computing]
  /\ step = "receive" /\ request = Msg(root_pcb, "query", NULL)
  /\ loaded = 0 /\ doomed = <<>>
  /\ devState = [d \in Device |-> "idle"]
  /\ budget = Budget
------------------------------------------------------------------------------
(* scheduler(), given the ready queue and the counters its caller leaves.   *)
(* plt: the local timer was running, so it may have expired in the handler. *)

Scheduler(ready, procs, soft, plt) ==
  \/ /\ ready # <<>>
     /\ current_process' = Head(ready) /\ readyQueue' = Tail(ready)
     /\ machine' = "on" /\ pltPending' = FALSE
  \/ /\ ready = <<>>
     /\ current_process' = NULL /\ readyQueue' = <<>>
     /\ \/ procs = 1 /\ machine' = "halt" /\ pltPending' = FALSE
        \/ procs > 1 /\ soft > 0 /\ machine' = "wait" /\ pltPending' \in {FALSE, plt}
        \/ procs > 1 /\ soft = 0 /\ machine' = "panic" /\ pltPending' = FALSE
        \/ /\ procs < 1 \/ (procs > 1 /\ soft < 0)
           /\ machine' = "crash" /\ pltPending' = FALSE

\* The end of interruptHandler(): back to the interrupted process, if any.
ResumeOrSchedule(ready, soft) ==
  \/ /\ current_process # NULL
     /\ readyQueue' = ready /\ UNCHANGED cpu
  \/ current_process = NULL /\ Scheduler(ready, process_count, soft, FALSE)
------------------------------------------------------------------------------
(* sendMessage(): the pool may be empty (MSGNOGOOD) and the destination     *)
(* dead (DEST_NOT_EXIST, after the message has left the pool).              *)

Delivered(dest) == msgFree > 0 /\ dest \notin Free
\* Mutant: the woken process goes to the head of the ready queue.
ReadyAfterSendAtHead(dest) ==
  IF Delivered(dest) /\ dest \in receiveMessageQueue
  THEN <<dest>> \o readyQueue ELSE readyQueue

ReadyAfterSend(dest) ==
  IF Delivered(dest) /\ dest \in receiveMessageQueue
  THEN Append(readyQueue, dest) ELSE readyQueue

\* Mutant: the destination stays in receiveMessageQueue.
SendNoWakeup(m, dest) ==
  /\ msgFree' = IF msgFree > 0 THEN msgFree - 1 ELSE 0
  /\ UNCHANGED receiveMessageQueue
  /\ msg_inbox' = IF Delivered(dest) THEN [msg_inbox EXCEPT ![dest] = <<m>> \o @] ELSE msg_inbox

\* Mutant: allocMsg() does not look whether msgFree_h is empty.
SendUnchecked(m, dest) ==
  /\ msgFree' = msgFree - 1
  /\ receiveMessageQueue' = receiveMessageQueue \ {dest}
  /\ msg_inbox' = [msg_inbox EXCEPT ![dest] = <<m>> \o @]

Send(m, dest) ==
  /\ msgFree' = IF msgFree > 0 THEN msgFree - 1 ELSE 0
  /\ \/ ~Delivered(dest) /\ UNCHANGED <<msg_inbox, receiveMessageQueue>>
     \/ /\ Delivered(dest)
        /\ receiveMessageQueue' = receiveMessageQueue \ {dest}
        /\ msg_inbox' = [msg_inbox EXCEPT ![dest] = <<m>> \o @]

(* popMessage(): the first message of p's inbox from the sender awaited.    *)
FirstMatch(p, from) ==
  SelectInSeq(msg_inbox[p], LAMBDA m : from = NULL \/ m.from = from)

\* Mutant: the message is not given back to the pool.
TakeMessageNoFree(p, i) ==
  /\ msg_inbox' = [msg_inbox EXCEPT ![p] = RemoveAt(@, i)]
  /\ UNCHANGED msgFree

TakeMessage(p, i) ==
  /\ msg_inbox' = [msg_inbox EXCEPT ![p] = RemoveAt(@, i)]
  /\ msgFree' = msgFree + 1

\* Mutant: the blocked process is put in no queue.
BlockNowhere(p) ==
  /\ UNCHANGED receiveMessageQueue
  /\ Scheduler(readyQueue, process_count, softBlockCount, p # ssi_pcb)

\* The blocking half of receiveMessage(): the PC is not advanced, so that p
\* executes the same RECEIVEMESSAGE again when it is next dispatched.
BlockOnReceive(p) ==
  /\ receiveMessageQueue' = receiveMessageQueue \cup {p}
  /\ Scheduler(readyQueue, process_count, softBlockCount, p # ssi_pcb)
------------------------------------------------------------------------------
(* The client processes: any program that asks the SSI for a service with   *)
(* SENDMESSAGE and then RECEIVEMESSAGE from the SSI.                        *)

Runs(p) == machine = "on" /\ current_process = p /\ p # ssi_pcb /\ step = "receive"

\* The arguments a client may pass with service k.
Args(p, k) ==
  CASE k = "doio" -> drives[p]
    [] k = "terminate" -> {NULL} \cup IF Orderly THEN {} ELSE Pcb \ {ssi_pcb, p}
    [] OTHER -> {NULL}

\* SYSCALL(SENDMESSAGE, SSIADDRESS, &payload), with RECEIVEMESSAGE from the
\* SSI next; a request refused for want of a message is not noticed.
Request(p) ==
  /\ Runs(p) /\ awaiting[p] = Computing
  /\ \E k \in SsiServices : \E arg \in Args(p, k) :
       /\ Spend(k)
       /\ Orderly /\ k \in {"terminate", "invalid"} => p_child[p] = {}
       /\ Send(Msg(p, k, arg), ssi_pcb)
  /\ readyQueue' = ReadyAfterSend(ssi_pcb)
  /\ awaiting' = [awaiting EXCEPT ![p] = ssi_pcb]
  /\ UNCHANGED <<cpu, pcbFree, pseudoClockQueue, devQueue, counts, tree, ssi, devState>>

\* SYSCALL(SENDMESSAGE) from one client to another, dead or alive.
SendToClient(p) ==
  /\ Runs(p) /\ awaiting[p] = Computing /\ Spend("send")
  /\ \E dest \in Pcb \ {ssi_pcb, p} :
       /\ Send(Msg(p, "data", NULL), dest)
       /\ readyQueue' = ReadyAfterSend(dest)
  /\ UNCHANGED <<cpu, pcbFree, pseudoClockQueue, devQueue, counts, tree, awaiting,
                 ssi, devState>>

\* The client reaches a RECEIVEMESSAGE from anyone or from another client.
StartReceive(p) ==
  /\ Runs(p) /\ awaiting[p] = Computing /\ Spend("receive")
  /\ \E from \in {NULL} \cup (Pcb \ {ssi_pcb, p}) :
       awaiting' = [awaiting EXCEPT ![p] = from]
  /\ UNCHANGED <<queues, cpu, counts, tree, msg_inbox, msgFree, ssi, devState>>

\* SYSCALL(RECEIVEMESSAGE, awaiting[p], &payload).
Receive(p) ==
  /\ Runs(p) /\ awaiting[p] # Computing
  /\ LET i == FirstMatch(p, awaiting[p]) IN
       \/ /\ i > 0 /\ TakeMessage(p, i)
          /\ awaiting' = [awaiting EXCEPT ![p] = Computing]
          /\ UNCHANGED <<queues, cpu>>
       \/ /\ i = 0 /\ BlockOnReceive(p)
          /\ UNCHANGED <<pcbFree, pseudoClockQueue, devQueue, mail>>
  /\ UNCHANGED <<counts, tree, ssi, devState, budget>>

\* Mutant: the preempted process goes to the head of the ready queue.
PreemptToHead(p) ==
  /\ Runs(p)
  /\ Scheduler(<<p>> \o readyQueue, process_count, softBlockCount, FALSE)
  /\ UNCHANGED <<pcbFree, receiveMessageQueue, pseudoClockQueue, devQueue, counts, tree,
                 mail, ssi, devState, budget>>

\* processorLocalTimer() while a client runs, and the scheduler() after it.
Preempt(p) ==
  /\ Runs(p)
  /\ Scheduler(Append(readyQueue, p), process_count, softBlockCount, FALSE)
  /\ UNCHANGED <<pcbFree, receiveMessageQueue, pseudoClockQueue, devQueue, counts, tree,
                 mail, ssi, devState, budget>>
------------------------------------------------------------------------------
(* killProcess(), one frame of the recursion on top of doomed.  The SSI     *)
(* runs it with interrupts on, passUpOrDie() with interrupts off.           *)

Dying == Head(doomed)

\* outChild(p): p's sibling links are stale once its parent's PCB was reused.
Orphaned(p) == p_parent[p] # NULL /\ p \notin p_child[p_parent[p]]
\* Mutant: p_parent is kept.
OutChildKeepsParent(p) ==
  /\ UNCHANGED p_parent
  /\ p_child' = [q \in Pcb |-> IF q = p_parent[p] THEN p_child[q] \ {p} ELSE p_child[q]]

OutChild(p) ==
  /\ p_parent' = [p_parent EXCEPT ![p] = NULL]
  /\ p_child' = [q \in Pcb |-> IF q = p_parent[p] THEN p_child[q] \ {p} ELSE p_child[q]]

\* A call of killProcess(p) up to its loop over p's children.
EnterKill(p) ==
  \/ /\ ~Orphaned(p) /\ OutChild(p)
     /\ doomed' = <<p>> /\ step' = "kill"
     /\ UNCHANGED <<machine, request, loaded>>
  \/ Orphaned(p) /\ machine' = "corrupt" /\ UNCHANGED <<tree, ssi>>

\* passUpOrDie() for a process without a support structure.
Trap(p) ==
  /\ Runs(p) /\ awaiting[p] = Computing /\ Spend("trap")
  /\ Orderly => p_child[p] = {}
  /\ EnterKill(p)
  /\ UNCHANGED <<queues, current_process, pltPending, counts, mail, devState>>

Killing(s) == machine = "on" /\ step = s

\* The loop over the children: removeChild(), then killProcess() of the child.
KillChild ==
  /\ Killing("kill")
  /\ \E child \in p_child[Dying] :
       /\ p_child' = [p_child EXCEPT ![Dying] = @ \ {child}]
       /\ p_parent' = IF child \in Free THEN p_parent ELSE [p_parent EXCEPT ![child] = NULL]
       /\ doomed' = IF child \in Free THEN doomed ELSE <<child>> \o doomed
  /\ UNCHANGED <<queues, cpu, counts, mail, step, request, loaded, devState, budget>>

\* Found running, ready or waiting for a message: off that queue.
KillUnblocked ==
  /\ Killing("kill") /\ p_child[Dying] = {}
  /\ \/ /\ Dying \in Ready \cup receiveMessageQueue \cup Running
        /\ readyQueue' = RemoveFirst(readyQueue, Dying)
        /\ receiveMessageQueue' = receiveMessageQueue \ {Dying}
        /\ step' = "free"
     \/ /\ Dying \notin Ready \cup receiveMessageQueue \cup Running
        /\ step' = "seek" /\ UNCHANGED <<readyQueue, receiveMessageQueue>>
  /\ UNCHANGED <<pcbFree, pseudoClockQueue, devQueue, cpu, counts, tree, mail, request,
                 loaded, doomed, devState, budget>>

\* Is it waiting for the clock?  If not, it must be waiting for a device.
KillSeek ==
  /\ Killing("seek")
  /\ step' = IF Dying \in OnClock THEN "decClock" ELSE "decDev"
  /\ UNCHANGED <<queues, cpu, counts, tree, mail, request, loaded, doomed, devState, budget>>

\* softBlockCount--, in either branch: the load, then the store.
KillLoad ==
  /\ Killing("decClock") \/ Killing("decDev")
  /\ loaded' = softBlockCount
  /\ step' = IF step = "decClock" THEN "storeClock" ELSE "storeDev"
  /\ UNCHANGED <<queues, cpu, counts, tree, mail, request, doomed, devState, budget>>

KillStore ==
  /\ Killing("storeClock") \/ Killing("storeDev")
  /\ softBlockCount' = loaded - 1
  /\ step' = IF step = "storeClock" THEN "outClock" ELSE "outDev"
  /\ UNCHANGED <<queues, cpu, process_count, tree, mail, request, loaded, doomed, devState,
                 budget>>

\* outAnyProcQ(doomed): off the clock queue, or off the ready queue if the
\* interval timer came in between.
KillOutClock ==
  /\ Killing("outClock")
  /\ pseudoClockQueue' = RemoveFirst(pseudoClockQueue, Dying)
  /\ readyQueue' = RemoveFirst(readyQueue, Dying)
  /\ step' = "free"
  /\ UNCHANGED <<pcbFree, receiveMessageQueue, devQueue, cpu, counts, tree, mail, request,
                 loaded, doomed, devState, budget>>

\* Mutant: the device slot is not cleared.
KillKeepsDev ==
  /\ Killing("outDev")
  /\ step' = "free"
  /\ UNCHANGED <<queues, cpu, counts, tree, mail, request, loaded, doomed, devState, budget>>

\* outDevQ(doomed).
KillOutDev ==
  /\ Killing("outDev")
  /\ devQueue' = [d \in Device |-> IF devQueue[d] = Dying THEN NULL ELSE devQueue[d]]
  /\ step' = "free"
  /\ UNCHANGED <<pcbFree, readyQueue, receiveMessageQueue, pseudoClockQueue, cpu, counts,
                 tree, mail, request, loaded, doomed, devState, budget>>

\* The reply of killCall(): none to a process that terminated itself.
AfterKillCall == IF request.op = "terminate" /\ request.arg # NULL THEN "reply" ELSE "receive"

\* process_count-- and freePcb(doomed), then back to the caller: an outer
\* frame, killCall(), or passUpOrDie() and its scheduler().  freePcb() links the
\* PCB into pcbFree_h whatever list it is in: two lists then share a node, which
\* no sequence can follow any further.
KillFree ==
  /\ Killing("free")
  /\ pcbFree' = Append(pcbFree, Dying)
  /\ process_count' = process_count - 1
  /\ doomed' = Tail(doomed)
  /\ \/ /\ Dying \in Linked /\ machine' = "corrupt"
        /\ step' = IF Len(doomed) > 1 THEN "kill" ELSE "receive"
        /\ UNCHANGED <<current_process, pltPending, readyQueue>>
     \/ /\ Dying \notin Linked /\ Len(doomed) > 1
        /\ step' = "kill" /\ UNCHANGED <<cpu, readyQueue>>
     \/ /\ Dying \notin Linked /\ Len(doomed) = 1 /\ current_process = ssi_pcb
        /\ step' = AfterKillCall /\ UNCHANGED <<cpu, readyQueue>>
     \/ /\ Dying \notin Linked /\ Len(doomed) = 1 /\ current_process # ssi_pcb
        /\ step' = "receive"
        /\ Scheduler(readyQueue, process_count - 1, softBlockCount, TRUE)
  /\ UNCHANGED <<receiveMessageQueue, pseudoClockQueue, devQueue, softBlockCount, tree, mail,
                 request, loaded, devState, budget>>

KillProcess ==
  \/ KillChild \/ KillUnblocked \/ KillSeek \/ KillLoad \/ KillStore
  \/ KillOutClock \/ KillOutDev \/ KillFree
------------------------------------------------------------------------------
(* The SSI process: SSI(), SSIRequest() and the services.                   *)

SsiAt(s) == machine = "on" /\ current_process = ssi_pcb /\ step = s
Serves(k) == SsiAt("serve") /\ request.op = k
sender == request.from

\* SYSCALL(RECEIVEMESSAGE, ANYMESSAGE): sendMessage() pushes at the head of
\* the inbox, so the latest request is served first.
SsiReceive ==
  /\ SsiAt("receive")
  /\ LET i == FirstMatch(ssi_pcb, NULL) IN
       \/ /\ i > 0 /\ TakeMessage(ssi_pcb, i)
          /\ request' = msg_inbox[ssi_pcb][i] /\ step' = "serve"
          /\ UNCHANGED <<queues, cpu>>
       \/ /\ i = 0 /\ BlockOnReceive(ssi_pcb)
          /\ UNCHANGED <<pcbFree, pseudoClockQueue, devQueue, msg_inbox, msgFree, request, step>>
  /\ UNCHANGED <<counts, tree, awaiting, loaded, doomed, devState, budget>>

\* allocPcb(): the head of pcbFree_h, reset, whatever still points to it.
AllocPcb(p) ==
  /\ pcbFree' = Tail(pcbFree)
  /\ msg_inbox' = [msg_inbox EXCEPT ![p] = <<>>]
  /\ awaiting' = [awaiting EXCEPT ![p] = Computing]

\* insertChild(prnt, p) for a PCB just reset.
InsertChild(prnt, p) ==
  /\ p_parent' = [p_parent EXCEPT ![p] = prnt]
  /\ p_child' = [[p_child EXCEPT ![p] = {}] EXCEPT ![prnt] = @ \cup {p}]

\* Mutant: the new process is not counted.
SsiCreateUncounted ==
  /\ Serves("create") /\ pcbFree # <<>>
  /\ LET newChild == Head(pcbFree) IN
       /\ AllocPcb(newChild)
       /\ InsertChild(sender, newChild)
       /\ readyQueue' = Append(readyQueue, newChild)
  /\ step' = "reply"
  /\ UNCHANGED <<receiveMessageQueue, pseudoClockQueue, devQueue, cpu, counts, msgFree,
                 request, loaded, doomed, devState, budget>>

\* createProcess().
SsiCreate ==
  /\ Serves("create") /\ pcbFree # <<>>
  /\ LET newChild == Head(pcbFree) IN
       /\ AllocPcb(newChild)
       /\ InsertChild(sender, newChild)
       /\ readyQueue' = Append(readyQueue, newChild)
  /\ process_count' = process_count + 1
  /\ step' = "reply"
  /\ UNCHANGED <<receiveMessageQueue, pseudoClockQueue, devQueue, cpu, softBlockCount, msgFree,
                 request, loaded, doomed, devState, budget>>

\* createProcess() without a free PCB sets the sender's reg_v0, which its
\* RECEIVEMESSAGE overwrites, and sends nothing.
SsiCreateFails ==
  /\ Serves("create") /\ pcbFree = <<>>
  /\ step' = "receive"
  /\ UNCHANGED <<queues, cpu, counts, tree, mail, request, loaded, doomed, devState, budget>>

\* getTime(), getSupportStruct() and getPID() only reply; the other services
\* come here at their end.
SsiReply ==
  /\ SsiAt("reply") \/ Serves("query")
  /\ Send(Msg(ssi_pcb, "answer", NULL), sender)
  /\ readyQueue' = ReadyAfterSend(sender)
  /\ step' = "receive"
  /\ UNCHANGED <<cpu, pcbFree, pseudoClockQueue, devQueue, counts, tree, awaiting, request,
                 loaded, doomed, devState, budget>>

\* killCall(), and SSIRequest() on an unknown service.
SsiTerminate ==
  /\ Serves("terminate") \/ Serves("invalid")
  /\ LET victim == IF request.op = "terminate" /\ request.arg # NULL
                   THEN request.arg ELSE sender
     IN \/ /\ victim \in Free
           /\ step' = AfterKillCall
           /\ UNCHANGED <<machine, tree, request, loaded, doomed>>
        \/ victim \notin Free /\ EnterKill(victim)
  /\ UNCHANGED <<queues, current_process, pltPending, counts, mail, devState, budget>>

\* softBlockCount++ of doIO() and waitForClock(): the load, then the store.
SsiLoad ==
  /\ Serves("doio") \/ SsiAt("inc")
  /\ loaded' = softBlockCount /\ step' = "store"
  /\ UNCHANGED <<queues, cpu, counts, tree, mail, request, doomed, devState, budget>>

\* Mutant: the counter is not incremented.
SsiStoreSame ==
  /\ SsiAt("store")
  /\ softBlockCount' = loaded
  /\ step' = IF request.op = "doio" THEN "block" ELSE "reply"
  /\ UNCHANGED <<queues, cpu, process_count, tree, mail, request, loaded, doomed, devState,
                 budget>>

\* Mutant: doIO() answers as soon as it has counted its sender.
SsiStoreReplies ==
  /\ SsiAt("store")
  /\ softBlockCount' = loaded + 1
  /\ step' = "reply"
  /\ UNCHANGED <<queues, cpu, process_count, tree, mail, request, loaded, doomed, devState,
                 budget>>

SsiStore ==
  /\ SsiAt("store")
  /\ softBlockCount' = loaded + 1
  /\ step' = IF request.op = "doio" THEN "block" ELSE "reply"
  /\ UNCHANGED <<queues, cpu, process_count, tree, mail, request, loaded, doomed, devState,
                 budget>>

\* Mutant: only a process blocked in RECEIVEMESSAGE is unlinked.
OutReceiveQueue(p) ==
  /\ p \in Linked
  /\ receiveMessageQueue' = receiveMessageQueue \ {p}
  /\ UNCHANGED <<pcbFree, readyQueue>>

\* outAnyProcQ(sender): off whatever list it is in, pcbFree_h included.
OutAnyProcQ(p) ==
  /\ p \in Linked
  /\ pcbFree' = RemoveFirst(pcbFree, p)
  /\ readyQueue' = RemoveFirst(readyQueue, p)
  /\ receiveMessageQueue' = receiveMessageQueue \ {p}

\* waitForClock(), up to the counter.
SsiWaitForClock ==
  /\ Serves("clock")
  /\ OutAnyProcQ(sender)
  /\ pseudoClockQueue' = Append(RemoveFirst(pseudoClockQueue, sender), sender)
  /\ step' = "inc"
  /\ UNCHANGED <<devQueue, cpu, counts, tree, mail, request, loaded, doomed, devState, budget>>

\* doIO(), after the counter: into the slot of the device, whoever is there.
SsiBlock ==
  /\ SsiAt("block")
  /\ OutAnyProcQ(sender)
  /\ pseudoClockQueue' = RemoveFirst(pseudoClockQueue, sender)
  /\ devQueue' = [devQueue EXCEPT ![request.arg] = sender]
  /\ step' = "command"
  /\ UNCHANGED <<cpu, counts, tree, mail, request, loaded, doomed, devState, budget>>

SsiUnlinkFails == (Serves("clock") \/ SsiAt("block")) /\ sender \notin Linked /\ Corrupt

\* Mutant: doIO() replies like the other services.
SsiCommandReplies ==
  /\ SsiAt("command")
  /\ devState' = [devState EXCEPT ![request.arg] = "busy"]
  /\ step' = "reply"
  /\ UNCHANGED <<queues, cpu, counts, tree, mail, request, loaded, doomed, budget>>

\* *arg->commandAddr = arg->commandValue.
SsiCommand ==
  /\ SsiAt("command")
  /\ devState' = [devState EXCEPT ![request.arg] = "busy"]
  /\ step' = "receive"
  /\ UNCHANGED <<queues, cpu, counts, tree, mail, request, loaded, doomed, budget>>

Ssi ==
  \/ SsiReceive \/ SsiCreate \/ SsiCreateFails \/ SsiReply \/ SsiTerminate
  \/ SsiLoad \/ SsiStore \/ SsiWaitForClock \/ SsiBlock \/ SsiUnlinkFails \/ SsiCommand
------------------------------------------------------------------------------
(* Interrupts: while a client or the SSI runs, and in the wait state.       *)

InterruptsOn ==
  \/ machine = "wait"
  \/ machine = "on" /\ (current_process = ssi_pcb \/ step = "receive")

\* processorLocalTimer() in the wait state copies EXST to NULL->p_s.
LocalTimerIdle ==
  /\ machine = "wait" /\ pltPending
  /\ machine' = "crash" /\ pltPending' = FALSE
  /\ UNCHANGED <<current_process, queues, counts, tree, mail, ssi, devState, budget>>

IntervalTimer ==
  /\ InterruptsOn /\ ~pltPending
  /\ LET soft == softBlockCount - Len(pseudoClockQueue) IN
       /\ softBlockCount' = soft
       /\ ResumeOrSchedule(readyQueue \o pseudoClockQueue, soft)
  /\ pseudoClockQueue' = <<>>
  /\ UNCHANGED <<pcbFree, receiveMessageQueue, devQueue, process_count, tree, mail, ssi,
                 devState, budget>>

\* A device ends its operation, well or with an error status.
DeviceCompletes(d) ==
  /\ machine \in {"on", "wait"} /\ devState[d] = "busy"
  /\ \E r \in {"done"} \cup IF d \in Faulty THEN {"failed"} ELSE {} :
       devState' = [devState EXCEPT ![d] = r]
  /\ UNCHANGED <<queues, cpu, counts, tree, mail, ssi, budget>>

\* The device deviceInterrupt() takes the interrupt for: the lowest pending
\* line, and getDeviceNumber(), which is 0 unless one single bit is set.
Pending == {d \in Device : devState[d] \in {"done", "failed"}}
PendingLine == Min({d[1] : d \in Pending})
\* Mutant: the bit map is not looked at.
DeviceZero == 0

DeviceNumber ==
  LET onLine == {d \in Pending : d[1] = PendingLine}
  IN IF Cardinality(onLine) = 1 THEN (CHOOSE d \in onLine : TRUE)[2] ELSE 0
Interrupting == <<PendingLine, DeviceNumber>>

\* A terminal is acknowledged only when it reports a character transmitted.
Acknowledged(d) ==
  IF d \in Pending /\ (d[1] # TERMINT \/ devState[d] = "done")
  THEN [devState EXCEPT ![d] = "idle"] ELSE devState

DeviceInterrupt ==
  /\ InterruptsOn /\ ~pltPending /\ Pending # {}
  /\ LET d == Interrupting
         requester == devQueue[d]
         soft == softBlockCount - 1
     IN /\ devState' = Acknowledged(d)
        /\ softBlockCount' = soft
        /\ devQueue' = [devQueue EXCEPT ![d] = NULL]
        /\ \/ /\ requester # NULL
              /\ Send(Msg(ssi_pcb, "answer", NULL), requester)
              /\ ResumeOrSchedule(Append(readyQueue, requester), soft)
           \/ /\ requester = NULL
              /\ UNCHANGED <<msg_inbox, msgFree, receiveMessageQueue>>
              /\ ResumeOrSchedule(readyQueue, soft)
  /\ UNCHANGED <<pcbFree, pseudoClockQueue, process_count, tree, awaiting, ssi, budget>>

Interrupts ==
  \/ LocalTimerIdle \/ IntervalTimer \/ DeviceInterrupt
  \/ \E d \in Device : DeviceCompletes(d)

Client(p) ==
  Request(p) \/ SendToClient(p) \/ StartReceive(p) \/ Receive(p) \/ Preempt(p) \/ Trap(p)

Next == (\E p \in Pcb : Client(p)) \/ Ssi \/ KillProcess \/ Interrupts

Spec == Init /\ [][Next]_vars
------------------------------------------------------------------------------
TypeOK ==
  /\ machine \in {"on", "wait", "halt", "panic"} \cup Broken
  /\ current_process \in Pcb \cup {NULL} /\ pltPending \in BOOLEAN
  /\ pcbFree \in Seq(ClientPcb) /\ readyQueue \in Seq(Pcb)
  /\ receiveMessageQueue \subseteq Pcb /\ pseudoClockQueue \in Seq(ClientPcb)
  /\ devQueue \in [Device -> ClientPcb \cup {NULL}]
  /\ process_count \in Int /\ softBlockCount \in Int
  /\ p_parent \in [Pcb -> Pcb \cup {NULL}] /\ p_child \in [Pcb -> SUBSET ClientPcb]
  /\ msg_inbox \in [Pcb -> Seq(Message)] /\ msg_inbox[ssi_pcb] \in Seq(SsiMessage)
  /\ msgFree \in Nat
  /\ awaiting \in [Pcb -> Pcb \cup {NULL, Computing}]
  /\ step \in SsiSteps \cup KillSteps
  /\ request \in SsiMessage /\ loaded \in Int
  /\ doomed \in Seq(ClientPcb) /\ (doomed # <<>> <=> step \in KillSteps)
  /\ devState \in [Device -> DeviceState]
  /\ budget \in [ClientOps -> Nat]

\* A PCB is never in two places at once: in two of the free list, the queues,
\* a device slot and the processor, or twice in one of them (pcb.c, devQueue).
NoDuplicates ==
  /\ IsInjective(pcbFree) /\ IsInjective(readyQueue) /\ IsInjective(pseudoClockQueue)
  /\ \A d, e \in Device : devQueue[d] = devQueue[e] /\ devQueue[d] # NULL => d = e
Apart ==
  /\ Free \cap (Ready \cup receiveMessageQueue \cup OnClock \cup OnDevice \cup Running) = {}
  /\ Ready \cap (receiveMessageQueue \cup OnClock \cup OnDevice \cup Running) = {}
  /\ receiveMessageQueue \cap (OnClock \cup OnDevice \cup Running) = {}
  /\ OnClock \cap (OnDevice \cup Running) = {}
  /\ OnDevice \cap Running = {}
OnePlace == NoDuplicates /\ Apart

\* The one way for a PCB to get into two places: freePcb() at the end of a
\* killProcess() whose victim an interrupt has put into the ready queue since
\* killProcess() looked for it there.  Requests of dead senders, device slots
\* taken twice and kills of whole families do not lead there.
OnlyFreedTwice ==
  [][OnePlace => OnePlace' \/ (step = "free" /\ Dying \in Ready /\ Dying \in Free')]_vars

\* What killProcess() has removed "from any process queue" is in none of them
\* when it is given to freePcb().
RemovedFromAnyQueue == step = "free" => Dying \notin Linked

\* No lost wakeup between sendMessage() and receiveMessage(): a process in
\* receiveMessageQueue has no message that its RECEIVEMESSAGE would take.
NoLostWakeup ==
  \A p \in receiveMessageQueue :
    /\ awaiting[p] # Computing
    /\ \A i \in DOMAIN msg_inbox[p] : awaiting[p] # NULL /\ msg_inbox[p][i].from # awaiting[p]

\* What a client has outstanding at the SSI: requests in the inbox of the SSI,
\* a request being served, a device operation, answers in its own inbox.
Served(p) ==
  current_process = ssi_pcb /\ step \notin {"receive", "command"} /\ request.from = p
From(p, inbox) == {i \in DOMAIN inbox : inbox[i].from = p}
Outstanding(p) ==
  Cardinality(From(p, msg_inbox[ssi_pcb])) + (IF Served(p) THEN 1 ELSE 0)
    + (IF p \in OnDevice THEN 1 ELSE 0) + Cardinality(From(ssi_pcb, msg_inbox[p]))

\* Each request to the SSI is answered exactly once: a live client that awaits
\* the SSI has one thing outstanding, and a client that does not has none
\* (SSIRequest(), doIO() and deviceInterrupt() share the duty to answer).
ExactlyOneAnswer ==
  machine \notin Broken =>
    \A p \in ClientPcb \ Free : Outstanding(p) = IF awaiting[p] = ssi_pcb THEN 1 ELSE 0

\* deviceInterrupt() finds a requester in the slot of the device it serves:
\* its "ERR: requester NULL" branch is never taken.
InterruptHasRequester ==
  InterruptsOn /\ ~pltPending /\ Pending # {} => devQueue[Interrupting] # NULL

\* A device and its slot in devQueue agree: somebody is in the slot while the
\* device works, reports, or is about to be told what to do, and only then.
Paired(d) ==
  devQueue[d] # NULL <=> devState[d] # "idle" \/ (step = "command" /\ request.arg = d)

\* deviceInterrupt() takes an interrupt for that of device 0: getDeviceNumber()
\* cannot tell several pending devices of one line apart.
Ambiguous == Cardinality({d \in Pending : d[1] = PendingLine}) > 1

\* What parts a device from the process that waits for it: the process is
\* killed; another device's interrupt is taken for its own; a terminal whose
\* error is not acknowledged interrupts again; an earlier operation on it ends
\* between the two halves of doIO().
Parted(d) ==
  \/ step = "outDev" /\ step' = "free" /\ devQueue[d] = Dying
  \/ Ambiguous /\ d = Interrupting /\ d \notin Pending
  \/ d[1] = TERMINT /\ devState[d] = "failed"
  \/ step = "command" /\ request.arg = d /\ d \in Pending

\* A process stays in its slot until its own device has finished, and is there
\* when it has, but for these four ways, whatever the clients do: doIO(),
\* killProcess() and deviceInterrupt() change the slots and the devices apart.
RequesterKept == [][\A d \in Device : Paired(d) => Paired(d)' \/ Parted(d)]_vars

\* No live process drops out of the system: outside killProcess() every PCB is
\* free, queued, in a device slot or running (outAnyProcQ, doIO, scheduler).
NoProcessLost ==
  machine \notin Broken /\ step \notin KillSteps =>
    Pcb = Linked \cup OnDevice \cup Running

\* scheduler() halts the machine only when the SSI is the only process left.
HaltOnlyWhenDone == machine = "halt" => Pcb \ Free = {ssi_pcb}

\* scheduler() panics only on a deadlock: no process waits for the clock or a
\* device, that is, nothing an interrupt could still wake.
PanicOnlyOnDeadlock == machine = "panic" => OnClock = {} /\ OnDevice = {}

\* scheduler() puts the machine in the wait state only when some process waits
\* for an I/O operation or the clock.
WaitOnlyForIo == machine = "wait" => OnClock \cup OnDevice # {}

\* processorLocalTimer() always finds a process to preempt: no local timer
\* interrupt is pending while the machine waits.
TimerHasProcess == pltPending => current_process # NULL

\* The messages in use: one for each place in an inbox.
Inboxes == UNION {{p} \X DOMAIN msg_inbox[p] : p \in Pcb}

\* A message of msgTable is free or in the inbox of some process (allocMsg,
\* freeMsg, pushMessage), and is lost in two ways only: sent to a process that
\* is dead, or left in the inbox that allocPcb() empties for a new process.
Pool == msgFree + Cardinality(Inboxes)
MessagesConserved ==
  [][\/ Pool' = Pool
     \/ UNCHANGED msg_inbox /\ Free # {} /\ Pool' = Pool - 1
     \/ Serves("create") /\ Pool' = Pool - Len(msg_inbox[Head(pcbFree)])]_vars

\* Round robin: no process gets ahead of one that waits in the ready queue, be
\* it in the queue or, dispatched by scheduler(), on the processor.
Precedes(q, p, queue) == \E i, j \in DOMAIN queue : i < j /\ queue[i] = q /\ queue[j] = p
NoOvertaking ==
  [][\A p \in Ready \cap Ready' : \A q \in Pcb :
       \/ Precedes(q, p, readyQueue')
       \/ q = current_process' /\ q # current_process
       => Precedes(q, p, readyQueue)]_vars
------------------------------------------------------------------------------
\* The sibling lists agree with the parent pointers, and a free or dying PCB
\* is in no sibling list (insertChild, outChild, removeChild).
TreeSound ==
  /\ \A q \in Pcb : \A p \in p_child[q] : p_parent[p] = q
  /\ \A p \in Free : p_parent[p] = NULL
  /\ \A i \in DOMAIN doomed : p_parent[doomed[i]] = NULL

\* killProcess() called by passUpOrDie() kills the current process last, never
\* kills a process twice, and frees no PCB that a device slot still points to.
KillSound ==
  /\ step \in KillSteps => current_process # NULL
  /\ step \in KillSteps /\ current_process # ssi_pcb => Last(doomed) = current_process
  /\ IsInjective(doomed)
  /\ step \in {"decClock", "storeClock", "outClock", "free"} => Dying \notin OnDevice

------------------------------------------------------------------------------
(* The nucleus implements RequestReply for clients that let the SSI answer  *)
(* every request.                                                           *)

\* The device p waits for, and how far that device is.
SlotOf(p) == CHOOSE d \in Device : devQueue[d] = p
Progress == [idle |-> "doio", busy |-> "busy", done |-> "done", failed |-> "done"]

\* p's request in the inbox of the SSI.
Asks(p) == \E m \in ToSet(msg_inbox[ssi_pcb]) : m.from = p
RequestOf(p) == CHOOSE m \in ToSet(msg_inbox[ssi_pcb]) : m.from = p

\* What is left of the request served.  A sender that the clock has woken, before the
\* SSI is through with its request, gets its answer before it can run.
Stage ==
  IF request.op = "create" /\ step = "reply" THEN <<"created", NULL>>
  ELSE IF request.op = "clock" /\ step # "serve" THEN <<"answered", NULL>>
  ELSE <<request.op, request.arg>>

\* What the request of p has come to.
Standing(p) ==
  IF p \in Free THEN <<"dead", NULL>>
  ELSE IF awaiting[p] # ssi_pcb THEN <<"computing", NULL>>
  ELSE IF p \in OnClock THEN <<"waiting", NULL>>
  ELSE IF p \in OnDevice THEN <<Progress[devState[SlotOf(p)]], SlotOf(p)>>
  ELSE IF Served(p) THEN Stage
  ELSE IF Asks(p) THEN <<RequestOf(p).op, RequestOf(p).arg>>
  ELSE <<"answered", NULL>>

standing == [p \in ClientPcb |-> Standing(p)]

RR == INSTANCE RequestReply WITH Process <- ClientPcb, state <- standing

\* What a process asks of the SSI is done for it, once, before it goes on: a process is
\* made, its own device has worked for it, the clock has ticked since; whoever of the SSI,
\* the interval timer and deviceInterrupt() completes it (SSIRequest(), interruptHandler()).
RequestsAnswered == RR!Spec
------------------------------------------------------------------------------
(* Fairness: the processor executes the running process, the local timer    *)
(* preempts a client that computes on, the interval timer and the busy      *)
(* devices eventually interrupt.  A time slice is long enough to execute    *)
(* one system call, so a client dispatched again and again executes the     *)
(* RECEIVEMESSAGE it is at: strong fairness.                                *)
Fairness ==
  /\ WF_vars(Ssi) /\ WF_vars(KillProcess)
  /\ \A p \in ClientPcb : SF_vars(Receive(p)) /\ WF_vars(Preempt(p))
  /\ WF_vars(IntervalTimer) /\ WF_vars(LocalTimerIdle) /\ WF_vars(DeviceInterrupt)
  /\ \A d \in Device : WF_vars(DeviceCompletes(d))

FairSpec == Spec /\ Fairness

\* Every request is answered, however many other clients keep asking: the
\* SSI's inbox is a stack, but the SSI empties it before a client runs again.
Answered ==
  \A p \in ClientPcb :
    awaiting[p] = ssi_pcb /\ p \notin Free ~>
      awaiting[p] # ssi_pcb \/ p \in Free \/ machine \in Broken
==============================================================================
