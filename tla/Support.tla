-------------------------------- MODULE Support --------------------------------
(****************************************************************************)
(* The support level besides paging (phase3Umps3): test() and what it       *)
(* creates, an SST with its user process, the system calls of user          *)
(* processes, the print services and the end of it all.                     *)
(*                                                                          *)
(* Of the nucleus there is what its processes notice: inboxes are stacks,   *)
(* RECEIVEMESSAGE waits for its sender, a message to a dead process is      *)
(* dropped, the SSI serves one request at a time, DOIO is answered by the   *)
(* device.  Any process that is not waiting may run next.  A request is a   *)
(* word in the message: what it says is read in the sender's memory when it *)
(* is served.  Each user process has one page for its strings and payloads, *)
(* which other processes may push out of the TLB, and out of memory, at any *)
(* time.  The handlers' questions to the SSI for the support structure are  *)
(* part of the step that asks.                                              *)
(*                                                                          *)
(* A process that loads the state of another, or whose kernel faults in an  *)
(* exception handler, has gone astray: what it executes from then on is not *)
(* modelled, and the properties are about the system until that happens.    *)
(****************************************************************************)
EXTENDS DeviceMap, SequencesExt

CONSTANTS
  UPROCMAX,
  services,       \* services[a]: what program a may ask its SST for
  prints,         \* prints[a]: the [string, length] it may ask to print
  MaxRequests,    \* requests of a program before it must terminate
  Trapping,       \* the programs that may trap
  Pressed,        \* the programs whose page may leave the TLB and memory
  MaxEvictions,
  NULL

Asid == 1..UPROCMAX
Ssi == <<"ssi", 0>>
Test == <<"test", 0>>
Swap == <<"swapMutex", 0>>
Sst(a) == <<"SST", a>>
Uproc(a) == <<"uproc", a>>
SupportProcs == {Sst(a) : a \in Asid} \cup {Uproc(a) : a \in Asid}
Proc == {Ssi, Test, Swap} \cup SupportProcs

\* The slots of devQueue for the devices that print.
Device == {PRNTINT - 3, TERMINT - 3} \X (0..(UPROCMAX - 1))

PrintServices == {"WRITEPRINTER", "WRITETERMINAL"}
Service == PrintServices \cup {"GET_TOD", "TERMINATE", "unknown"}

ASSUME SupportAssumption ==
  /\ UPROCMAX \in 1..UPROCLIMIT
  /\ services \in [Asid -> SUBSET (Service \ {"TERMINATE"})]
  /\ MaxRequests \in Nat /\ MaxEvictions \in Nat
  /\ Trapping \subseteq Asid /\ Pressed \subseteq Asid
  /\ \A a \in Asid : \A t \in prints[a] :
       t.length \in Nat /\ t.string \in Seq(ToSet(t.string))
  /\ NULL \notin Proc

VARIABLES
  alive,          \* the processes whose PCB is not free
  pc,             \* the next step of each process
  msg_inbox,
  asid,           \* asid of test()
  uProcCount,
  request,        \* request[a]: the payload of program a until it is answered, or NULL
  requests,       \* how many requests program a has made
  printed,        \* printed[a]: i of writeString()
  do_io,          \* do_io[a] of writeString(): the command address and the character
  devQueue,
  printing,       \* printing[d]: the character device d prints, or NULL
  output,         \* output[d]: what device d has printed
  page,           \* page[a]: "tlb", "memory" (not in the TLB) or "absent"
  exceptState,    \* sup_exceptState[PGFAULTEXCEPT]: whose state it is, and its pc
  evictions

nucleus == <<alive, msg_inbox>>
counting == <<asid, uProcCount>>
programs == <<request, requests>>
writing == <<printed, do_io>>
devices == <<devQueue, printing, output>>
memory == <<page, exceptState, evictions>>
vars == <<nucleus, pc, counting, programs, writing, devices, memory>>

\* main() has made the SSI and test().
Init ==
  /\ alive = {Ssi, Test}
  /\ pc = [p \in Proc |-> CASE p = Test -> "newSwap" [] p \in {Ssi, Swap} -> "serve"
                            [] p[1] = "SST" -> "newChild" [] OTHER -> "user"]
  /\ msg_inbox = [p \in Proc |-> <<>>]
  /\ asid = 1 /\ uProcCount = UPROCMAX
  /\ request = [a \in Asid |-> NULL] /\ requests = [a \in Asid |-> 0]
  /\ printed = [a \in Asid |-> 0]
  /\ do_io = [a \in Asid |-> [commandAddr |-> CmdAddr(PrinterDev(a)), char |-> NULL]]
  /\ devQueue = [d \in Device |-> NULL] /\ printing = [d \in Device |-> NULL]
  /\ output = [d \in Device |-> <<>>]
  /\ page = [a \in Asid |-> "memory"]
  /\ exceptState = [a \in Asid |-> [who |-> NULL, at |-> "user"]]
  /\ evictions = 0
------------------------------------------------------------------------------
(* What the nucleus does for a process.                                     *)

At(p, l) == p \in alive /\ pc[p] = l
Goto(p, l) == pc' = [pc EXCEPT ![p] = l]

\* sendMessage(), given the inboxes: pushMessage(), unless dest is dead.
Push(inboxes, from, op, dest) ==
  IF dest \in alive THEN [inboxes EXCEPT ![dest] = <<[from |-> from, op |-> op]>> \o @]
  ELSE inboxes

\* receiveMessage(): popMessage() of the newest message from a sender, or from
\* anyone when from is NULL.
Match(p, from) == SelectInSeq(msg_inbox[p], LAMBDA m : from = NULL \/ m.from = from)
Popped(p, from) == [msg_inbox EXCEPT ![p] = RemoveAt(@, Match(p, from))]

\* Process p, at step l, sends or receives and goes on at l2.
Tell(p, l, op, dest, l2) ==
  /\ At(p, l) /\ Goto(p, l2)
  /\ msg_inbox' = Push(msg_inbox, p, op, dest)
  /\ UNCHANGED alive
Receive(p, l, from, l2) ==
  /\ At(p, l) /\ Match(p, from) > 0 /\ Goto(p, l2)
  /\ msg_inbox' = Popped(p, from)
  /\ UNCHANGED alive

\* The step is one of p's kernel: no page, device or program is concerned.
Quiet == UNCHANGED <<programs, writing, devices, memory>>

\* The page of program a is used with interrupts on: a TLB miss is refilled.
Touch(a) ==
  /\ page[a] # "absent" /\ page' = [page EXCEPT ![a] = "tlb"]
  /\ UNCHANGED <<exceptState, evictions>>
------------------------------------------------------------------------------
(* Code that several processes run.                                         *)

\* newProc(): CREATEPROCESS, and the answer of the SSI.
newProc(p, l, l2, next) == Tell(p, l, "create", Ssi, l2) \/ Receive(p, l2, Ssi, next)

\* suicide(), which is not answered.
suicide(p) == Tell(p, "suicide", "kill", Ssi, "dying") /\ UNCHANGED counting /\ Quiet

\* The page fault handler, run by the SST or the user process of a.  Both come
\* to the same exceptState and the same stack.
TouchSteps == {"decode", "print", "advance", "user", "sent"}
PageFault(p, a) ==
  /\ p \in alive /\ pc[p] \in TouchSteps /\ page[a] = "absent"
  /\ exceptState' = [exceptState EXCEPT ![a] = [who |-> p, at |-> pc[p]]]
  /\ Goto(p, "fault")
  /\ UNCHANGED <<nucleus, counting, programs, writing, devices, page, evictions>>

\* Mutant: the page table entry is not made valid.
PageInInvalid(p, a) ==
  /\ At(p, "fault")
  /\ Goto(p, IF exceptState[a].who = p THEN exceptState[a].at ELSE "foreign")
  /\ UNCHANGED <<nucleus, counting, programs, writing, devices, memory>>

\* From getSupportStruct() to LDST(excState): Pager has the steps.  The
\* state that is loaded is that of the process that faulted last.
PageIn(p, a) ==
  /\ At(p, "fault")
  /\ \E w \in {"tlb", "memory"} : page' = [page EXCEPT ![a] = w]
  /\ Goto(p, IF exceptState[a].who = p THEN exceptState[a].at ELSE "foreign")
  /\ UNCHANGED <<nucleus, counting, programs, writing, devices, exceptState, evictions>>

Handler(p, a) == PageFault(p, a) \/ PageIn(p, a)
------------------------------------------------------------------------------
(* test().                                                                  *)

TestNewSwap ==
  newProc(Test, "newSwap", "getSwap", "newSst") /\ UNCHANGED counting /\ Quiet

\* Mutant: > in place of = in the test for the last SST.
TestNewSstMore ==
  /\ newProc(Test, "newSst", "getSst", IF asid > UPROCMAX THEN "count" ELSE "newSst")
  /\ asid' = IF pc[Test] = "getSst" THEN asid + 1 ELSE asid
  /\ UNCHANGED uProcCount /\ Quiet

TestNewSst ==
  /\ newProc(Test, "newSst", "getSst", IF asid = UPROCMAX THEN "count" ELSE "newSst")
  /\ asid' = IF pc[Test] = "getSst" THEN asid + 1 ELSE asid
  /\ UNCHANGED uProcCount /\ Quiet

\* Mutant: test() does not wait for the last SST.
TestCountsShort ==
  /\ Receive(Test, "count", NULL, IF uProcCount <= 2 THEN "suicide" ELSE "count")
  /\ uProcCount' = uProcCount - 1 /\ UNCHANGED asid /\ Quiet

\* A message from anyone stands for an SST that ends.
TestCounts ==
  /\ Receive(Test, "count", NULL, IF uProcCount = 1 THEN "suicide" ELSE "count")
  /\ uProcCount' = uProcCount - 1 /\ UNCHANGED asid /\ Quiet

TestStep == TestNewSwap \/ TestNewSst \/ TestCounts \/ suicide(Test)

\* swapMutex(), outside the page fault handler: a release it does not wait for.
SwapMutex == Receive(Swap, "serve", NULL, "serve") /\ UNCHANGED counting /\ Quiet
------------------------------------------------------------------------------
(* SST(): it serves its child until it is told to terminate.                *)

SstStart(a) ==
  newProc(Sst(a), "newChild", "getChild", "serve") /\ UNCHANGED counting /\ Quiet
SstReceive(a) ==
  Receive(Sst(a), "serve", Uproc(a), "decode") /\ UNCHANGED counting /\ Quiet

\* SSTrequest(): the service is read from the payload, in the page of the
\* program or, after a trap, on a kernel stack.
SSTrequest(a) ==
  /\ At(Sst(a), "decode")
  /\ Goto(Sst(a), CASE request[a].service \in PrintServices -> "print"
                    [] request[a].service = "TERMINATE" -> "tellTest"
                    [] OTHER -> "answer")
  /\ IF pc[Uproc(a)] = "lost" THEN UNCHANGED memory ELSE Touch(a)
  /\ UNCHANGED <<nucleus, counting, programs, writing, devices>>

\* One iteration of writeString() up to its DOIO.  The string ends at its
\* length or at '\0'.
AtEnd(a) == printed[a] >= request[a].length \/ request[a].string = <<>>
Dev(a) == IF request[a].service = "WRITEPRINTER" THEN PrinterDev(a) ELSE TerminalDev(a)
writeEnd(a) ==
  /\ At(Sst(a), "print") /\ AtEnd(a) /\ Touch(a) /\ Goto(Sst(a), "answer")
  /\ UNCHANGED <<nucleus, counting, programs, writing, devices>>
writeChar(a) ==
  /\ Tell(Sst(a), "print", "doio", Ssi, "printWait") /\ ~AtEnd(a) /\ Touch(a)
  /\ do_io' = [do_io EXCEPT ![a] =
       [commandAddr |-> CmdAddr(Dev(a)), char |-> Head(request[a].string)]]
  /\ UNCHANGED <<counting, programs, printed, devices>>
writeWait(a) ==
  Receive(Sst(a), "printWait", Ssi, "advance") /\ UNCHANGED counting /\ Quiet

\* Mutant: the string pointer is not advanced.
writeStuck(a) ==
  /\ At(Sst(a), "advance") /\ Touch(a) /\ Goto(Sst(a), "print")
  /\ printed' = [printed EXCEPT ![a] = @ + 1]
  /\ UNCHANGED <<nucleus, counting, programs, do_io, devices>>

\* s->string++ and i++.
writeAdvance(a) ==
  /\ At(Sst(a), "advance") /\ Touch(a) /\ Goto(Sst(a), "print")
  /\ request' = [request EXCEPT ![a].string = Tail(@)]
  /\ printed' = [printed EXCEPT ![a] = @ + 1]
  /\ UNCHANGED <<nucleus, counting, requests, do_io, devices>>
writeString(a) == writeEnd(a) \/ writeChar(a) \/ writeWait(a) \/ writeAdvance(a)

SstAnswer(a) ==
  /\ Tell(Sst(a), "answer", "answer", Uproc(a), "serve")
  /\ printed' = [printed EXCEPT ![a] = 0]
  /\ UNCHANGED <<counting, programs, do_io, devices, memory>>

\* terminate(); cleanSwapTable() is in Pager.
terminate(a) ==
  /\ Tell(Sst(a), "tellTest", "done", Test, "suicide")
  /\ UNCHANGED counting /\ Quiet

SstStep(a) ==
  \/ SstStart(a) \/ SstReceive(a) \/ SSTrequest(a) \/ writeString(a) \/ SstAnswer(a)
  \/ terminate(a) \/ suicide(Sst(a)) \/ Handler(Sst(a), a)
------------------------------------------------------------------------------
(* A user process: it asks its SST, through generalExceptionHandler() and   *)
(* usyscallHandler(), and waits for the answer.                             *)

\* The program fills in the payload, in its page.
Ask(a, r) ==
  /\ At(Uproc(a), "user") /\ Touch(a) /\ Goto(Uproc(a), "send")
  /\ request' = [request EXCEPT ![a] = r]
  /\ requests' = [requests EXCEPT ![a] = @ + 1]
  /\ UNCHANGED <<nucleus, counting, writing, devices>>
Payload(service) == [service |-> service, string |-> <<>>, length |-> 0]
AskPrint(a) ==
  /\ requests[a] < MaxRequests
  /\ \E s \in services[a] \cap PrintServices, t \in prints[a] :
       Ask(a, [service |-> s, string |-> t.string, length |-> t.length])
AskQuery(a) ==
  /\ requests[a] < MaxRequests
  /\ \E s \in services[a] \ PrintServices : Ask(a, Payload(s))
AskEnd(a) == Ask(a, Payload("TERMINATE"))

\* SENDMSG to PARENT, then RECEIVEMSG from anyone.
usyscallSend(a) ==
  Tell(Uproc(a), "send", "request", Sst(a), "sent") /\ UNCHANGED counting /\ Quiet
Sent(a) ==
  /\ At(Uproc(a), "sent") /\ Touch(a) /\ Goto(Uproc(a), "recv")
  /\ UNCHANGED <<nucleus, counting, programs, writing, devices>>

\* Mutant: the program goes on without the answer.
usyscallNoWait(a) ==
  /\ At(Uproc(a), "recv") /\ Goto(Uproc(a), "user")
  /\ UNCHANGED <<nucleus, counting, programs, writing, devices, memory>>

\* receiveMessage() stores the answer to GET_TOD in the page of the program, in
\* the exception handler: a TLB miss there is an exception in the handler,
\* which loses the state and the stack of the first one.
usyscallReceive(a) ==
  /\ Receive(Uproc(a), "recv", NULL,
       IF request[a].service = "GET_TOD" /\ page[a] # "tlb" THEN "nested" ELSE "user")
  /\ request' = [request EXCEPT ![a] = NULL]
  /\ UNCHANGED <<counting, requests, writing, devices, memory>>

\* A program trap: generalExceptionHandler(), programTrapsHandler(), which
\* releases the mutex and makes a system call that is passed up in its turn,
\* and a return from a handler that nothing called.
Trap(a) ==
  /\ a \in Trapping /\ At(Uproc(a), "user") /\ Goto(Uproc(a), "trapRelease")
  /\ UNCHANGED <<nucleus, counting, programs, writing, devices, memory>>
programTrapsHandler(a) ==
  \/ /\ Tell(Uproc(a), "trapRelease", "release", Swap, "trapTell")
     /\ UNCHANGED counting /\ Quiet
  \/ /\ Tell(Uproc(a), "trapTell", "request", Sst(a), "lost")
     /\ request' = [request EXCEPT ![a] = Payload("TERMINATE")]
     /\ UNCHANGED <<counting, requests, writing, devices, memory>>

UprocStep(a) ==
  \/ AskPrint(a) \/ AskQuery(a) \/ AskEnd(a) \/ usyscallSend(a) \/ Sent(a) \/ usyscallReceive(a)
  \/ Trap(a) \/ programTrapsHandler(a) \/ Handler(Uproc(a), a)

\* What other processes do to the page of a, whenever they run: their TLB refills
\* push its entry out, their page faults take its frame.
Drop(a) ==
  /\ a \in Pressed /\ page[a] = "tlb" /\ page' = [page EXCEPT ![a] = "memory"]
  /\ UNCHANGED <<nucleus, pc, counting, programs, writing, devices, exceptState, evictions>>
Evict(a) ==
  /\ a \in Pressed /\ page[a] # "absent" /\ evictions < MaxEvictions
  /\ page' = [page EXCEPT ![a] = "absent"] /\ evictions' = evictions + 1
  /\ UNCHANGED <<nucleus, pc, counting, programs, writing, devices, exceptState>>
------------------------------------------------------------------------------
(* The SSI, one request at a time, and the devices.                         *)

Serving(op) == msg_inbox[Ssi] # <<>> /\ Head(msg_inbox[Ssi]).op = op
sender == Head(msg_inbox[Ssi]).from
Served == [msg_inbox EXCEPT ![Ssi] = Tail(@)]

\* What newProc() of the sender describes.
NewChild ==
  IF sender # Test THEN Uproc(sender[2]) ELSE IF pc[Test] = "getSwap" THEN Swap ELSE Sst(asid)
SsiCreate ==
  /\ Serving("create") /\ alive' = alive \cup {NewChild}
  /\ msg_inbox' = Push(Served, Ssi, "answer", sender)
  /\ UNCHANGED <<pc, counting>> /\ Quiet

\* doIO(): the sender goes to the slot the address computes to, and the command
\* to the device whose register has that address.
DeviceAt(addr) ==
  CHOOSE d \in Device : addr \in DevAddrBase(d[1] + 3, d[2])..(DevAddrBase(d[1] + 3, d[2]) + 15)
SsiDoIO ==
  /\ Serving("doio") /\ msg_inbox' = Served
  /\ LET io == do_io[sender[2]] IN
       /\ devQueue' = [devQueue EXCEPT ![SlotOf(io.commandAddr)] = sender]
       /\ printing' = [printing EXCEPT ![DeviceAt(io.commandAddr)] = io.char]
  /\ UNCHANGED <<alive, pc, counting, programs, writing, output, memory>>

\* killProcess() of the sender and, by recursion, of its descendants.  Their messages
\* stay where they are: each process is created once, with the inbox that is empty yet.
Descendants(p) ==
  IF p = Test THEN Proc \ {Ssi} ELSE {q \in {Sst(a) : a \in Asid} : q = p} \cup
    {q \in {Uproc(a) : a \in Asid} : q[2] = p[2]}

\* Mutant: the children survive.
SsiKillOnly ==
  /\ Serving("kill") /\ alive' = alive \ {sender} /\ msg_inbox' = Served
  /\ devQueue' = [d \in Device |-> IF devQueue[d] = sender THEN NULL ELSE devQueue[d]]
  /\ UNCHANGED <<pc, counting, programs, writing, printing, output, memory>>

SsiKill ==
  /\ Serving("kill") /\ alive' = alive \ Descendants(sender) /\ msg_inbox' = Served
  /\ devQueue' = [d \in Device |-> IF devQueue[d] \in Descendants(sender) THEN NULL
                                 ELSE devQueue[d]]
  /\ UNCHANGED <<pc, counting, programs, writing, printing, output, memory>>

SsiStep == SsiCreate \/ SsiDoIO \/ SsiKill

\* A device has printed its character: deviceInterrupt() answers who is in its
\* slot in the name of the SSI.
DeviceInterrupt(d) ==
  /\ printing[d] # NULL
  /\ output' = [output EXCEPT ![d] = Append(@, printing[d])]
  /\ printing' = [printing EXCEPT ![d] = NULL] /\ devQueue' = [devQueue EXCEPT ![d] = NULL]
  /\ msg_inbox' = IF devQueue[d] = NULL THEN msg_inbox
                  ELSE Push(msg_inbox, Ssi, "status", devQueue[d])
  /\ UNCHANGED <<alive, pc, counting, programs, writing, memory>>

\* HALT: only the SSI is left, and it waits.
Halted == alive = {Ssi} /\ msg_inbox[Ssi] = <<>>

\* Where process p of program a is, or will be when its page fault has been handled:
\* in the state of the other one, if that has faulted meanwhile.
Where(a, p) ==
  IF pc[p] # "fault" THEN pc[p]
  ELSE IF exceptState[a].who = p THEN exceptState[a].at ELSE "foreign"
Astray == \E a \in Asid : \E p \in {Sst(a), Uproc(a)} : Where(a, p) \in {"foreign", "nested"}

Halt == (Halted \/ Astray) /\ UNCHANGED vars
------------------------------------------------------------------------------
Next ==
  \/ TestStep \/ SwapMutex \/ SsiStep \/ Halt
  \/ \E a \in Asid : SstStep(a) \/ UprocStep(a) \/ Drop(a) \/ Evict(a)
  \/ \E d \in Device : DeviceInterrupt(d)

Spec == Init /\ [][Next]_vars

(* Fairness: the ready queue is round robin, so that a process that need    *)
(* not wait executes its next step (and a program ends in the end, as those *)
(* of the repository do), and a device finishes what it prints.             *)
Fairness ==
  /\ WF_vars(TestStep) /\ WF_vars(SwapMutex) /\ WF_vars(SsiStep)
  /\ \A a \in Asid : WF_vars(SstStep(a)) /\ WF_vars(UprocStep(a))
  /\ WF_vars(\E d \in Device : DeviceInterrupt(d))

FairSpec == Spec /\ Fairness
------------------------------------------------------------------------------
Text == UNION {UNION {Prefixes(s) : s \in Suffixes(t.string)} : t \in UNION {prints[a] : a \in Asid}}
Char == UNION {ToSet(t.string) : t \in UNION {prints[a] : a \in Asid}}

\* NULL is neither a request nor what is left of a text.
ASSUME NullAssumption ==
  NULL \notin [service : Service, string : Seq(Char), length : Nat]
           \cup [kind : PrintServices, rest : Seq(Char)]

Steps == {"newSwap", "getSwap", "newSst", "getSst", "count", "suicide", "dying", "serve",
          "newChild", "getChild", "tellTest", "answer", "printWait", "send", "recv",
          "fault", "trapRelease", "trapTell", "lost", "foreign", "nested"}
           \cup TouchSteps
Message == [from : Proc,
            op : {"create", "kill", "doio", "answer", "status", "request", "done",
                  "release"}]

TypeOK ==
  /\ alive \subseteq Proc /\ pc \in [Proc -> Steps] /\ msg_inbox \in [Proc -> Seq(Message)]
  /\ asid \in 1..(UPROCMAX + 1) /\ uProcCount \in 0..UPROCMAX
  /\ request \in [Asid -> [service : Service, string : Text \cup {<<>>}, length : Nat] \cup {NULL}]
  /\ requests \in [Asid -> Nat] /\ printed \in [Asid -> Nat]
  /\ \A a \in Asid : do_io[a].char \in Char \cup {NULL}
  /\ devQueue \in [Device -> Proc \cup {NULL}] /\ printing \in [Device -> Char \cup {NULL}]
  /\ output \in [Device -> Seq(Char)]
  /\ page \in [Asid -> {"tlb", "memory", "absent"}]
  /\ exceptState \in [Asid -> [who : SupportProcs \cup {NULL}, at : Steps]]
  /\ evictions \in 0..MaxEvictions

\* test() asks to be killed, and with it everything, only when no program waits for
\* an answer or computes: each SST has been told to terminate (initProc.c, "terminate
\* after all SST have terminated").
TestEndsLast ==
  ~Astray /\ pc[Test] \in {"suicide", "dying"} =>
    \A a \in Asid : pc[Sst(a)] \in {"suicide", "dying"} /\ request[a].service = "TERMINATE"

\* An SST and its program end together: no program outlives its SST, whose support
\* structure it uses, and no SST waits for a program that is gone.
EndTogether ==
  ~Astray => \A a \in Asid : pc[Sst(a)] \notin {"newChild", "getChild"} =>
    (Sst(a) \in alive <=> Uproc(a) \in alive)

\* An answer of the SST is to the request the program has just made: a program that
\* computes has none left in its inbox, which its RECEIVEMSG from anyone would take
\* for the answer to its next request.
NoStaleAnswer ==
  ~Astray => \A a \in Asid :
    Uproc(a) \in alive /\ pc[Uproc(a)] = "user" => msg_inbox[Uproc(a)] = <<>>

\* A device that prints has the SST of its own program in its slot of devQueue, so
\* that its interrupt answers the process that waits for it (doIO, writeString).
InterruptFindsSst ==
  ~Astray => \A d \in Device : printing[d] # NULL =>
    /\ devQueue[d] = Sst(d[2] + 1)
    /\ pc[devQueue[d]] = "printWait"

\* An SST and its program share sup_exceptState[PGFAULTEXCEPT], and both touch the page
\* of the program.  One returns from a page fault to the state of the other only
\* between the program's SENDMSG and its RECEIVEMSG: a program that computes never
\* does, nor does an SST that waits for a request, whenever the page leaves.
StrayOnlyInRequest ==
  \A a \in Asid : "foreign" \in {Where(a, Sst(a)), Where(a, Uproc(a))} =>
    Where(a, Uproc(a)) \in {"sent", "recv", "foreign"} /\ request[a] # NULL

\* Printing is what Console says.  What is left of a text: without the character
\* that the device has printed before the pointer is advanced.
SstAt(a) == Where(a, Sst(a))
CharPrinted(a) ==
  SstAt(a) = "advance" \/ (SstAt(a) = "printWait" /\ Match(Sst(a), Ssi) > 0)
Rest(a) ==
  LET r == request[a]
  IN IF SstAt(a) = "answer" \/ Match(Uproc(a), Sst(a)) > 0 THEN <<>>
     ELSE SubSeq(r.string, IF CharPrinted(a) THEN 2 ELSE 1,
                 Min({Len(r.string), r.length - printed[a]}))
pending ==
  [a \in Asid |->
     IF request[a] # NULL /\ request[a].service \in PrintServices
     THEN [kind |-> request[a].service, rest |-> Rest(a)] ELSE NULL]
paper ==
  [a \in Asid |-> [k \in PrintServices |->
     IF k = "WRITEPRINTER" THEN output[<<PRNTINT - 3, a - 1>>]
     ELSE output[<<TERMINT - 3, a - 1>>]]]
C == INSTANCE Console WITH Program <- Asid, Kind <- PrintServices, NoText <- NULL,
                           output <- paper
\* The text of every print service appears whole and in order on the device of its
\* own program before the program goes on, and nothing else does, whatever pages the
\* SST faults on, with lengths below and beyond the end of the string, until a process
\* goes astray.
PrintsAsAsked == C!Init /\ [][C!Next \/ Astray']_<<paper, pending>>

\* What the page fault handler loads is the state of the process that runs it.
ReturnsToItself == \A p \in Proc : pc[p] # "foreign"

\* The nucleus meets no TLB miss in its own handlers.
NoNestedException == \A p \in Proc : pc[p] # "nested"

\* Every program gets to its end, the SSTs are counted and the machine halts, unless a
\* process goes astray.
Halts == <>(Halted \/ Astray)
==============================================================================
