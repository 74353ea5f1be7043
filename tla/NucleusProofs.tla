---------------------------- MODULE NucleusProofs ----------------------------
(* Theorems about Nucleus. *)
EXTENDS Nucleus, QueueLemmas, FiniteSetTheorems

\* Sequences, records and the tuples of variables, expanded in most leaves.
USE DEF queues, cpu, counts, tree, mail, ssi

(* The operations the handlers share. *)

LEMMA ConstantTypes ==
  /\ ssi_pcb \in Pcb /\ root_pcb \in ClientPcb
  /\ freeList \in Seq(ClientPcb) /\ IsInjective(freeList)
  /\ ToSet(freeList) = ClientPcb \ {root_pcb}
  /\ NULL \notin Pcb /\ NULL \notin Device /\ Computing \notin Pcb /\ Computing # NULL
  /\ MaxMessages \in Nat /\ Budget \in [ClientOps -> Nat]
  /\ ClientPcb \subseteq Pcb /\ SsiMessage \subseteq Message
<1>1. freeList \in Seq(ClientPcb)
  <2>1. \A i \in 1..Len(freeList) : freeList[i] \in ClientPcb
    BY NucleusAssumption, InSet DEF ClientPcb
  <2>2. freeList \in [1..Len(freeList) -> ClientPcb] /\ Len(freeList) \in Nat
    BY NucleusAssumption, <2>1
  <2> QED BY <2>2, SeqDef
<1>2. SsiMessage \subseteq Message
  BY DEF Message
<1> QED BY <1>1, <1>2, NucleusAssumption DEF ClientPcb

\* scheduler() dispatches the head of the queue it is given.
LEMMA SchedulerFacts ==
  ASSUME NEW ready \in Seq(Pcb), NEW procs, NEW soft, NEW plt \in BOOLEAN,
         Scheduler(ready, procs, soft, plt)
  PROVE  /\ machine' \in {"on", "wait", "halt", "panic"} \cup Broken
         /\ current_process' \in Pcb \cup {NULL} /\ pltPending' \in BOOLEAN
         /\ readyQueue' \in Seq(Pcb)
         /\ Ready' \cup Running' = ToSet(ready)
         /\ IsInjective(ready) => IsInjective(readyQueue') /\ Ready' \cap Running' = {}
<1>1. CASE ready # <<>> /\ current_process' = Head(ready) /\ readyQueue' = Tail(ready)
           /\ machine' = "on" /\ pltPending' = FALSE
  <2>1. /\ Head(ready) \in Pcb /\ Tail(ready) \in Seq(Pcb)
        /\ ToSet(ready) = ToSet(Tail(ready)) \cup {Head(ready)}
        /\ IsInjective(ready) => IsInjective(Tail(ready)) /\ Head(ready) \notin ToSet(Tail(ready))
    BY <1>1, HeadTailSet
  <2> QED BY <1>1, <2>1, ConstantTypes DEF Ready, Running
<1>2. CASE ready = <<>> /\ current_process' = NULL /\ readyQueue' = <<>>
  <2>1. ToSet(ready) = {} /\ IsInjective(ready) /\ ready \in Seq(Pcb)
    BY <1>2 DEF ToSet, IsInjective
  <2>2. machine' \in {"on", "wait", "halt", "panic"} \cup Broken /\ pltPending' \in BOOLEAN
    BY <1>2 DEF Scheduler, Broken
  <2> QED BY <1>2, <2>1, <2>2 DEF Ready, Running
<1> QED BY <1>1, <1>2 DEF Scheduler

LEMMA ResumeFacts ==
  ASSUME NEW ready \in Seq(Pcb), NEW soft, TypeOK, ResumeOrSchedule(ready, soft)
  PROVE  /\ machine' \in {"on", "wait", "halt", "panic"} \cup Broken
         /\ current_process' \in Pcb \cup {NULL} /\ pltPending' \in BOOLEAN
         /\ readyQueue' \in Seq(Pcb)
         /\ Ready' \cup Running' = ToSet(ready) \cup Running
         /\ IsInjective(ready) => IsInjective(readyQueue')
         /\ IsInjective(ready) /\ ToSet(ready) \cap Running = {} => Ready' \cap Running' = {}
<1>1. CASE current_process # NULL /\ readyQueue' = ready /\ UNCHANGED cpu
  BY <1>1 DEF TypeOK, Ready, Running
<1>2. CASE current_process = NULL /\ Scheduler(ready, process_count, soft, FALSE)
  <2>1. Running = {}
    BY <1>2 DEF Running
  <2> QED BY <1>2, <2>1, SchedulerFacts
<1> QED BY <1>1, <1>2 DEF ResumeOrSchedule

\* popMessage() finds the first message wanted, or there is none.
LEMMA FirstMatchFacts ==
  ASSUME TypeOK, NEW p \in Pcb, NEW from
  PROVE  LET i == FirstMatch(p, from) IN
           /\ i \in 0..Len(msg_inbox[p])
           /\ i = 0 => \A j \in DOMAIN msg_inbox[p] :
                         from # NULL /\ msg_inbox[p][j].from # from
<1> DEFINE I == {i \in 1..Len(msg_inbox[p]) : from = NULL \/ msg_inbox[p][i].from = from}
<1>1. msg_inbox[p] \in Seq(Message)
  BY DEF TypeOK
<1>2. Len(msg_inbox[p]) \in Nat /\ DOMAIN msg_inbox[p] = 1..Len(msg_inbox[p]) /\ I \subseteq Nat
  BY <1>1, LenProperties
<1>3. FirstMatch(p, from) = IF I # {} THEN Min(I) ELSE 0
  BY DEF FirstMatch, SelectInSeq
<1>4. I # {} => Min(I) \in I
  BY <1>2, MinNat
<1> QED BY <1>2, <1>3, <1>4

LEMMA TakeFacts ==
  ASSUME TypeOK, NEW p \in Pcb, NEW i \in 1..Len(msg_inbox[p]), TakeMessage(p, i)
  PROVE  /\ msgFree' \in Nat /\ msg_inbox' \in [Pcb -> Seq(Message)]
         /\ msg_inbox'[ssi_pcb] \in Seq(SsiMessage)
         /\ \A q \in Pcb \ {p} : msg_inbox'[q] = msg_inbox[q]
<1>1. msg_inbox[p] \in Seq(Message) /\ msg_inbox[ssi_pcb] \in Seq(SsiMessage)
  BY DEF TypeOK
<1>2. RemoveAt(msg_inbox[p], i) \in Seq(Message)
  BY <1>1, RemoveAtSeq
<1>3. p = ssi_pcb => RemoveAt(msg_inbox[p], i) \in Seq(SsiMessage)
  BY <1>1, RemoveAtSeq
<1>4. msg_inbox' = [msg_inbox EXCEPT ![p] = RemoveAt(msg_inbox[p], i)]
  BY DEF TakeMessage
<1> QED BY <1>1, <1>2, <1>3, <1>4, ConstantTypes DEF TakeMessage, TypeOK

\* sendMessage() reaches only the destination, and wakes it.
LEMMA SendFacts ==
  ASSUME TypeOK, NEW m \in Message, NEW dest \in Pcb, Send(m, dest),
         dest = ssi_pcb => m \in SsiMessage
  PROVE  /\ msgFree' \in Nat /\ msg_inbox' \in [Pcb -> Seq(Message)]
         /\ msg_inbox'[ssi_pcb] \in Seq(SsiMessage)
         /\ receiveMessageQueue' \subseteq receiveMessageQueue
         /\ \A p \in receiveMessageQueue' : msg_inbox'[p] = msg_inbox[p]
         /\ ReadyAfterSend(dest) \in Seq(Pcb)
         /\ ToSet(ReadyAfterSend(dest)) = Ready \cup (receiveMessageQueue \ receiveMessageQueue')
         /\ IsInjective(readyQueue) /\ Ready \cap receiveMessageQueue = {}
            => IsInjective(ReadyAfterSend(dest))
<1>1. msgFree' \in Nat
  BY DEF Send, TypeOK
<1>2. CASE ~Delivered(dest) /\ UNCHANGED <<msg_inbox, receiveMessageQueue>>
  <2>1. ReadyAfterSend(dest) = readyQueue
    BY <1>2 DEF ReadyAfterSend
  <2> QED BY <1>1, <1>2, <2>1 DEF TypeOK, Ready
<1>3. CASE /\ Delivered(dest)
           /\ receiveMessageQueue' = receiveMessageQueue \ {dest}
           /\ msg_inbox' = [msg_inbox EXCEPT ![dest] = <<m>> \o @]
  <2>1. msg_inbox[dest] \in Seq(Message) /\ msg_inbox[ssi_pcb] \in Seq(SsiMessage)
    BY DEF TypeOK
  <2>2. <<m>> \o msg_inbox[dest] \in Seq(Message)
    BY <2>1, ConsSet
  <2>3. dest = ssi_pcb => <<m>> \o msg_inbox[dest] \in Seq(SsiMessage)
    BY <2>1, ConsSet
  <2>4. /\ msg_inbox' \in [Pcb -> Seq(Message)] /\ msg_inbox'[ssi_pcb] \in Seq(SsiMessage)
        /\ \A p \in Pcb \ {dest} : msg_inbox'[p] = msg_inbox[p]
    BY <1>3, <2>1, <2>2, <2>3, ConstantTypes DEF TypeOK
  <2>5. readyQueue \in Seq(Pcb) /\ receiveMessageQueue \subseteq Pcb
    BY DEF TypeOK
  <2>6. CASE dest \in receiveMessageQueue
    <3>1. ReadyAfterSend(dest) = Append(readyQueue, dest)
      BY <1>3, <2>6 DEF ReadyAfterSend
    <3>2. ToSet(ReadyAfterSend(dest)) = Ready \cup (receiveMessageQueue \ receiveMessageQueue')
      BY <1>3, <2>5, <2>6, <3>1, AppendSet DEF Ready
    <3> QED BY <1>1, <1>3, <2>4, <2>5, <2>6, <3>1, <3>2, AppendSet DEF Ready
  <2>7. CASE dest \notin receiveMessageQueue
    <3>1. ReadyAfterSend(dest) = readyQueue /\ receiveMessageQueue' = receiveMessageQueue
      BY <1>3, <2>7 DEF ReadyAfterSend
    <3> QED BY <1>1, <1>3, <2>4, <2>5, <2>7, <3>1 DEF Ready
  <2> QED BY <2>6, <2>7
<1> QED BY <1>2, <1>3 DEF Send

\* deviceInterrupt() computes the index of an installed device.
LEMMA InterruptingFacts ==
  ASSUME TypeOK, Pending # {}
  PROVE  Interrupting \in Device
<1> DEFINE onLine == {d \in Pending : d[1] = PendingLine}
<1>1. \A d \in Device : d[1] \in Nat /\ d[2] \in Nat /\ d = <<d[1], d[2]>> /\ <<d[1], 0>> \in Device
  <2> SUFFICES ASSUME NEW d \in Device
               PROVE  d[1] \in Nat /\ d[2] \in Nat /\ d = <<d[1], d[2]>> /\ <<d[1], 0>> \in Device
    OBVIOUS
  <2>1. d \in {3, 4, 6, 7} \X (0..7) /\ <<d[1], 0>> \in Device
    BY NucleusAssumption DEF DISKINT, FLASHINT, PRNTINT, TERMINT
  <2>2. d[1] \in {3, 4, 6, 7} /\ d[2] \in 0..7 /\ d = <<d[1], d[2]>>
    BY <2>1
  <2> QED BY <2>1, <2>2
<1>2. {d[1] : d \in Pending} \subseteq Nat /\ {d[1] : d \in Pending} # {}
  BY <1>1 DEF Pending
<1>3. PendingLine \in {d[1] : d \in Pending}
  BY <1>2, MinNat DEF PendingLine
<1>4. PICK e \in onLine : TRUE
  BY <1>3
<1>5. CASE Cardinality(onLine) = 1
  <2>1. (CHOOSE d \in onLine : TRUE) \in onLine
    BY <1>4
  <2>2. Interrupting = <<PendingLine, (CHOOSE d \in onLine : TRUE)[2]>>
    BY <1>5 DEF Interrupting, DeviceNumber
  <2> QED BY <1>1, <2>1, <2>2 DEF Pending
<1>6. CASE Cardinality(onLine) # 1
  <2>1. Interrupting = <<PendingLine, 0>>
    BY <1>6 DEF Interrupting, DeviceNumber
  <2> QED BY <1>1, <1>4, <2>1 DEF Pending
<1> QED BY <1>5, <1>6
------------------------------------------------------------------------------
LEMMA TypeInit == Init => TypeOK
<1> SUFFICES ASSUME Init PROVE TypeOK
  OBVIOUS
<1>1. <<root_pcb>> \in Seq(Pcb) /\ <<>> \in Seq(ClientPcb) /\ <<>> \in Seq(Message)
      /\ <<>> \in Seq(SsiMessage)
  BY ConstantTypes
<1>2. request \in SsiMessage
  BY ConstantTypes DEF Init, Msg, SsiMessage
<1>3. step \in SsiSteps \cup KillSteps /\ (doomed # <<>> <=> step \in KillSteps)
  BY DEF Init, SsiSteps, KillSteps
<1>4. devQueue \in [Device -> ClientPcb \cup {NULL}] /\ devState \in [Device -> DeviceState]
  BY DEF Init, DeviceState
<1>5. /\ pcbFree \in Seq(ClientPcb) /\ readyQueue \in Seq(Pcb)
      /\ pseudoClockQueue \in Seq(ClientPcb) /\ doomed \in Seq(ClientPcb)
      /\ msg_inbox \in [Pcb -> Seq(Message)] /\ msg_inbox[ssi_pcb] \in Seq(SsiMessage)
  BY <1>1, ConstantTypes DEF Init
<1>6. /\ p_parent \in [Pcb -> Pcb \cup {NULL}] /\ p_child \in [Pcb -> SUBSET ClientPcb]
      /\ awaiting \in [Pcb -> Pcb \cup {NULL, Computing}] /\ receiveMessageQueue \subseteq Pcb
  BY ConstantTypes DEF Init
<1>7. /\ machine \in {"on", "wait", "halt", "panic"} \cup Broken
      /\ current_process \in Pcb \cup {NULL} /\ pltPending \in BOOLEAN
  BY ConstantTypes DEF Init
<1>8. /\ process_count \in Int /\ softBlockCount \in Int /\ loaded \in Int
  BY DEF Init
<1>9. /\ msgFree \in Nat /\ budget \in [ClientOps -> Nat]
  BY ConstantTypes DEF Init
<1> QED BY <1>2, <1>3, <1>4, <1>5, <1>6, <1>7, <1>8, <1>9 DEF TypeOK

LEMMA SpendType ==
  ASSUME TypeOK, NEW k \in ClientOps, Spend(k)
  PROVE  budget' \in [ClientOps -> Nat]
<1>1. budget \in [ClientOps -> Nat]
  BY DEF TypeOK
<1>2. CASE budget[k] > 0 /\ budget' = [budget EXCEPT ![k] = @ - 1]
  <2>1. budget[k] \in Nat /\ budget[k] - 1 \in Nat
    BY <1>1, <1>2
  <2> QED BY <1>1, <1>2, <2>1
<1> QED BY <1>1, <1>2 DEF Spend

\* killProcess() takes its argument out of the process tree, or finds the
\* sibling list broken.
LEMMA EnterKillType ==
  ASSUME TypeOK, NEW p \in ClientPcb, EnterKill(p)
  PROVE  /\ machine' \in {"on", "wait", "halt", "panic"} \cup Broken
         /\ p_parent' \in [Pcb -> Pcb \cup {NULL}] /\ p_child' \in [Pcb -> SUBSET ClientPcb]
         /\ step' \in SsiSteps \cup KillSteps /\ UNCHANGED <<request, loaded>>
         /\ doomed' \in Seq(ClientPcb) /\ (doomed' # <<>> <=> step' \in KillSteps)
<1>1. CASE Orphaned(p) /\ machine' = "corrupt" /\ UNCHANGED <<tree, ssi>>
  BY <1>1 DEF TypeOK, Broken
<1>2. CASE /\ OutChild(p) /\ doomed' = <<p>> /\ step' = "kill"
           /\ UNCHANGED <<machine, request, loaded>>
  <2>1. p_parent' \in [Pcb -> Pcb \cup {NULL}] /\ p_child' \in [Pcb -> SUBSET ClientPcb]
    BY <1>2 DEF OutChild, TypeOK
  <2>2. doomed' \in Seq(ClientPcb) /\ doomed' # <<>> /\ step' \in KillSteps
    BY <1>2 DEF KillSteps
  <2> QED BY <1>2, <2>1, <2>2 DEF TypeOK
<1> QED BY <1>1, <1>2 DEF EnterKill

LEMMA TypeClient ==
  ASSUME TypeOK, NEW p \in Pcb, Client(p)
  PROVE  TypeOK'
<1>1. CASE Request(p)
  <2>0. PICK k \in SsiServices : \E arg \in Args(p, k) :
          Spend(k) /\ Send(Msg(p, k, arg), ssi_pcb)
    BY <1>1 DEF Request
  <2>1. PICK arg \in Args(p, k) : Spend(k) /\ Send(Msg(p, k, arg), ssi_pcb)
    BY <2>0
  <2>2. p \in ClientPcb
    BY <1>1 DEF Request, Runs, ClientPcb
  <2>3. Msg(p, k, arg) \in SsiMessage
    BY <2>1, <2>2, NucleusAssumption DEF Msg, SsiMessage, SsiServices, Args, ClientPcb
  <2>4. budget' \in [ClientOps -> Nat]
    BY <2>1, SpendType DEF ClientOps
  <2>5. awaiting' \in [Pcb -> Pcb \cup {NULL, Computing}]
    BY <1>1, ConstantTypes DEF Request, TypeOK
  <2> QED BY <1>1, <2>1, <2>3, <2>4, <2>5, SendFacts, ConstantTypes DEF Request, TypeOK
<1>2. CASE SendToClient(p)
  <2>1. PICK dest \in Pcb \ {ssi_pcb, p} :
          Send(Msg(p, "data", NULL), dest) /\ readyQueue' = ReadyAfterSend(dest)
    BY <1>2 DEF SendToClient
  <2>2. Msg(p, "data", NULL) \in Message
    BY DEF Msg, Message
  <2>3. budget' \in [ClientOps -> Nat]
    BY <1>2, SpendType DEF SendToClient, ClientOps
  <2> QED BY <1>2, <2>1, <2>2, <2>3, SendFacts DEF SendToClient, TypeOK
<1>3. CASE StartReceive(p)
  <2>1. budget' \in [ClientOps -> Nat]
    BY <1>3, SpendType DEF StartReceive, ClientOps
  <2> QED BY <1>3, <2>1 DEF StartReceive, TypeOK
<1>4. CASE Receive(p)
  <2> DEFINE i == FirstMatch(p, awaiting[p])
  <2>1. i \in 0..Len(msg_inbox[p])
    BY FirstMatchFacts
  <2>2. CASE i > 0 /\ TakeMessage(p, i) /\ awaiting' = [awaiting EXCEPT ![p] = Computing]
             /\ UNCHANGED <<queues, cpu>>
    <3>1. i \in 1..Len(msg_inbox[p])
      BY <2>1, <2>2
    <3> HIDE DEF i
    <3> QED BY <1>4, <2>2, <3>1, TakeFacts DEF Receive, TypeOK
  <2>3. CASE BlockOnReceive(p) /\ UNCHANGED <<pcbFree, pseudoClockQueue, devQueue, mail>>
    BY <1>4, <2>3, SchedulerFacts DEF Receive, BlockOnReceive, TypeOK
  <2> QED BY <1>4, <2>2, <2>3 DEF Receive
<1>5. CASE Preempt(p)
  <2>1. Append(readyQueue, p) \in Seq(Pcb)
    BY AppendSet DEF TypeOK
  <2> QED BY <1>5, <2>1, SchedulerFacts DEF Preempt, TypeOK
<1>6. CASE Trap(p)
  <2>1. p \in ClientPcb /\ EnterKill(p) /\ budget' \in [ClientOps -> Nat]
    BY <1>6, SpendType DEF Trap, Runs, ClientOps, ClientPcb
  <2> QED BY <1>6, <2>1, EnterKillType DEF Trap, TypeOK
<1> QED BY <1>1, <1>2, <1>3, <1>4, <1>5, <1>6 DEF Client

LEMMA TypeSsi ==
  ASSUME TypeOK, Ssi
  PROVE  TypeOK'
<1>1. sender \in ClientPcb /\ sender \in Pcb /\ (request.op = "doio" => request.arg \in Device)
      /\ (request.op = "terminate" => request.arg \in ClientPcb \cup {NULL})
  BY ConstantTypes DEF TypeOK, SsiMessage, sender
<1>2. CASE SsiReceive
  <2> DEFINE i == FirstMatch(ssi_pcb, NULL)
  <2>1. i \in 0..Len(msg_inbox[ssi_pcb])
    BY FirstMatchFacts, ConstantTypes
  <2>2. CASE i > 0 /\ TakeMessage(ssi_pcb, i) /\ request' = msg_inbox[ssi_pcb][i]
             /\ step' = "serve" /\ UNCHANGED <<queues, cpu>>
    <3>1. i \in 1..Len(msg_inbox[ssi_pcb])
      BY <2>1, <2>2
    <3>2. request' \in SsiMessage
      BY <2>2, <3>1 DEF TypeOK
    <3>3. step' \in SsiSteps /\ doomed = <<>> /\ step' \notin KillSteps
      BY <1>2, <2>2 DEF SsiReceive, SsiAt, TypeOK, SsiSteps, KillSteps
    <3> HIDE DEF i
    <3> QED BY <1>2, <2>2, <3>1, <3>2, <3>3, TakeFacts, ConstantTypes DEF SsiReceive, TypeOK
  <2>3. CASE BlockOnReceive(ssi_pcb)
             /\ UNCHANGED <<pcbFree, pseudoClockQueue, devQueue, msg_inbox, msgFree, request, step>>
    <3>1. receiveMessageQueue' \subseteq Pcb
      BY <2>3, ConstantTypes DEF BlockOnReceive, TypeOK
    <3> QED BY <1>2, <2>3, <3>1, SchedulerFacts DEF SsiReceive, BlockOnReceive, TypeOK
  <2> QED BY <1>2, <2>2, <2>3 DEF SsiReceive
<1>3. CASE SsiCreate
  <2> DEFINE newChild == Head(pcbFree)
  <2>1. newChild \in ClientPcb /\ Tail(pcbFree) \in Seq(ClientPcb)
    BY <1>3, HeadTailSet DEF SsiCreate, TypeOK
  <2>2. Append(readyQueue, newChild) \in Seq(Pcb)
    BY <2>1, AppendSet, ConstantTypes DEF TypeOK
  <2>3. <<>> \in Seq(Message)
    OBVIOUS
  <2>4. /\ msg_inbox' = [msg_inbox EXCEPT ![newChild] = <<>>]
        /\ awaiting' = [awaiting EXCEPT ![newChild] = Computing]
        /\ pcbFree' = Tail(pcbFree)
        /\ p_parent' = [p_parent EXCEPT ![newChild] = sender]
        /\ p_child' = [[p_child EXCEPT ![newChild] = {}]
                         EXCEPT ![sender] = @ \cup {newChild}]
        /\ readyQueue' = Append(readyQueue, newChild)
    BY <1>3 DEF SsiCreate, AllocPcb, InsertChild
  <2> HIDE DEF newChild
  <2>5. msg_inbox' \in [Pcb -> Seq(Message)] /\ msg_inbox'[ssi_pcb] \in Seq(SsiMessage)
    BY <2>1, <2>3, <2>4 DEF TypeOK, ClientPcb
  <2>6. /\ awaiting' \in [Pcb -> Pcb \cup {NULL, Computing}]
        /\ p_parent' \in [Pcb -> Pcb \cup {NULL}]
    BY <1>1, <2>1, <2>4 DEF TypeOK
  <2>7. p_child' \in [Pcb -> SUBSET ClientPcb]
    BY <1>1, <2>1, <2>4 DEF TypeOK
  <2>8. step' \in SsiSteps /\ step' \notin KillSteps /\ step \notin KillSteps
    BY <1>3 DEF SsiCreate, Serves, SsiAt, SsiSteps, KillSteps
  <2>9. /\ process_count' \in Int
        /\ UNCHANGED <<receiveMessageQueue, pseudoClockQueue, devQueue, cpu, softBlockCount,
                       msgFree, request, loaded, doomed, devState, budget>>
    BY <1>3 DEF SsiCreate, TypeOK
  <2> QED BY <2>1, <2>2, <2>4, <2>5, <2>6, <2>7, <2>8, <2>9 DEF TypeOK
<1>4. CASE SsiCreateFails
  BY <1>4 DEF SsiCreateFails, Serves, SsiAt, TypeOK, SsiSteps, KillSteps
<1>5. CASE SsiReply
  <2>1. Msg(ssi_pcb, "answer", NULL) \in Message /\ sender # ssi_pcb
    BY <1>1, ConstantTypes DEF Msg, Message, ClientPcb
  <2>2. step' \in SsiSteps /\ step' \notin KillSteps /\ step \notin KillSteps
    BY <1>5 DEF SsiReply, Serves, SsiAt, SsiSteps, KillSteps
  <2> QED BY <1>1, <1>5, <2>1, <2>2, SendFacts DEF SsiReply, TypeOK
<1>6. CASE SsiTerminate
  <2> DEFINE victim == IF request.op = "terminate" /\ request.arg # NULL
                       THEN request.arg ELSE sender
  <2>1. victim \in ClientPcb
    BY <1>1
  <2>2. CASE step' = AfterKillCall /\ UNCHANGED <<machine, tree, request, loaded, doomed>>
    <3>1. step' \in SsiSteps /\ step' \notin KillSteps /\ step \notin KillSteps
      BY <1>6, <2>2 DEF SsiTerminate, AfterKillCall, Serves, SsiAt, SsiSteps, KillSteps
    <3> QED BY <1>6, <2>2, <3>1 DEF SsiTerminate, TypeOK
  <2>3. CASE EnterKill(victim)
    <3> HIDE DEF victim
    <3> QED BY <1>6, <2>1, <2>3, EnterKillType DEF SsiTerminate, TypeOK
  <2> QED BY <1>6, <2>2, <2>3 DEF SsiTerminate
<1>7. CASE SsiLoad
  BY <1>7 DEF SsiLoad, Serves, SsiAt, TypeOK, SsiSteps, KillSteps
<1>8. CASE SsiStore
  BY <1>8 DEF SsiStore, SsiAt, TypeOK, SsiSteps, KillSteps
<1>9. CASE SsiWaitForClock
  <2>1. /\ RemoveFirst(pcbFree, sender) \in Seq(ClientPcb)
        /\ RemoveFirst(readyQueue, sender) \in Seq(Pcb)
        /\ RemoveFirst(pseudoClockQueue, sender) \in Seq(ClientPcb)
    BY RemoveFirstSet DEF TypeOK
  <2>2. Append(RemoveFirst(pseudoClockQueue, sender), sender) \in Seq(ClientPcb)
    BY <1>1, <2>1, AppendSet
  <2>3. step' \in SsiSteps /\ step' \notin KillSteps /\ step \notin KillSteps
    BY <1>9 DEF SsiWaitForClock, Serves, SsiAt, SsiSteps, KillSteps
  <2> QED BY <1>9, <2>1, <2>2, <2>3 DEF SsiWaitForClock, OutAnyProcQ, TypeOK
<1>10. CASE SsiBlock
  <2>1. /\ RemoveFirst(pcbFree, sender) \in Seq(ClientPcb)
        /\ RemoveFirst(readyQueue, sender) \in Seq(Pcb)
        /\ RemoveFirst(pseudoClockQueue, sender) \in Seq(ClientPcb)
    BY RemoveFirstSet DEF TypeOK
  <2>2. devQueue' \in [Device -> ClientPcb \cup {NULL}]
    BY <1>1, <1>10 DEF SsiBlock, TypeOK
  <2>3. step' \in SsiSteps /\ step' \notin KillSteps /\ step \notin KillSteps
    BY <1>10 DEF SsiBlock, SsiAt, SsiSteps, KillSteps
  <2> QED BY <1>10, <2>1, <2>2, <2>3 DEF SsiBlock, OutAnyProcQ, TypeOK
<1>11. CASE SsiUnlinkFails
  BY <1>11 DEF SsiUnlinkFails, Corrupt, TypeOK, Broken
<1>12. CASE SsiCommand
  <2>1. devState' \in [Device -> DeviceState]
    BY <1>12 DEF SsiCommand, TypeOK, DeviceState
  <2> QED BY <1>12, <2>1 DEF SsiCommand, SsiAt, TypeOK, SsiSteps, KillSteps
<1> QED BY <1>2, <1>3, <1>4, <1>5, <1>6, <1>7, <1>8, <1>9, <1>10, <1>11, <1>12 DEF Ssi

LEMMA TypeKill ==
  ASSUME TypeOK, KillProcess
  PROVE  TypeOK'
<1>1. step \in KillSteps => Dying \in ClientPcb /\ Tail(doomed) \in Seq(ClientPcb)
  BY HeadTailSet DEF TypeOK, Dying
<1>2. CASE KillChild
  <2>1. PICK child \in p_child[Dying] :
          /\ p_child' = [p_child EXCEPT ![Dying] = @ \ {child}]
          /\ p_parent' = IF child \in Free THEN p_parent ELSE [p_parent EXCEPT ![child] = NULL]
          /\ doomed' = IF child \in Free THEN doomed ELSE <<child>> \o doomed
    BY <1>2 DEF KillChild
  <2>2. step \in KillSteps /\ UNCHANGED step
    BY <1>2 DEF KillChild, Killing, KillSteps
  <2>3. Dying \in Pcb /\ child \in ClientPcb
    BY <1>1, <2>2, ConstantTypes DEF TypeOK
  <2>4. <<child>> \o doomed \in Seq(ClientPcb) /\ <<child>> \o doomed # <<>>
    BY <2>3, ConsSet DEF TypeOK
  <2>5. p_child' \in [Pcb -> SUBSET ClientPcb] /\ p_parent' \in [Pcb -> Pcb \cup {NULL}]
    BY <2>1, <2>3, ConstantTypes DEF TypeOK
  <2> QED BY <1>2, <2>1, <2>2, <2>4, <2>5 DEF KillChild, TypeOK
<1>3. CASE KillUnblocked
  <2>1. RemoveFirst(readyQueue, Dying) \in Seq(Pcb)
    BY RemoveFirstSet DEF TypeOK
  <2> QED BY <1>3, <2>1 DEF KillUnblocked, Killing, TypeOK, KillSteps
<1>4. CASE KillSeek
  BY <1>4 DEF KillSeek, Killing, TypeOK, KillSteps
<1>5. CASE KillLoad
  BY <1>5 DEF KillLoad, Killing, TypeOK, KillSteps
<1>6. CASE KillStore
  BY <1>6 DEF KillStore, Killing, TypeOK, KillSteps
<1>7. CASE KillOutClock
  <2>1. /\ RemoveFirst(readyQueue, Dying) \in Seq(Pcb)
        /\ RemoveFirst(pseudoClockQueue, Dying) \in Seq(ClientPcb)
    BY RemoveFirstSet DEF TypeOK
  <2> QED BY <1>7, <2>1 DEF KillOutClock, Killing, TypeOK, KillSteps
<1>8. CASE KillOutDev
  <2>1. devQueue' \in [Device -> ClientPcb \cup {NULL}]
    BY <1>8 DEF KillOutDev, TypeOK
  <2> QED BY <1>8, <2>1 DEF KillOutDev, Killing, TypeOK, KillSteps
<1>9. CASE KillFree
  <2>1. step \in KillSteps /\ doomed # <<>> /\ doomed \in Seq(ClientPcb)
    BY <1>9 DEF KillFree, Killing, KillSteps, TypeOK
  <2>2. Append(pcbFree, Dying) \in Seq(ClientPcb)
    BY <1>1, <2>1, AppendSet DEF TypeOK
  <2>3. doomed' = Tail(doomed) /\ Len(doomed') = Len(doomed) - 1 /\ doomed' \in Seq(ClientPcb)
    BY <1>1, <1>9, <2>1, HeadTailProperties DEF KillFree
  <2>7. CASE /\ machine' = "corrupt" /\ step' = (IF Len(doomed) > 1 THEN "kill" ELSE "receive")
             /\ UNCHANGED <<current_process, pltPending, readyQueue>>
    <3>1. Len(doomed) \in Nat /\ Len(doomed) > 0 /\ Len(doomed') \in Nat
      BY <2>1, <2>3, EmptySeq, LenProperties
    <3>2. doomed' # <<>> <=> Len(doomed) > 1
      <4>1. doomed' = <<>> <=> Len(doomed') = 0
        BY <2>3, EmptySeq
      <4> QED BY <2>3, <3>1, <4>1
    <3>3. (doomed' # <<>> <=> step' \in KillSteps) /\ step' \in SsiSteps \cup KillSteps
      BY <2>7, <3>2 DEF SsiSteps, KillSteps
    <3> QED BY <1>9, <2>2, <2>3, <2>7, <3>3 DEF KillFree, TypeOK, Broken
  <2>4. CASE Len(doomed) > 1 /\ step' = "kill" /\ UNCHANGED <<cpu, readyQueue>>
    <3>1. doomed' # <<>> /\ step' \in KillSteps
      <4>1. Len(doomed') > 0
        BY <2>1, <2>3, <2>4, LenProperties
      <4> QED BY <2>4, <4>1, EmptySeq DEF KillSteps
    <3> QED BY <1>9, <2>2, <2>3, <2>4, <3>1 DEF KillFree, TypeOK
  <2>5. CASE Len(doomed) = 1 /\ step' = AfterKillCall /\ UNCHANGED <<cpu, readyQueue>>
    <3>1. doomed' = <<>> /\ step' \in SsiSteps /\ step' \notin KillSteps
      BY <2>3, <2>5, EmptySeq DEF AfterKillCall, SsiSteps, KillSteps
    <3> QED BY <1>9, <2>2, <2>3, <2>5, <3>1 DEF KillFree, TypeOK
  <2>6. CASE /\ Len(doomed) = 1 /\ step' = "receive"
             /\ Scheduler(readyQueue, process_count - 1, softBlockCount, TRUE)
    <3>1. doomed' = <<>> /\ step' \in SsiSteps /\ step' \notin KillSteps
      BY <2>3, <2>6, EmptySeq DEF SsiSteps, KillSteps
    <3>2. /\ machine' \in {"on", "wait", "halt", "panic"} \cup Broken
          /\ current_process' \in Pcb \cup {NULL} /\ pltPending' \in BOOLEAN
          /\ readyQueue' \in Seq(Pcb)
      BY <2>6, SchedulerFacts DEF TypeOK
    <3> QED BY <1>9, <2>2, <2>3, <3>1, <3>2 DEF KillFree, TypeOK
  <2> QED BY <1>9, <2>4, <2>5, <2>6, <2>7 DEF KillFree
<1> QED BY <1>2, <1>3, <1>4, <1>5, <1>6, <1>7, <1>8, <1>9 DEF KillProcess

LEMMA TypeInterrupts ==
  ASSUME TypeOK, Interrupts
  PROVE  TypeOK'
<1>1. CASE LocalTimerIdle
  BY <1>1 DEF LocalTimerIdle, TypeOK, Broken
<1>2. CASE IntervalTimer
  <2>1. Len(pseudoClockQueue) \in Nat /\ <<>> \in Seq(ClientPcb)
    BY LenProperties DEF TypeOK
  <2>2. pseudoClockQueue \in Seq(Pcb)
    BY ConstantTypes, SeqMonotonic DEF TypeOK
  <2>3. readyQueue \o pseudoClockQueue \in Seq(Pcb)
    BY <2>2, ConcatProperties DEF TypeOK
  <2>4. softBlockCount' \in Int /\ pseudoClockQueue' \in Seq(ClientPcb)
    BY <1>2, <2>1 DEF IntervalTimer, TypeOK
  <2>5. /\ machine' \in {"on", "wait", "halt", "panic"} \cup Broken
        /\ current_process' \in Pcb \cup {NULL} /\ pltPending' \in BOOLEAN
        /\ readyQueue' \in Seq(Pcb)
    BY <1>2, <2>3, ResumeFacts DEF IntervalTimer
  <2> QED BY <1>2, <2>4, <2>5 DEF IntervalTimer, TypeOK
<1>3. ASSUME NEW d \in Device, DeviceCompletes(d) PROVE TypeOK'
  BY <1>3 DEF DeviceCompletes, TypeOK, DeviceState
<1>4. CASE DeviceInterrupt
  <2> DEFINE d == Interrupting
             requester == devQueue[d]
             soft == softBlockCount - 1
  <2>1. d \in Device
    BY <1>4, InterruptingFacts DEF DeviceInterrupt
  <2>2. /\ devState' = Acknowledged(d) /\ softBlockCount' = soft
        /\ devQueue' = [devQueue EXCEPT ![d] = NULL]
    BY <1>4 DEF DeviceInterrupt
  <2>3. requester \in ClientPcb \cup {NULL}
    BY <2>1 DEF TypeOK
  <2>4. devState' \in [Device -> DeviceState] /\ devQueue' \in [Device -> ClientPcb \cup {NULL}]
    BY <2>1, <2>2 DEF Acknowledged, TypeOK, DeviceState
  <2>5. CASE /\ requester # NULL
             /\ Send(Msg(ssi_pcb, "answer", NULL), requester)
             /\ ResumeOrSchedule(Append(readyQueue, requester), soft)
    <3>1. requester \in Pcb /\ requester # ssi_pcb
      BY <2>3, <2>5 DEF ClientPcb
    <3>2. Msg(ssi_pcb, "answer", NULL) \in Message
      BY ConstantTypes DEF Msg, Message
    <3>3. Append(readyQueue, requester) \in Seq(Pcb)
      BY <3>1, AppendSet DEF TypeOK
    <3>4. softBlockCount' \in Int
      BY <2>2 DEF TypeOK
    <3>5. /\ UNCHANGED <<pcbFree, pseudoClockQueue, process_count, tree, awaiting, ssi, budget>>
      BY <1>4 DEF DeviceInterrupt
    <3> HIDE DEF d, requester, soft
    <3>6. receiveMessageQueue' \subseteq Pcb
      BY <2>5, <3>1, <3>2, SendFacts DEF TypeOK
    <3> QED BY <2>4, <2>5, <3>1, <3>2, <3>3, <3>4, <3>5, <3>6, SendFacts, ResumeFacts
            DEF TypeOK
  <2>6. CASE /\ UNCHANGED <<msg_inbox, msgFree, receiveMessageQueue>>
             /\ ResumeOrSchedule(readyQueue, soft)
    <3>1. softBlockCount' \in Int /\ readyQueue \in Seq(Pcb)
      BY <2>2 DEF TypeOK
    <3>2. /\ UNCHANGED <<pcbFree, pseudoClockQueue, process_count, tree, awaiting, ssi, budget>>
      BY <1>4 DEF DeviceInterrupt
    <3> HIDE DEF d, requester, soft
    <3> QED BY <2>4, <2>6, <3>1, <3>2, ResumeFacts DEF TypeOK
  <2> QED BY <1>4, <2>5, <2>6 DEF DeviceInterrupt
<1> QED BY <1>1, <1>2, <1>3, <1>4 DEF Interrupts

LEMMA TypeStep == TypeOK /\ [Next]_vars => TypeOK'
<1>1. TypeOK /\ UNCHANGED vars => TypeOK'
  BY DEF vars, TypeOK
<1> QED BY <1>1, TypeClient, TypeSsi, TypeKill, TypeInterrupts DEF Next

\* Every variable keeps its type, for any set of PCBs, devices and messages.
THEOREM TypeCorrect == Spec => []TypeOK
BY TypeInit, TypeStep, PTL DEF Spec
------------------------------------------------------------------------------
(* Where the PCBs are, the tree and killProcess(), inductive together.      *)

\* What killProcess() has not freed is not free, and what it has looked for and not
\* found, or taken out, can only have come into the ready queue since.
DyingOut ==
  /\ \A i \in DOMAIN doomed : doomed[i] \notin Free
  /\ step \in KillSteps \ {"kill"} => Dying \notin receiveMessageQueue
  /\ step \in {"decDev", "storeDev", "outDev", "free"} => Dying \notin OnClock

\* A PCB freed while it is in the ready queue is the end of OnePlace, and of the model.
IInv ==
  TypeOK /\ TreeSound /\ KillSound /\ DyingOut /\ (machine # "corrupt" => OnePlace)

\* No step is taken in a corrupt state.
LEMMA Works == Next => machine \in {"on", "wait"}
BY DEF Next, Client, Request, SendToClient, StartReceive, Receive, Preempt, Trap, Runs, Ssi,
   SsiReceive, SsiCreate, SsiCreateFails, SsiReply, SsiTerminate, SsiLoad, SsiStore,
   SsiWaitForClock, SsiBlock, SsiUnlinkFails, SsiCommand, Serves, SsiAt, KillProcess, KillChild,
   KillUnblocked, KillSeek, KillLoad, KillStore, KillOutClock, KillOutDev, KillFree, Killing,
   Interrupts, LocalTimerIdle, IntervalTimer, DeviceCompletes, DeviceInterrupt, InterruptsOn

LEMMA Intact ==
  ASSUME IInv, Next
  PROVE  /\ TypeOK /\ OnePlace /\ TreeSound /\ KillSound /\ DyingOut
         /\ machine \in {"on", "wait"}
BY Works DEF IInv

LEMMA DevicesApart ==
  ASSUME TypeOK, OnePlace, devQueue' \in [Device -> Pcb \cup {NULL}],
         \A d \in Device : devQueue'[d] \in {devQueue[d], NULL}
  PROVE  /\ OnDevice' \subseteq OnDevice
         /\ \A d, e \in Device : devQueue'[d] = devQueue'[e] /\ devQueue'[d] # NULL => d = e
<1>1. \A d \in Device : devQueue'[d] # NULL => devQueue'[d] = devQueue[d]
  OBVIOUS
<1>2. OnDevice' \subseteq OnDevice
  BY <1>1 DEF OnDevice
<1>3. \A d, e \in Device : devQueue[d] = devQueue[e] /\ devQueue[d] # NULL => d = e
  BY DEF OnePlace, NoDuplicates
<1> QED BY <1>1, <1>2, <1>3

LEMMA PlaceSame == OnePlace /\ UNCHANGED <<queues, current_process>> => OnePlace'
BY DEF OnePlace, NoDuplicates, Apart, Free, Ready, OnClock, OnDevice, Running

\* sendMessage() moves at most the destination, from one queue to another.
LEMMA PlaceSend ==
  ASSUME TypeOK, OnePlace, NEW m \in Message, NEW dest \in Pcb, Send(m, dest),
         dest = ssi_pcb => m \in SsiMessage, readyQueue' = ReadyAfterSend(dest),
         UNCHANGED <<pcbFree, pseudoClockQueue, devQueue, current_process>>
  PROVE  OnePlace'
<1>1. /\ receiveMessageQueue' \subseteq receiveMessageQueue
      /\ Ready' = Ready \cup (receiveMessageQueue \ receiveMessageQueue')
  BY SendFacts DEF Ready
<1>2. IsInjective(readyQueue) /\ Ready \cap receiveMessageQueue = {}
  BY DEF OnePlace, NoDuplicates, Apart
<1>3. NoDuplicates'
  BY <1>2, SendFacts DEF OnePlace, NoDuplicates
<1>4. Free' = Free /\ OnClock' = OnClock /\ OnDevice' = OnDevice /\ Running' = Running
  BY DEF Free, OnClock, OnDevice, Running
<1>5. Apart'
  BY <1>1, <1>4 DEF OnePlace, Apart
<1> QED BY <1>3, <1>5 DEF OnePlace

\* receiveMessage() moves the running process to receiveMessageQueue.
LEMMA PlaceBlock ==
  ASSUME TypeOK, OnePlace, NEW p \in Pcb, current_process = p, BlockOnReceive(p),
         UNCHANGED <<pcbFree, pseudoClockQueue, devQueue>>
  PROVE  OnePlace'
<1>1. Running = {p}
  BY ConstantTypes DEF Running
<1>2. readyQueue \in Seq(Pcb) /\ IsInjective(readyQueue)
  BY DEF TypeOK, OnePlace, NoDuplicates
<1>3. Ready' \cup Running' = Ready /\ Ready' \cap Running' = {} /\ IsInjective(readyQueue')
  BY <1>2, SchedulerFacts DEF BlockOnReceive, Ready
<1>4. /\ receiveMessageQueue' = receiveMessageQueue \cup {p}
      /\ Free' = Free /\ OnClock' = OnClock /\ OnDevice' = OnDevice
  BY DEF BlockOnReceive, Free, OnClock, OnDevice
<1>5. NoDuplicates'
  BY <1>3 DEF OnePlace, NoDuplicates
<1>6. Apart'
  BY <1>1, <1>3, <1>4 DEF OnePlace, Apart
<1> QED BY <1>5, <1>6 DEF OnePlace

LEMMA PlaceClient ==
  ASSUME TypeOK, OnePlace, NEW p \in Pcb, Client(p)
  PROVE  OnePlace'
<1>1. CASE Request(p)
  <2>0. PICK k \in SsiServices : \E arg \in Args(p, k) : Send(Msg(p, k, arg), ssi_pcb)
    BY <1>1 DEF Request
  <2>1. PICK arg \in Args(p, k) : Send(Msg(p, k, arg), ssi_pcb)
    BY <2>0
  <2>2. p \in ClientPcb
    BY <1>1 DEF Request, Runs, ClientPcb
  <2>3. Msg(p, k, arg) \in SsiMessage
    BY <2>1, <2>2, NucleusAssumption DEF Msg, SsiMessage, SsiServices, Args, ClientPcb
  <2> QED BY <1>1, <2>1, <2>3, ConstantTypes, PlaceSend DEF Request
<1>2. CASE SendToClient(p)
  <2>1. PICK dest \in Pcb \ {ssi_pcb, p} :
          Send(Msg(p, "data", NULL), dest) /\ readyQueue' = ReadyAfterSend(dest)
    BY <1>2 DEF SendToClient
  <2>2. Msg(p, "data", NULL) \in Message
    BY DEF Msg, Message
  <2> QED BY <1>2, <2>1, <2>2, PlaceSend DEF SendToClient
<1>3. CASE StartReceive(p)
  BY <1>3, PlaceSame DEF StartReceive
<1>4. CASE Receive(p)
  <2>1. CASE UNCHANGED <<queues, cpu>>
    BY <2>1, PlaceSame
  <2>2. CASE BlockOnReceive(p) /\ UNCHANGED <<pcbFree, pseudoClockQueue, devQueue, mail>>
    BY <1>4, <2>2, PlaceBlock DEF Receive, Runs
  <2> QED BY <1>4, <2>1, <2>2 DEF Receive
<1>5. CASE Preempt(p)
  <2>1. Running = {p} /\ p \notin Ready
    BY <1>5, ConstantTypes DEF Preempt, Runs, Running, OnePlace, Apart
  <2>2. /\ Append(readyQueue, p) \in Seq(Pcb) /\ IsInjective(Append(readyQueue, p))
        /\ ToSet(Append(readyQueue, p)) = Ready \cup {p}
    BY <2>1, AppendSet DEF TypeOK, OnePlace, NoDuplicates, Ready
  <2>3. Scheduler(Append(readyQueue, p), process_count, softBlockCount, FALSE)
    BY <1>5 DEF Preempt
  <2>4. Ready' \cup Running' = Ready \cup {p} /\ Ready' \cap Running' = {}
        /\ IsInjective(readyQueue')
    BY <2>2, <2>3, SchedulerFacts
  <2>5. /\ UNCHANGED <<pcbFree, receiveMessageQueue, pseudoClockQueue, devQueue>>
        /\ Free' = Free /\ OnClock' = OnClock /\ OnDevice' = OnDevice
    BY <1>5 DEF Preempt, Free, OnClock, OnDevice
  <2>6. NoDuplicates'
    BY <2>4, <2>5 DEF OnePlace, NoDuplicates
  <2>7. Apart'
    BY <2>1, <2>4, <2>5 DEF OnePlace, Apart
  <2> QED BY <2>6, <2>7 DEF OnePlace
<1>6. CASE Trap(p)
  BY <1>6, PlaceSame DEF Trap
<1> QED BY <1>1, <1>2, <1>3, <1>4, <1>5, <1>6 DEF Client

LEMMA PlaceSsi ==
  ASSUME TypeOK, OnePlace, Ssi
  PROVE  OnePlace'
<1>1. /\ sender \in ClientPcb /\ sender \in Pcb /\ sender # NULL /\ sender # ssi_pcb
      /\ (request.op = "doio" => request.arg \in Device)
  BY ConstantTypes DEF TypeOK, SsiMessage, sender, ClientPcb
<1>2. CASE SsiReceive
  <2>1. CASE UNCHANGED <<queues, cpu>>
    BY <2>1, PlaceSame
  <2>2. CASE BlockOnReceive(ssi_pcb) /\ UNCHANGED <<pcbFree, pseudoClockQueue, devQueue>>
    BY <1>2, <2>2, ConstantTypes, PlaceBlock DEF SsiReceive, SsiAt
  <2> QED BY <1>2, <2>1, <2>2 DEF SsiReceive
<1>3. CASE SsiCreate
  <2> DEFINE newChild == Head(pcbFree)
  <2>1. /\ pcbFree \in Seq(Pcb) /\ readyQueue \in Seq(Pcb) /\ pcbFree # <<>>
    BY <1>3, ConstantTypes, SeqMonotonic DEF SsiCreate, TypeOK
  <2>2. /\ newChild \in Pcb /\ Free = ToSet(Tail(pcbFree)) \cup {newChild}
        /\ IsInjective(Tail(pcbFree)) /\ newChild \notin ToSet(Tail(pcbFree))
    BY <2>1, HeadTailSet DEF Free, OnePlace, NoDuplicates
  <2>3. /\ pcbFree' = Tail(pcbFree) /\ readyQueue' = Append(readyQueue, newChild)
        /\ UNCHANGED <<receiveMessageQueue, pseudoClockQueue, devQueue, current_process>>
    BY <1>3 DEF SsiCreate, AllocPcb
  <2> HIDE DEF newChild
  <2>4. newChild \notin Ready
    BY <2>2 DEF OnePlace, Apart
  <2>5. Ready' = Ready \cup {newChild} /\ IsInjective(readyQueue')
    BY <2>1, <2>2, <2>3, <2>4, AppendSet DEF Ready, OnePlace, NoDuplicates
  <2>6. /\ Free' = Free \ {newChild} /\ newChild \in Free
        /\ OnClock' = OnClock /\ OnDevice' = OnDevice /\ Running' = Running
    BY <2>2, <2>3 DEF Free, OnClock, OnDevice, Running
  <2>7. NoDuplicates'
    BY <2>2, <2>3, <2>5 DEF OnePlace, NoDuplicates
  <2>8. Apart'
    BY <2>3, <2>5, <2>6 DEF OnePlace, Apart
  <2> QED BY <2>7, <2>8 DEF OnePlace
<1>4. CASE SsiCreateFails
  BY <1>4, PlaceSame DEF SsiCreateFails
<1>5. CASE SsiReply
  <2>1. Msg(ssi_pcb, "answer", NULL) \in Message
    BY ConstantTypes DEF Msg, Message
  <2> QED BY <1>1, <1>5, <2>1, PlaceSend DEF SsiReply
<1>6. CASE SsiTerminate
  BY <1>6, PlaceSame DEF SsiTerminate
<1>7. CASE SsiLoad \/ SsiStore \/ SsiCommand \/ SsiUnlinkFails
  BY <1>7, PlaceSame DEF SsiLoad, SsiStore, SsiCommand, SsiUnlinkFails, Corrupt
<1>8. ASSUME OutAnyProcQ(sender), current_process = ssi_pcb
      PROVE  /\ sender \notin OnDevice \cup Running
             /\ Free' = Free \ {sender} /\ Ready' = Ready \ {sender}
             /\ receiveMessageQueue' = receiveMessageQueue \ {sender}
             /\ IsInjective(pcbFree') /\ IsInjective(readyQueue')
             /\ RemoveFirst(pseudoClockQueue, sender) \in Seq(Pcb)
             /\ IsInjective(RemoveFirst(pseudoClockQueue, sender))
             /\ ToSet(RemoveFirst(pseudoClockQueue, sender)) = OnClock \ {sender}
  <2>1. sender \notin Running
    BY <1>1, <1>8 DEF Running
  <2>2. sender \notin OnDevice
    BY <1>8 DEF OutAnyProcQ, Linked, OnePlace, Apart
  <2>3. pcbFree \in Seq(Pcb) /\ readyQueue \in Seq(Pcb) /\ pseudoClockQueue \in Seq(Pcb)
    BY ConstantTypes, SeqMonotonic DEF TypeOK
  <2>4. IsInjective(pcbFree) /\ IsInjective(readyQueue) /\ IsInjective(pseudoClockQueue)
    BY DEF OnePlace, NoDuplicates
  <2>5. /\ pcbFree' = RemoveFirst(pcbFree, sender) /\ readyQueue' = RemoveFirst(readyQueue, sender)
        /\ receiveMessageQueue' = receiveMessageQueue \ {sender}
    BY <1>8 DEF OutAnyProcQ
  <2>6. Free' = Free \ {sender} /\ IsInjective(pcbFree')
    BY <2>3, <2>4, <2>5, RemoveFirstSet DEF Free
  <2>7. Ready' = Ready \ {sender} /\ IsInjective(readyQueue')
    BY <2>3, <2>4, <2>5, RemoveFirstSet DEF Ready
  <2>8. /\ RemoveFirst(pseudoClockQueue, sender) \in Seq(Pcb)
        /\ IsInjective(RemoveFirst(pseudoClockQueue, sender))
        /\ ToSet(RemoveFirst(pseudoClockQueue, sender)) = OnClock \ {sender}
    BY <2>3, <2>4, RemoveFirstSet DEF OnClock
  <2> QED BY <2>1, <2>2, <2>5, <2>6, <2>7, <2>8
<1>9. CASE SsiWaitForClock
  <2>1. /\ OutAnyProcQ(sender) /\ current_process = ssi_pcb
        /\ pseudoClockQueue' = Append(RemoveFirst(pseudoClockQueue, sender), sender)
        /\ UNCHANGED <<devQueue, current_process>>
    BY <1>9 DEF SsiWaitForClock, Serves, SsiAt
  <2>2. OnClock' = OnClock \cup {sender} /\ IsInjective(pseudoClockQueue')
    BY <1>1, <1>8, <2>1, AppendSet DEF OnClock
  <2>3. OnDevice' = OnDevice /\ Running' = Running
    BY <2>1 DEF OnDevice, Running
  <2>4. NoDuplicates'
    BY <1>8, <2>1, <2>2 DEF OnePlace, NoDuplicates
  <2>5. Apart'
    BY <1>8, <2>1, <2>2, <2>3 DEF OnePlace, Apart
  <2> QED BY <2>4, <2>5 DEF OnePlace
<1>10. CASE SsiBlock
  <2>1. /\ OutAnyProcQ(sender) /\ current_process = ssi_pcb
        /\ pseudoClockQueue' = RemoveFirst(pseudoClockQueue, sender)
        /\ devQueue' = [devQueue EXCEPT ![request.arg] = sender]
        /\ UNCHANGED current_process
    BY <1>10 DEF SsiBlock, SsiAt
  <2>2. OnClock' = OnClock \ {sender} /\ IsInjective(pseudoClockQueue') /\ Running' = Running
    BY <1>8, <2>1 DEF OnClock, Running
  <2>3. OnDevice' \subseteq OnDevice \cup {sender}
    BY <2>1 DEF OnDevice, TypeOK
  <2>4. \A d \in Device : devQueue[d] # sender
    BY <1>1, <1>8, <2>1 DEF OnDevice
  <2>5. \A d, e \in Device : devQueue'[d] = devQueue'[e] /\ devQueue'[d] # NULL => d = e
    BY <2>1, <2>4 DEF OnePlace, NoDuplicates, TypeOK
  <2>6. NoDuplicates'
    BY <1>8, <2>1, <2>2, <2>5 DEF NoDuplicates
  <2>7. Apart'
    BY <1>8, <2>1, <2>2, <2>3 DEF OnePlace, Apart
  <2> QED BY <2>6, <2>7 DEF OnePlace
<1> QED BY <1>2, <1>3, <1>4, <1>5, <1>6, <1>7, <1>9, <1>10 DEF Ssi

\* The PCB a frame of killProcess() works on.
LEMMA DyingFacts ==
  ASSUME TypeOK, step \in KillSteps
  PROVE  /\ doomed # <<>> /\ Dying \in ClientPcb /\ Dying \in Pcb /\ Dying # NULL
         /\ Dying # ssi_pcb /\ Dying = doomed[1] /\ 1 \in DOMAIN doomed
         /\ Len(doomed) \in Nat /\ Len(doomed) > 0 /\ DOMAIN doomed = 1..Len(doomed)
<1>1. doomed # <<>> /\ doomed \in Seq(ClientPcb)
  BY DEF TypeOK
<1>2. Dying \in ClientPcb /\ Dying = doomed[1]
  BY <1>1, HeadTailSet DEF Dying
<1>3. Len(doomed) \in Nat /\ Len(doomed) # 0 /\ DOMAIN doomed = 1..Len(doomed)
  BY <1>1, EmptySeq, LenProperties
<1> QED BY <1>1, <1>2, <1>3, ConstantTypes DEF ClientPcb

\* Whom killProcess() frees off every list gets into no second place.
LEMMA PlaceKill ==
  ASSUME IInv, KillProcess, KillFree => Dying \notin Linked
  PROVE  OnePlace'
<1>0. TypeOK /\ OnePlace /\ TreeSound /\ KillSound /\ step \in KillSteps
  <2>1. step \in KillSteps
    BY DEF KillProcess, KillChild, KillUnblocked, KillSeek, KillLoad, KillStore,
         KillOutClock, KillOutDev, KillFree, Killing, KillSteps
  <2>2. Next
    BY DEF Next
  <2> QED BY <2>1, <2>2, Intact
<1>1. CASE KillChild \/ KillSeek \/ KillLoad \/ KillStore
  BY <1>0, <1>1, PlaceSame DEF KillChild, KillSeek, KillLoad, KillStore
<1>2. ASSUME readyQueue' = RemoveFirst(readyQueue, Dying)
      PROVE  Ready' \subseteq Ready /\ IsInjective(readyQueue')
  BY <1>0, <1>2, RemoveFirstSet DEF TypeOK, Ready, OnePlace, NoDuplicates
<1>3. CASE KillUnblocked
  <2>1. /\ receiveMessageQueue' \subseteq receiveMessageQueue
        /\ UNCHANGED <<pcbFree, pseudoClockQueue, devQueue, current_process>>
        /\ Ready' \subseteq Ready /\ IsInjective(readyQueue')
    BY <1>0, <1>2, <1>3 DEF KillUnblocked, Ready, OnePlace, NoDuplicates
  <2>2. Free' = Free /\ OnClock' = OnClock /\ OnDevice' = OnDevice /\ Running' = Running
    BY <2>1 DEF Free, OnClock, OnDevice, Running
  <2>3. NoDuplicates'
    BY <1>0, <2>1 DEF OnePlace, NoDuplicates
  <2>4. Apart'
    BY <1>0, <2>1, <2>2 DEF OnePlace, Apart
  <2> QED BY <2>3, <2>4 DEF OnePlace
<1>4. CASE KillOutClock
  <2>1. /\ pseudoClockQueue' = RemoveFirst(pseudoClockQueue, Dying)
        /\ readyQueue' = RemoveFirst(readyQueue, Dying)
        /\ UNCHANGED <<pcbFree, receiveMessageQueue, devQueue, current_process>>
    BY <1>4 DEF KillOutClock
  <2>2. OnClock' \subseteq OnClock /\ IsInjective(pseudoClockQueue')
    BY <1>0, <2>1, RemoveFirstSet DEF TypeOK, OnClock, OnePlace, NoDuplicates
  <2>3. Free' = Free /\ OnDevice' = OnDevice /\ Running' = Running
    BY <2>1 DEF Free, OnDevice, Running
  <2>4. NoDuplicates'
    BY <1>0, <1>2, <2>1, <2>2 DEF OnePlace, NoDuplicates
  <2>5. Apart'
    BY <1>0, <1>2, <2>1, <2>2, <2>3 DEF OnePlace, Apart
  <2> QED BY <2>4, <2>5 DEF OnePlace
<1>5. CASE KillOutDev
  <2>1. /\ devQueue' = [d \in Device |-> IF devQueue[d] = Dying THEN NULL ELSE devQueue[d]]
        /\ UNCHANGED <<pcbFree, readyQueue, receiveMessageQueue, pseudoClockQueue,
                       current_process>>
    BY <1>5 DEF KillOutDev
  <2>2. devQueue' \in [Device -> Pcb \cup {NULL}]
        /\ \A d \in Device : devQueue'[d] \in {devQueue[d], NULL}
    BY <1>0, <2>1, ConstantTypes DEF TypeOK
  <2>3. Free' = Free /\ Ready' = Ready /\ OnClock' = OnClock /\ Running' = Running
    BY <2>1 DEF Free, Ready, OnClock, Running
  <2>4. NoDuplicates'
    BY <1>0, <2>1, <2>2, DevicesApart DEF OnePlace, NoDuplicates
  <2>5. Apart'
    BY <1>0, <2>1, <2>2, <2>3, DevicesApart DEF OnePlace, Apart
  <2> QED BY <2>4, <2>5 DEF OnePlace
<1>6. CASE KillFree
  <2>1. /\ step = "free" /\ Dying \notin Linked /\ pcbFree' = Append(pcbFree, Dying)
        /\ UNCHANGED <<receiveMessageQueue, pseudoClockQueue, devQueue>>
    BY <1>6 DEF KillFree, Killing
  <2>2. Dying \notin OnDevice
    BY <1>0, <2>1 DEF KillSound
  <2>3. Free' = Free \cup {Dying} /\ IsInjective(pcbFree')
    <3>1. pcbFree \in Seq(ClientPcb) /\ Dying \in ClientPcb /\ Dying \notin ToSet(pcbFree)
          /\ IsInjective(pcbFree)
      BY <1>0, <2>1, DyingFacts DEF TypeOK, Linked, Free, OnePlace, NoDuplicates
    <3> QED BY <2>1, <3>1, AppendSet DEF Free
  <2>4. OnClock' = OnClock /\ OnDevice' = OnDevice
    BY <2>1 DEF OnClock, OnDevice
  <2>5. Ready' \cup Running' \subseteq Ready \cup Running /\ IsInjective(readyQueue')
        /\ Ready' \cap Running' = {} /\ Dying \notin Running'
    <3>1. CASE UNCHANGED <<cpu, readyQueue>> /\ Len(doomed) > 1
      <4>1. Dying # current_process
        <5>1. CASE current_process = ssi_pcb
          BY <1>0, <5>1, DyingFacts
        <5>2. CASE current_process # ssi_pcb
          <6>1. current_process = doomed[Len(doomed)] /\ IsInjective(doomed)
            BY <1>0, <5>2 DEF KillSound, Last
          <6>2. Len(doomed) \in DOMAIN doomed /\ Len(doomed) # 1
            BY <1>0, <3>1, DyingFacts
          <6> QED BY <1>0, <6>1, <6>2, DyingFacts DEF IsInjective
        <5> QED BY <5>1, <5>2
      <4> QED BY <1>0, <3>1, <4>1 DEF Ready, Running, OnePlace, NoDuplicates, Apart
    <3>2. CASE UNCHANGED <<cpu, readyQueue>> /\ current_process = ssi_pcb
      <4>1. Dying # current_process
        BY <1>0, <3>2, DyingFacts
      <4> QED BY <1>0, <3>2, <4>1 DEF Ready, Running, OnePlace, NoDuplicates, Apart
    <3>3. CASE Scheduler(readyQueue, process_count - 1, softBlockCount, TRUE)
      <4>1. readyQueue \in Seq(Pcb) /\ IsInjective(readyQueue)
        BY <1>0 DEF TypeOK, OnePlace, NoDuplicates
      <4>2. Ready' \cup Running' = Ready /\ Ready' \cap Running' = {} /\ IsInjective(readyQueue')
        BY <3>3, <4>1, SchedulerFacts DEF Ready
      <4>3. Dying \notin Ready
        BY <2>1 DEF Linked
      <4> QED BY <4>2, <4>3
    <3> QED BY <1>6, <3>1, <3>2, <3>3 DEF KillFree
  <2>6. Dying \notin Ready \cup receiveMessageQueue \cup OnClock \cup OnDevice
    BY <2>1, <2>2 DEF Linked
  <2>7. Dying \notin Ready'
    <3>1. Ready' \subseteq Ready
      <4>1. CASE UNCHANGED <<cpu, readyQueue>>
        BY <4>1 DEF Ready
      <4>2. CASE Scheduler(readyQueue, process_count - 1, softBlockCount, TRUE)
        BY <1>0, <4>2, SchedulerFacts DEF TypeOK, Ready
      <4> QED BY <1>6, <4>1, <4>2 DEF KillFree
    <3> QED BY <2>6, <3>1
  <2>8. NoDuplicates'
    BY <1>0, <2>1, <2>3, <2>5 DEF OnePlace, NoDuplicates
  <2>9. Apart'
    BY <1>0, <2>1, <2>3, <2>4, <2>5, <2>6, <2>7 DEF OnePlace, Apart
  <2> QED BY <2>8, <2>9 DEF OnePlace
<1> QED BY <1>1, <1>3, <1>4, <1>5, <1>6 DEF KillProcess

LEMMA PlaceInterrupts ==
  ASSUME TypeOK, OnePlace, Interrupts
  PROVE  OnePlace'
<1>1. CASE LocalTimerIdle \/ \E d \in Device : DeviceCompletes(d)
  BY <1>1, PlaceSame DEF LocalTimerIdle, DeviceCompletes
<1>2. CASE IntervalTimer
  <2>1. readyQueue \in Seq(Pcb) /\ pseudoClockQueue \in Seq(Pcb)
    BY ConstantTypes, SeqMonotonic DEF TypeOK
  <2>2. /\ readyQueue \o pseudoClockQueue \in Seq(Pcb)
        /\ ToSet(readyQueue \o pseudoClockQueue) = Ready \cup OnClock
        /\ IsInjective(readyQueue \o pseudoClockQueue)
    BY <2>1, ConcatSet DEF Ready, OnClock, OnePlace, NoDuplicates, Apart
  <2>3. (Ready \cup OnClock) \cap Running = {}
    BY DEF OnePlace, Apart
  <2>4. PICK soft : ResumeOrSchedule(readyQueue \o pseudoClockQueue, soft)
    BY <1>2 DEF IntervalTimer
  <2>5. /\ Ready' \cup Running' = Ready \cup OnClock \cup Running
        /\ Ready' \cap Running' = {} /\ IsInjective(readyQueue')
    BY <2>2, <2>3, <2>4, ResumeFacts
  <2>6. /\ pseudoClockQueue' = <<>> /\ UNCHANGED <<pcbFree, receiveMessageQueue, devQueue>>
        /\ Free' = Free /\ OnClock' = {} /\ OnDevice' = OnDevice
    BY <1>2 DEF IntervalTimer, Free, OnClock, OnDevice, ToSet
  <2>7. NoDuplicates'
    BY <2>5, <2>6 DEF OnePlace, NoDuplicates, IsInjective
  <2>8. Apart'
    BY <2>5, <2>6 DEF OnePlace, Apart
  <2> QED BY <2>7, <2>8 DEF OnePlace
<1>3. CASE DeviceInterrupt
  <2> DEFINE d == Interrupting
             requester == devQueue[d]
             soft == softBlockCount - 1
  <2>1. d \in Device
    BY <1>3, InterruptingFacts DEF DeviceInterrupt
  <2>2. /\ devQueue' = [devQueue EXCEPT ![d] = NULL]
        /\ UNCHANGED <<pcbFree, pseudoClockQueue>>
    BY <1>3 DEF DeviceInterrupt
  <2>3. readyQueue \in Seq(Pcb) /\ IsInjective(readyQueue) /\ requester \in Pcb \cup {NULL}
    BY <2>1, ConstantTypes DEF TypeOK, OnePlace, NoDuplicates
  <2>4. devQueue' \in [Device -> Pcb \cup {NULL}]
        /\ \A e \in Device : devQueue'[e] \in {devQueue[e], NULL}
    BY <2>1, <2>2, ConstantTypes DEF TypeOK
  <2>5. requester # NULL => requester \in OnDevice /\ requester \notin OnDevice'
    <3> SUFFICES ASSUME requester # NULL
                 PROVE  requester \in OnDevice /\ requester \notin OnDevice'
      OBVIOUS
    <3>1. requester \in OnDevice
      BY <2>1 DEF OnDevice
    <3>2. \A e \in Device : devQueue[e] = requester => e = d
      BY <2>1 DEF OnePlace, NoDuplicates
    <3>3. \A e \in Device : devQueue'[e] # requester
      BY <2>1, <2>2, <3>2 DEF TypeOK
    <3> QED BY <3>1, <3>3 DEF OnDevice
  <2>6. /\ Free' = Free /\ OnClock' = OnClock /\ OnDevice' \subseteq OnDevice
        /\ \A e, f \in Device : devQueue'[e] = devQueue'[f] /\ devQueue'[e] # NULL => e = f
    BY <2>2, <2>4, DevicesApart DEF Free, OnClock
  <2>7. CASE /\ requester # NULL
             /\ Send(Msg(ssi_pcb, "answer", NULL), requester)
             /\ ResumeOrSchedule(Append(readyQueue, requester), soft)
    <3>1. requester \in Pcb /\ requester # ssi_pcb
      BY <2>1, <2>3, <2>7 DEF TypeOK, ClientPcb
    <3>2. Msg(ssi_pcb, "answer", NULL) \in Message
      BY ConstantTypes DEF Msg, Message
    <3> HIDE DEF d, requester, soft
    <3>3. receiveMessageQueue' \subseteq receiveMessageQueue
      BY <2>7, <3>1, <3>2, SendFacts
    <3>4. requester \notin Ready /\ requester \notin Running
      BY <2>5, <2>7 DEF OnePlace, Apart
    <3>5. /\ Append(readyQueue, requester) \in Seq(Pcb)
          /\ ToSet(Append(readyQueue, requester)) = Ready \cup {requester}
          /\ IsInjective(Append(readyQueue, requester))
      BY <2>3, <3>1, <3>4, AppendSet DEF Ready
    <3>6. (Ready \cup {requester}) \cap Running = {}
      BY <3>4 DEF OnePlace, Apart
    <3>7. /\ Ready' \cup Running' = Ready \cup {requester} \cup Running
          /\ Ready' \cap Running' = {} /\ IsInjective(readyQueue')
      BY <2>7, <3>5, <3>6, ResumeFacts
    <3>8. NoDuplicates'
      BY <2>2, <2>6, <3>7 DEF OnePlace, NoDuplicates
    <3>9. Apart'
      BY <2>5, <2>6, <2>7, <3>3, <3>7 DEF OnePlace, Apart
    <3> QED BY <3>8, <3>9 DEF OnePlace
  <2>8. CASE /\ UNCHANGED <<msg_inbox, msgFree, receiveMessageQueue>>
             /\ ResumeOrSchedule(readyQueue, soft)
    <3> HIDE DEF d, requester, soft
    <3>1. Ready \cap Running = {}
      BY DEF OnePlace, Apart
    <3>2. /\ Ready' \cup Running' = Ready \cup Running
          /\ Ready' \cap Running' = {} /\ IsInjective(readyQueue')
      BY <2>3, <2>8, <3>1, ResumeFacts DEF Ready
    <3>3. NoDuplicates'
      BY <2>2, <2>6, <3>2 DEF OnePlace, NoDuplicates
    <3>4. Apart'
      BY <2>6, <2>8, <3>2 DEF OnePlace, Apart
    <3> QED BY <3>3, <3>4 DEF OnePlace
  <2> QED BY <1>3, <2>7, <2>8 DEF DeviceInterrupt
<1> QED BY <1>1, <1>2, <1>3 DEF Interrupts

\* No step of a client, the SSI or an interrupt but these touches the tree,
\* the free list and the frames of killProcess().
LEMMA TreeSame == TreeSound /\ UNCHANGED <<tree, pcbFree, doomed>> => TreeSound'
BY DEF TreeSound, Free

LEMMA TreeKept ==
  ASSUME TreeSound, UNCHANGED <<tree, doomed>>, Free' \subseteq Free
  PROVE  TreeSound'
BY DEF TreeSound

LEMMA TreeEnterKill ==
  ASSUME TypeOK, TreeSound, NEW p \in ClientPcb, EnterKill(p), UNCHANGED pcbFree
  PROVE  TreeSound'
<1>1. CASE UNCHANGED <<tree, ssi>>
  BY <1>1, TreeSame
<1>2. CASE OutChild(p) /\ doomed' = <<p>>
  <2>1. /\ p_parent' = [p_parent EXCEPT ![p] = NULL] /\ p \in Pcb
        /\ p_child' = [q \in Pcb |-> IF q = p_parent[p] THEN p_child[q] \ {p} ELSE p_child[q]]
        /\ Free' = Free
    BY <1>2, ConstantTypes DEF OutChild, Free
  <2>2. ASSUME NEW q \in Pcb, NEW c \in p_child'[q] PROVE p_parent'[c] = q
    <3>1. c \in p_child[q] /\ p_parent[c] = q /\ c \in Pcb
      BY <2>1, <2>2, ConstantTypes DEF TypeOK, TreeSound
    <3>2. c # p
      BY <2>1, <2>2, <3>1
    <3> QED BY <2>1, <3>1, <3>2 DEF TypeOK
  <2>3. \A c \in Free : c \in Pcb
    BY InSet, ConstantTypes DEF TypeOK, Free
  <2>4. \A c \in Free' : p_parent'[c] = NULL
    BY <2>1, <2>3 DEF TypeOK, TreeSound
  <2>5. \A i \in DOMAIN doomed' : p_parent'[doomed'[i]] = NULL
    BY <1>2, <2>1 DEF TypeOK
  <2> QED BY <2>2, <2>4, <2>5 DEF TreeSound
<1> QED BY <1>1, <1>2 DEF EnterKill

LEMMA TreeStep ==
  ASSUME IInv, Next
  PROVE  TreeSound'
<1>0. TypeOK /\ OnePlace /\ TreeSound /\ KillSound
  BY Intact
<1>1. ASSUME NEW p \in Pcb, Client(p) PROVE TreeSound'
  <2>1. CASE Request(p) \/ SendToClient(p) \/ StartReceive(p) \/ Preempt(p)
    BY <1>0, <2>1, TreeSame DEF Request, SendToClient, StartReceive, Preempt
  <2>2. CASE Receive(p)
    BY <1>0, <2>2, TreeSame DEF Receive
  <2>3. CASE Trap(p)
    <3>1. p \in ClientPcb
      BY <2>3 DEF Trap, Runs, ClientPcb
    <3> QED BY <1>0, <2>3, <3>1, TreeEnterKill DEF Trap
  <2> QED BY <1>1, <2>1, <2>2, <2>3 DEF Client
<1>2. CASE Ssi
  <2>1. /\ sender \in ClientPcb /\ sender \in Pcb /\ sender # NULL
        /\ (request.op = "terminate" => request.arg \in ClientPcb \cup {NULL})
    BY <1>0, ConstantTypes DEF TypeOK, SsiMessage, sender
  <2>2. CASE SsiReceive \/ SsiCreateFails \/ SsiReply \/ SsiLoad \/ SsiStore \/ SsiCommand
             \/ SsiUnlinkFails
    BY <1>0, <2>2, TreeSame DEF SsiReceive, SsiCreateFails, SsiReply, SsiLoad, SsiStore,
         SsiCommand, SsiUnlinkFails, Corrupt
  <2>3. CASE SsiWaitForClock \/ SsiBlock
    <3>1. pcbFree' = RemoveFirst(pcbFree, sender) /\ UNCHANGED <<tree, doomed>>
      BY <2>3 DEF SsiWaitForClock, SsiBlock, OutAnyProcQ
    <3>2. Free' \subseteq Free
      BY <1>0, <3>1, RemoveFirstSet DEF TypeOK, Free
    <3> QED BY <1>0, <3>1, <3>2, TreeKept
  <2>4. CASE SsiTerminate
    <3> DEFINE victim == IF request.op = "terminate" /\ request.arg # NULL
                         THEN request.arg ELSE sender
    <3>1. victim \in ClientPcb /\ UNCHANGED pcbFree
      BY <2>1, <2>4 DEF SsiTerminate
    <3>2. UNCHANGED <<tree, doomed>> \/ EnterKill(victim)
      BY <2>4 DEF SsiTerminate
    <3> HIDE DEF victim
    <3> QED BY <1>0, <3>1, <3>2, TreeSame, TreeEnterKill
  <2>5. CASE SsiCreate
    <3> DEFINE newChild == Head(pcbFree)
    <3>1. /\ newChild \in ClientPcb /\ newChild \in Pcb /\ Free = ToSet(Tail(pcbFree)) \cup {newChild}
          /\ newChild \notin ToSet(Tail(pcbFree)) /\ Free \subseteq Pcb
      BY <1>0, <2>5, HeadTailSet, InSet, ConstantTypes
         DEF SsiCreate, TypeOK, OnePlace, NoDuplicates, Free
    <3>2. /\ pcbFree' = Tail(pcbFree) /\ UNCHANGED doomed
          /\ p_parent' = [p_parent EXCEPT ![newChild] = sender]
          /\ p_child' = [[p_child EXCEPT ![newChild] = {}] EXCEPT ![sender] = @ \cup {newChild}]
          /\ step = "serve"
      BY <2>5 DEF SsiCreate, AllocPcb, InsertChild, Serves, SsiAt
    <3> HIDE DEF newChild
    <3>3. Free' = Free \ {newChild}
      BY <3>1, <3>2 DEF Free
    <3>4. ASSUME NEW q \in Pcb, NEW c \in p_child'[q] PROVE p_parent'[c] = q
      <4>1. \A s \in Pcb : newChild \notin p_child[s]
        BY <1>0, <3>1, ConstantTypes DEF TreeSound
      <4>2. (c = newChild /\ q = sender) \/ c \in p_child[q]
        BY <1>0, <2>1, <3>1, <3>2, <3>4 DEF TypeOK
      <4>3. CASE c = newChild /\ q = sender
        BY <1>0, <2>1, <3>1, <3>2, <4>3 DEF TypeOK
      <4>4. CASE c \in p_child[q]
        <5>1. c # newChild /\ p_parent[c] = q /\ c \in Pcb
          BY <1>0, <4>1, <4>4, ConstantTypes DEF TreeSound, TypeOK
        <5> QED BY <1>0, <3>1, <3>2, <5>1 DEF TypeOK
      <4> QED BY <4>2, <4>3, <4>4
    <3>5. \A c \in Free' : p_parent'[c] = NULL
      BY <1>0, <3>1, <3>2, <3>3 DEF TypeOK, TreeSound
    <3>6. doomed' = <<>>
      BY <1>0, <3>2 DEF TypeOK, KillSteps
    <3>7. \A i \in DOMAIN doomed' : p_parent'[doomed'[i]] = NULL
      BY <3>6
    <3> QED BY <3>4, <3>5, <3>7 DEF TreeSound
  <2> QED BY <1>2, <2>2, <2>3, <2>4, <2>5 DEF Ssi
<1>3. CASE KillProcess
  <2>0. /\ step \in KillSteps /\ Dying \in Pcb /\ Dying # NULL /\ doomed # <<>>
        /\ Dying = doomed[1] /\ 1 \in DOMAIN doomed /\ Dying \in ClientPcb
    <3>1. step \in KillSteps
      BY <1>3 DEF KillProcess, KillChild, KillUnblocked, KillSeek, KillLoad, KillStore,
         KillOutClock, KillOutDev, KillFree, Killing, KillSteps
    <3> QED BY <1>0, <3>1, DyingFacts
  <2>1. CASE KillUnblocked \/ KillSeek \/ KillLoad \/ KillStore \/ KillOutClock
             \/ KillOutDev
    BY <1>0, <2>1, TreeSame DEF KillUnblocked, KillSeek, KillLoad, KillStore, KillOutClock,
         KillOutDev
  <2>2. CASE KillChild
    <3>1. PICK child \in p_child[Dying] :
            /\ p_child' = [p_child EXCEPT ![Dying] = @ \ {child}]
            /\ p_parent' = IF child \in Free THEN p_parent ELSE [p_parent EXCEPT ![child] = NULL]
            /\ doomed' = IF child \in Free THEN doomed ELSE <<child>> \o doomed
            /\ UNCHANGED pcbFree
      BY <2>2 DEF KillChild
    <3>2. p_parent[child] = Dying /\ child \in Pcb /\ child \notin Free /\ child \in ClientPcb
      BY <1>0, <2>0, <3>1, ConstantTypes DEF TypeOK, TreeSound
    <3>3. p_parent' = [p_parent EXCEPT ![child] = NULL] /\ doomed' = <<child>> \o doomed
          /\ Free' = Free
      BY <3>1, <3>2 DEF Free
    <3>4. ASSUME NEW q \in Pcb, NEW c \in p_child'[q] PROVE p_parent'[c] = q
      <4>1. c \in p_child[q] /\ ~(q = Dying /\ c = child)
        BY <1>0, <2>0, <3>1, <3>4 DEF TypeOK
      <4>2. c \in Pcb /\ p_parent[c] = q /\ c # child
        BY <1>0, <3>2, <4>1, ConstantTypes DEF TypeOK, TreeSound
      <4> QED BY <1>0, <3>3, <4>2 DEF TypeOK
    <3>5. \A c \in Free' : p_parent'[c] = NULL
      <4>1. \A c \in Free : c \in Pcb
        BY <1>0, InSet, ConstantTypes DEF TypeOK, Free
      <4> QED BY <1>0, <3>2, <3>3, <4>1 DEF TypeOK, TreeSound
    <3>6. \A i \in DOMAIN doomed' : p_parent'[doomed'[i]] = NULL
      <4>1. \A x \in ToSet(doomed) : p_parent[x] = NULL /\ x \in Pcb
        <5>1. \A x \in ToSet(doomed) : \E i \in DOMAIN doomed : doomed[i] = x
          BY DEF ToSet
        <5>2. \A x \in ToSet(doomed) : x \in Pcb
          BY <1>0, InSet, ConstantTypes DEF TypeOK
        <5> QED BY <1>0, <5>1, <5>2 DEF TreeSound
      <4>2. /\ ToSet(doomed') = ToSet(doomed) \cup {child}
            /\ \A i \in DOMAIN doomed' : doomed'[i] \in ToSet(doomed')
        <5>1. ToSet(doomed') = ToSet(doomed) \cup {child}
          BY <1>0, <3>2, <3>3, ConsSet DEF TypeOK
        <5>2. \A i \in DOMAIN doomed' : doomed'[i] \in ToSet(doomed')
          BY DEF ToSet
        <5> QED BY <5>1, <5>2
      <4>3. \A x \in ToSet(doomed') : p_parent'[x] = NULL
        BY <1>0, <3>2, <3>3, <4>1, <4>2 DEF TypeOK
      <4> QED BY <4>2, <4>3
    <3> QED BY <3>4, <3>5, <3>6 DEF TreeSound
  <2>3. CASE KillFree
    <3>1. /\ pcbFree' = Append(pcbFree, Dying) /\ doomed' = Tail(doomed) /\ UNCHANGED tree
      BY <2>3 DEF KillFree
    <3>2. Free' = Free \cup {Dying} /\ p_parent[Dying] = NULL
      BY <1>0, <2>0, <3>1, AppendSet DEF TypeOK, Free, TreeSound
    <3>3. /\ Len(doomed') = Len(doomed) - 1 /\ DOMAIN doomed' = 1..Len(doomed')
          /\ DOMAIN doomed = 1..Len(doomed) /\ Len(doomed) \in Nat
          /\ \A i \in 1..Len(doomed') : doomed'[i] = doomed[i + 1]
      BY <1>0, <2>0, <3>1, HeadTailProperties, LenProperties DEF TypeOK
    <3>4. \A i \in DOMAIN doomed' : i + 1 \in DOMAIN doomed /\ doomed'[i] = doomed[i + 1]
      BY <3>3
    <3> QED BY <1>0, <3>1, <3>2, <3>4 DEF TreeSound
  <2> QED BY <1>3, <2>1, <2>2, <2>3 DEF KillProcess
<1>4. CASE Interrupts
  BY <1>0, <1>4, TreeSame DEF Interrupts, LocalTimerIdle, IntervalTimer, DeviceCompletes,
       DeviceInterrupt
<1> QED BY <1>1, <1>2, <1>3, <1>4 DEF Next

\* Nothing outside killProcess() changes what KillSound speaks of, but for
\* interrupts, which only clear device slots.
LEMMA KillKept ==
  ASSUME KillSound, UNCHANGED <<step, doomed>>, OnDevice' \subseteq OnDevice,
         step \in KillSteps => current_process' = current_process
  PROVE  KillSound'
BY DEF KillSound, Dying, KillSteps

LEMMA KillOver == step' \notin KillSteps /\ doomed' = <<>> => KillSound'
BY DEF KillSound, KillSteps, IsInjective

LEMMA KillEntered ==
  ASSUME TypeOK, NEW p \in ClientPcb, OutChild(p), doomed' = <<p>>, step' = "kill",
         current_process' \in {ssi_pcb, p}
  PROVE  KillSound'
<1>1. Last(doomed') = p /\ IsInjective(doomed')
  BY DEF Last, IsInjective
<1> QED BY <1>1, ConstantTypes DEF KillSound, ClientPcb

LEMMA KillStep ==
  ASSUME IInv, Next
  PROVE  KillSound'
<1>0. TypeOK /\ OnePlace /\ TreeSound /\ KillSound /\ (step \notin KillSteps <=> doomed = <<>>)
  BY Intact DEF TypeOK
<1>1. ASSUME NEW p \in Pcb, Client(p) PROVE KillSound'
  <2>1. step = "receive" /\ current_process = p /\ p \in ClientPcb
    BY <1>1 DEF Client, Request, SendToClient, StartReceive, Receive, Preempt, Trap, Runs, ClientPcb
  <2>2. CASE UNCHANGED <<step, doomed>>
    BY <1>0, <2>1, <2>2, KillOver DEF KillSteps
  <2>3. CASE Trap(p)
    <3>1. EnterKill(p) /\ UNCHANGED current_process
      BY <2>3 DEF Trap
    <3>2. UNCHANGED <<step, doomed>> \/ (OutChild(p) /\ doomed' = <<p>> /\ step' = "kill")
      BY <3>1 DEF EnterKill
    <3> QED BY <1>0, <2>1, <2>2, <3>1, <3>2, KillEntered
  <2> QED BY <1>1, <2>2, <2>3 DEF Client, Request, SendToClient, StartReceive, Receive, Preempt
<1>2. CASE Ssi
  <2>1. /\ step \in SsiSteps /\ step \notin KillSteps /\ doomed = <<>> /\ current_process = ssi_pcb
    BY <1>0, <1>2 DEF Ssi, SsiReceive, SsiCreate, SsiCreateFails, SsiReply, SsiTerminate, SsiLoad,
         SsiStore, SsiWaitForClock, SsiBlock, SsiUnlinkFails, SsiCommand, Serves, SsiAt,
         SsiSteps, KillSteps
  <2>2. CASE SsiTerminate
    <3> DEFINE victim == IF request.op = "terminate" /\ request.arg # NULL
                         THEN request.arg ELSE sender
    <3>1. victim \in ClientPcb /\ UNCHANGED current_process
      BY <1>0, <2>2 DEF SsiTerminate, TypeOK, SsiMessage, sender
    <3>2. (step' = AfterKillCall /\ UNCHANGED doomed) \/ EnterKill(victim)
      BY <2>2 DEF SsiTerminate
    <3> HIDE DEF victim
    <3>3. CASE step' = AfterKillCall /\ UNCHANGED doomed
      BY <2>1, <3>3, KillOver DEF AfterKillCall, KillSteps
    <3>4. CASE EnterKill(victim)
      <4>1. \/ UNCHANGED <<step, doomed>>
            \/ (OutChild(victim) /\ doomed' = <<victim>> /\ step' = "kill")
        BY <3>4 DEF EnterKill
      <4> QED BY <1>0, <2>1, <3>1, <4>1, KillOver, KillEntered
    <3> QED BY <3>2, <3>3, <3>4
  <2>3. CASE ~SsiTerminate
    <3>1. doomed' = <<>> /\ step' \notin KillSteps
      BY <1>2, <2>1, <2>3 DEF Ssi, SsiReceive, SsiCreate, SsiCreateFails, SsiReply, SsiLoad,
         SsiStore, SsiWaitForClock, SsiBlock, SsiUnlinkFails, SsiCommand, Corrupt,
         SsiSteps, KillSteps
    <3> QED BY <3>1, KillOver
  <2> QED BY <2>2, <2>3
<1>3. CASE KillProcess
  <2>0. step \in KillSteps
    BY <1>3 DEF KillProcess, KillChild, KillUnblocked, KillSeek, KillLoad, KillStore,
         KillOutClock, KillOutDev, KillFree, Killing, KillSteps
  <2>1. /\ doomed # <<>> /\ doomed \in Seq(ClientPcb) /\ IsInjective(doomed)
        /\ current_process # NULL
        /\ current_process # ssi_pcb => Last(doomed) = current_process
    BY <1>0, <2>0 DEF TypeOK, KillSound
  <2>2. CASE KillChild
    <3>1. PICK child \in p_child[Dying] :
            doomed' = IF child \in Free THEN doomed ELSE <<child>> \o doomed
      BY <2>2 DEF KillChild
    <3>2. child \in ClientPcb /\ p_parent[child] = Dying /\ Dying # NULL
      BY <1>0, <2>0, <3>1, DyingFacts DEF TypeOK, TreeSound
    <3>3. child \notin ToSet(doomed)
      BY <1>0, <3>2 DEF TreeSound, ToSet
    <3>4. IsInjective(doomed') /\ Last(doomed') = Last(doomed)
      BY <2>1, <3>1, <3>2, <3>3, ConsSet
    <3>5. step' = "kill" /\ UNCHANGED current_process
      BY <2>2 DEF KillChild, Killing
    <3> QED BY <2>1, <3>4, <3>5 DEF KillSound
  <2>3. CASE KillUnblocked
    <3>1. UNCHANGED <<doomed, current_process, devQueue>> /\ step' \in {"free", "seek"}
          /\ (step' = "free" => Dying \in Ready \cup receiveMessageQueue \cup Running)
      BY <2>3 DEF KillUnblocked
    <3>2. step' = "free" => Dying' \notin OnDevice'
      BY <1>0, <3>1 DEF OnePlace, Apart, Dying, OnDevice
    <3> QED BY <2>1, <3>1, <3>2 DEF KillSound
  <2>4. CASE KillSeek
    <3>1. UNCHANGED <<doomed, current_process, devQueue>> /\ step' \in {"decClock", "decDev"}
          /\ (step' = "decClock" => Dying \in OnClock)
      BY <2>4 DEF KillSeek
    <3>2. step' = "decClock" => Dying' \notin OnDevice'
      BY <1>0, <3>1 DEF OnePlace, Apart, Dying, OnDevice
    <3> QED BY <2>1, <3>1, <3>2 DEF KillSound
  <2>5. CASE KillLoad \/ KillStore \/ KillOutClock
    <3>1. UNCHANGED <<doomed, current_process, devQueue>>
      BY <2>5 DEF KillLoad, KillStore, KillOutClock
    <3>2. Dying' = Dying /\ OnDevice' = OnDevice
      BY <3>1 DEF Dying, OnDevice
    <3>3. step' \in {"decClock", "storeClock", "outClock", "free"}
          => step \in {"decClock", "storeClock", "outClock", "free"}
      BY <2>5 DEF KillLoad, KillStore, KillOutClock, Killing
    <3> QED BY <1>0, <2>1, <3>1, <3>2, <3>3 DEF KillSound
  <2>6. CASE KillOutDev
    <3>1. /\ UNCHANGED <<doomed, current_process>> /\ Dying # NULL
          /\ devQueue' = [d \in Device |-> IF devQueue[d] = Dying THEN NULL ELSE devQueue[d]]
      BY <1>0, <2>0, <2>6, DyingFacts DEF KillOutDev
    <3>2. Dying' \notin OnDevice'
      BY <3>1 DEF Dying, OnDevice
    <3> QED BY <2>1, <3>1, <3>2 DEF KillSound
  <2>7. CASE KillFree
    <3>1. /\ doomed' = Tail(doomed) /\ Tail(doomed) \in Seq(ClientPcb) /\ IsInjective(Tail(doomed))
      BY <2>1, <2>7, HeadTailSet DEF KillFree
    <3>2. CASE Len(doomed) > 1 /\ step' = "kill" /\ UNCHANGED current_process
      <4>1. Last(doomed') = Last(doomed)
        <5>1. /\ Len(Tail(doomed)) = Len(doomed) - 1 /\ Len(doomed) \in Nat
              /\ \A i \in 1..Len(Tail(doomed)) : Tail(doomed)[i] = doomed[i + 1]
          BY <2>1, HeadTailProperties, LenProperties
        <5>2. Len(doomed) - 1 \in 1..Len(Tail(doomed)) /\ Len(doomed) - 1 + 1 = Len(doomed)
          BY <3>2, <5>1
        <5> QED BY <3>1, <5>1, <5>2 DEF Last
      <4> QED BY <2>1, <3>1, <3>2, <4>1 DEF KillSound
    <3>3. CASE Len(doomed) = 1 /\ step' \in {AfterKillCall, "receive"}
      <4>1. doomed' = <<>>
        BY <2>1, <3>1, <3>3, HeadTailProperties, EmptySeq
      <4>2. step' \notin KillSteps
        BY <3>3 DEF AfterKillCall, KillSteps
      <4> QED BY <4>1, <4>2, KillOver
    <3>4. Len(doomed) > 1 \/ Len(doomed) = 1
      BY <1>0, <2>0, DyingFacts
    <3> QED BY <2>7, <3>2, <3>3, <3>4 DEF KillFree
  <2> QED BY <1>3, <2>2, <2>3, <2>4, <2>5, <2>6, <2>7 DEF KillProcess
<1>4. CASE Interrupts
  <2>1. UNCHANGED <<step, doomed>>
    BY <1>4 DEF Interrupts, LocalTimerIdle, IntervalTimer, DeviceCompletes, DeviceInterrupt
  <2>2. step \in KillSteps => current_process' = current_process
    <3>1. step \in KillSteps => current_process # NULL
      BY <1>0 DEF KillSound
    <3> QED BY <1>4, <3>1 DEF Interrupts, LocalTimerIdle, IntervalTimer, DeviceCompletes,
               DeviceInterrupt, ResumeOrSchedule
  <2>3. OnDevice' \subseteq OnDevice
    <3>1. CASE UNCHANGED devQueue
      BY <3>1 DEF OnDevice
    <3>2. CASE DeviceInterrupt
      <4>1. devQueue' = [devQueue EXCEPT ![Interrupting] = NULL]
        BY <3>2 DEF DeviceInterrupt
      <4>2. \A d \in Device : devQueue'[d] \in {devQueue[d], NULL}
        BY <1>0, <4>1 DEF TypeOK
      <4> QED BY <4>2 DEF OnDevice
    <3> QED BY <1>4, <3>1, <3>2 DEF Interrupts, LocalTimerIdle, IntervalTimer, DeviceCompletes
  <2> QED BY <1>0, <2>1, <2>2, <2>3, KillKept
<1> QED BY <1>1, <1>2, <1>3, <1>4 DEF Next

\* DyingOut where nothing but an interrupt happens.
LEMMA OutKept ==
  ASSUME DyingOut, UNCHANGED <<step, doomed>>, Free' \subseteq Free, OnClock' \subseteq OnClock,
         receiveMessageQueue' \subseteq receiveMessageQueue
  PROVE  DyingOut'
BY DEF DyingOut, Dying

LEMMA OutOver == step' \notin KillSteps /\ doomed' = <<>> => DyingOut'
BY DEF DyingOut, KillSteps

LEMMA OutEntered ==
  ASSUME NEW p \in ClientPcb, p \notin Free, UNCHANGED pcbFree, doomed' = <<p>>, step' = "kill"
  PROVE  DyingOut'
<1>1. Free' = Free /\ \A i \in DOMAIN doomed' : doomed'[i] = p
  BY DEF Free
<1> QED BY <1>1 DEF DyingOut

LEMMA OutStep ==
  ASSUME IInv, Next
  PROVE  DyingOut'
<1>0. /\ TypeOK /\ OnePlace /\ TreeSound /\ KillSound /\ DyingOut
      /\ (step \notin KillSteps <=> doomed = <<>>)
  BY Intact DEF TypeOK
<1>1. ASSUME NEW p \in Pcb, Client(p) PROVE DyingOut'
  <2>1. step = "receive" /\ p \in ClientPcb /\ p \in Running
    BY <1>1, ConstantTypes DEF Client, Request, SendToClient, StartReceive, Receive, Preempt, Trap,
       Runs, ClientPcb, Running
  <2>2. CASE UNCHANGED <<step, doomed>>
    BY <1>0, <2>1, <2>2, OutOver DEF KillSteps
  <2>3. CASE Trap(p)
    <3>1. EnterKill(p) /\ UNCHANGED pcbFree /\ p \notin Free
      BY <1>0, <2>1, <2>3 DEF Trap, OnePlace, Apart
    <3>2. UNCHANGED <<step, doomed>> \/ (doomed' = <<p>> /\ step' = "kill")
      BY <3>1 DEF EnterKill
    <3> QED BY <2>1, <2>2, <3>1, <3>2, OutEntered
  <2> QED BY <1>1, <2>2, <2>3 DEF Client, Request, SendToClient, StartReceive, Receive, Preempt
<1>2. CASE Ssi
  <2>1. /\ step \in SsiSteps /\ step \notin KillSteps /\ doomed = <<>>
    BY <1>0, <1>2 DEF Ssi, SsiReceive, SsiCreate, SsiCreateFails, SsiReply, SsiTerminate, SsiLoad,
         SsiStore, SsiWaitForClock, SsiBlock, SsiUnlinkFails, SsiCommand, Serves, SsiAt,
         SsiSteps, KillSteps
  <2>2. CASE SsiTerminate
    <3> DEFINE victim == IF request.op = "terminate" /\ request.arg # NULL
                         THEN request.arg ELSE sender
    <3>1. victim \in ClientPcb /\ UNCHANGED pcbFree
      BY <1>0, <2>2 DEF SsiTerminate, TypeOK, SsiMessage, sender
    <3>2. (step' = AfterKillCall /\ UNCHANGED doomed) \/ (EnterKill(victim) /\ victim \notin Free)
      BY <2>2 DEF SsiTerminate
    <3> HIDE DEF victim
    <3>3. CASE step' = AfterKillCall /\ UNCHANGED doomed
      BY <2>1, <3>3, OutOver DEF AfterKillCall, KillSteps
    <3>4. CASE EnterKill(victim) /\ victim \notin Free
      <4>1. UNCHANGED <<step, doomed>> \/ (doomed' = <<victim>> /\ step' = "kill")
        BY <3>4 DEF EnterKill
      <4> QED BY <2>1, <3>1, <3>4, <4>1, OutOver, OutEntered
    <3> QED BY <3>2, <3>3, <3>4
  <2>3. CASE ~SsiTerminate
    <3>1. doomed' = <<>> /\ step' \notin KillSteps
      BY <1>2, <2>1, <2>3 DEF Ssi, SsiReceive, SsiCreate, SsiCreateFails, SsiReply, SsiLoad,
         SsiStore, SsiWaitForClock, SsiBlock, SsiUnlinkFails, SsiCommand, Corrupt,
         SsiSteps, KillSteps
    <3> QED BY <3>1, OutOver
  <2> QED BY <2>2, <2>3
<1>3. CASE KillProcess
  <2>0. step \in KillSteps
    BY <1>3 DEF KillProcess, KillChild, KillUnblocked, KillSeek, KillLoad, KillStore,
         KillOutClock, KillOutDev, KillFree, Killing, KillSteps
  <2>1. /\ doomed # <<>> /\ doomed \in Seq(ClientPcb) /\ IsInjective(doomed)
        /\ Dying = doomed[1] /\ 1 \in DOMAIN doomed /\ Dying \in ClientPcb
    BY <1>0, <2>0, DyingFacts DEF TypeOK, KillSound
  <2>2. CASE KillChild
    <3>1. PICK child \in p_child[Dying] :
            doomed' = IF child \in Free THEN doomed ELSE <<child>> \o doomed
      BY <2>2 DEF KillChild
    <3>2. step' = "kill" /\ Free' = Free
      BY <2>2 DEF KillChild, Killing, Free
    <3>3. child \in ClientPcb
      BY <1>0, <2>1, <3>1, ConstantTypes DEF TypeOK, ClientPcb
    <3>4. \A x \in ToSet(doomed') : x \notin Free
      <4>1. \A x \in ToSet(doomed) : x \notin Free
        BY <1>0 DEF DyingOut, ToSet
      <4>2. child \notin Free => ToSet(doomed') = ToSet(doomed) \cup {child}
        BY <2>1, <3>1, <3>3, ConsSet
      <4>3. child \in Free => doomed' = doomed
        BY <3>1
      <4> QED BY <4>1, <4>2, <4>3
    <3>5. \A i \in DOMAIN doomed' : doomed'[i] \in ToSet(doomed')
      BY DEF ToSet
    <3> QED BY <3>2, <3>4, <3>5 DEF DyingOut
  <2>3. CASE KillUnblocked
    <3>1. /\ UNCHANGED <<doomed, pcbFree, pseudoClockQueue>> /\ step' \in {"free", "seek"}
          /\ Dying \notin receiveMessageQueue'
          /\ (step' = "free" => Dying \in Ready \cup receiveMessageQueue \cup Running)
      BY <2>3 DEF KillUnblocked
    <3>2. Dying' = Dying /\ Free' = Free /\ OnClock' = OnClock
      BY <3>1 DEF Dying, Free, OnClock
    <3>3. step' = "free" => Dying \notin OnClock
      BY <1>0, <3>1 DEF OnePlace, Apart
    <3> QED BY <1>0, <3>1, <3>2, <3>3 DEF DyingOut
  <2>4. CASE KillSeek \/ KillLoad \/ KillStore \/ KillOutDev
    <3>1. /\ UNCHANGED <<doomed, pcbFree, pseudoClockQueue, receiveMessageQueue>>
          /\ step \in KillSteps \ {"kill"}
          /\ (step' \in {"decDev", "storeDev", "outDev", "free"}
               => \/ step \in {"decDev", "storeDev", "outDev", "free"}
                  \/ Dying \notin OnClock)
      BY <2>4 DEF KillSeek, KillLoad, KillStore, KillOutDev, Killing, KillSteps
    <3>2. Dying' = Dying /\ Free' = Free /\ OnClock' = OnClock
      BY <3>1 DEF Dying, Free, OnClock
    <3> QED BY <1>0, <3>1, <3>2 DEF DyingOut
  <2>5. CASE KillOutClock
    <3>1. /\ UNCHANGED <<doomed, pcbFree, receiveMessageQueue>> /\ step = "outClock"
          /\ pseudoClockQueue' = RemoveFirst(pseudoClockQueue, Dying)
      BY <2>5 DEF KillOutClock, Killing
    <3>2. Dying' = Dying /\ Free' = Free
      BY <3>1 DEF Dying, Free
    <3>3. Dying \notin OnClock'
      BY <1>0, <3>1, RemoveFirstSet DEF TypeOK, OnClock, OnePlace, NoDuplicates
    <3> QED BY <1>0, <3>1, <3>2, <3>3 DEF DyingOut, KillSteps
  <2>6. CASE KillFree
    <3>1. /\ pcbFree' = Append(pcbFree, Dying) /\ doomed' = Tail(doomed)
          /\ step' = "kill" \/ step' \notin KillSteps
      BY <2>6 DEF KillFree, AfterKillCall, KillSteps
    <3>2. Free' = Free \cup {Dying}
      BY <1>0, <2>1, <3>1, AppendSet DEF TypeOK, Free
    <3>3. /\ DOMAIN doomed' = 1..Len(doomed') /\ Len(doomed') = Len(doomed) - 1
          /\ Len(doomed) \in Nat /\ DOMAIN doomed = 1..Len(doomed)
          /\ \A i \in 1..Len(doomed') : doomed'[i] = doomed[i + 1]
      BY <2>1, <3>1, HeadTailProperties, LenProperties
    <3>4. ASSUME NEW i \in DOMAIN doomed' PROVE doomed'[i] \notin Free'
      <4>1. doomed'[i] = doomed[i + 1] /\ i + 1 \in DOMAIN doomed /\ i + 1 # 1
        BY <3>3, <3>4
      <4>2. doomed[i + 1] # Dying
        BY <2>1, <4>1 DEF IsInjective
      <4> QED BY <1>0, <3>2, <4>1, <4>2 DEF DyingOut
    <3>5. step' \in KillSteps => step' = "kill"
      BY <3>1
    <3> QED BY <3>4, <3>5 DEF DyingOut, KillSteps
  <2> QED BY <1>3, <2>2, <2>3, <2>4, <2>5, <2>6 DEF KillProcess
<1>4. CASE Interrupts
  <2>1. UNCHANGED <<step, doomed>> /\ Free' = Free
    BY <1>4 DEF Interrupts, LocalTimerIdle, IntervalTimer, DeviceCompletes, DeviceInterrupt, Free
  <2>2. OnClock' \subseteq OnClock
    BY <1>4 DEF Interrupts, LocalTimerIdle, IntervalTimer, DeviceCompletes, DeviceInterrupt,
       OnClock, ToSet
  <2>3. receiveMessageQueue' \subseteq receiveMessageQueue
    BY <1>4 DEF Interrupts, LocalTimerIdle, IntervalTimer, DeviceCompletes, DeviceInterrupt, Send
  <2> QED BY <1>0, <2>1, <2>2, <2>3, OutKept
<1> QED BY <1>1, <1>2, <1>3, <1>4 DEF Next

\* Freed while linked into the ready queue, as killProcess() found it, or not at all.
LEMMA PlaceFreed ==
  ASSUME IInv, KillFree, Dying \in Linked
  PROVE  /\ step = "free" /\ Dying \in Ready /\ Dying \in Free'
         /\ machine' = "corrupt"
<1>1. TypeOK /\ DyingOut /\ step = "free"
  BY Intact DEF Next, KillProcess, KillFree, Killing
<1>2. Dying \in ClientPcb /\ Dying = doomed[1] /\ 1 \in DOMAIN doomed
  BY <1>1, DyingFacts DEF KillSteps
<1>3. Dying \notin Free /\ Dying \notin receiveMessageQueue /\ Dying \notin OnClock
  BY <1>1, <1>2 DEF DyingOut, KillSteps
<1>4. pcbFree' = Append(pcbFree, Dying) /\ machine' = "corrupt"
  BY DEF KillFree
<1>5. Dying \in Free'
  BY <1>1, <1>2, <1>4, AppendSet DEF TypeOK, Free
<1> QED BY <1>1, <1>3, <1>4, <1>5 DEF Linked

LEMMA InvInit == Init => IInv
<1> SUFFICES ASSUME Init PROVE IInv
  OBVIOUS
<1>1. /\ Ready = {root_pcb} /\ Free = ToSet(freeList) /\ OnClock = {} /\ OnDevice = {}
      /\ Running = {ssi_pcb}
  BY ConstantTypes DEF Init, Ready, Free, OnClock, OnDevice, Running, ToSet
<1>2. NoDuplicates
  BY ConstantTypes DEF Init, NoDuplicates, IsInjective
<1>3. Apart
  BY <1>1, NucleusAssumption DEF Init, Apart
<1>4. TreeSound
  BY <1>1, NucleusAssumption DEF Init, TreeSound
<1>5. KillSound /\ DyingOut
  BY DEF Init, KillSound, DyingOut, KillSteps, IsInjective
<1> QED BY <1>2, <1>3, <1>4, <1>5, TypeInit DEF IInv, OnePlace

\* Every step but the one that frees a process the ready queue holds keeps PCBs apart.
LEMMA PlaceStep ==
  ASSUME IInv, Next
  PROVE  \/ OnePlace'
         \/ step = "free" /\ Dying \in Ready /\ Dying \in Free' /\ machine' = "corrupt"
<1>1. TypeOK /\ OnePlace
  BY Intact
<1>2. CASE KillFree /\ Dying \in Linked
  BY <1>2, PlaceFreed
<1>3. CASE ~(KillFree /\ Dying \in Linked)
  BY <1>1, <1>3, PlaceClient, PlaceSsi, PlaceKill, PlaceInterrupts DEF Next
<1> QED BY <1>2, <1>3

LEMMA InvStep == IInv /\ [Next]_vars => IInv'
<1>1. ASSUME IInv, UNCHANGED vars PROVE IInv'
  <2>1. TreeSound'
    BY <1>1, TreeSame DEF IInv, vars
  <2>2. KillSound' /\ DyingOut'
    BY <1>1 DEF IInv, vars, KillSound, DyingOut, Dying, OnDevice, OnClock, Free
  <2>3. machine' # "corrupt" => OnePlace'
    BY <1>1, PlaceSame DEF IInv, vars
  <2> QED BY <1>1, <2>1, <2>2, <2>3, TypeStep DEF IInv
<1>2. ASSUME IInv, Next PROVE IInv'
  <2>1. machine' # "corrupt" => OnePlace'
    BY <1>2, PlaceStep
  <2>2. TypeOK'
    BY <1>2, TypeStep DEF IInv
  <2> QED BY <1>2, <2>1, <2>2, TreeStep, KillStep, OutStep DEF IInv
<1> QED BY <1>1, <1>2

LEMMA Invariant == Spec => []IInv
BY InvInit, InvStep, PTL DEF Spec

\* Whatever the clients do and whatever interrupts fall into the SSI's services and into
\* killProcess(), a PCB gets into two places in one way only: freePcb() of a process that
\* was put into the ready queue after killProcess() had looked for it there.
THEOREM OnlyFreePcbDoubles == Spec => OnlyFreedTwice
<1>1. IInv /\ [Next]_vars
      => [OnePlace => OnePlace' \/ (step = "free" /\ Dying \in Ready /\ Dying \in Free')]_vars
  BY PlaceStep
<1> QED BY <1>1, Invariant, PTL DEF Spec, OnlyFreedTwice

\* The process tree is sound in every reachable state: no free PCB has a
\* parent, and none is among the children of a process.
THEOREM TreeCorrect == Spec => []TreeSound
<1>1. IInv => TreeSound
  BY DEF IInv
<1> QED BY <1>1, Invariant, PTL

\* killProcess() kills no process twice and frees no PCB a device slot holds.
THEOREM KillCorrect == Spec => []KillSound
<1>1. IInv => KillSound
  BY DEF IInv
<1> QED BY <1>1, Invariant, PTL
------------------------------------------------------------------------------
(* NoLostWakeup, on top of IInv: a blocked process is in receiveMessageQueue*)
(* only, so nothing else is done to it, and sendMessage() takes it out.     *)

WakeInv == IInv /\ NoLostWakeup /\ awaiting[ssi_pcb] = NULL

\* What does not add to receiveMessageQueue, nor change what those in it await
\* and have in their inboxes, loses no wakeup.
LEMMA WakeKept ==
  ASSUME NoLostWakeup, receiveMessageQueue' \subseteq receiveMessageQueue,
         \A p \in receiveMessageQueue' :
           msg_inbox'[p] = msg_inbox[p] /\ awaiting'[p] = awaiting[p]
  PROVE  NoLostWakeup'
BY DEF NoLostWakeup

LEMMA WakeBlock ==
  ASSUME TypeOK, NoLostWakeup, NEW p \in Pcb, awaiting[p] # Computing,
         FirstMatch(p, awaiting[p]) = 0, BlockOnReceive(p), UNCHANGED <<msg_inbox, awaiting>>
  PROVE  NoLostWakeup'
<1>1. \A j \in DOMAIN msg_inbox[p] : awaiting[p] # NULL /\ msg_inbox[p][j].from # awaiting[p]
  BY FirstMatchFacts
<1>2. receiveMessageQueue' = receiveMessageQueue \cup {p}
  BY DEF BlockOnReceive
<1> QED BY <1>1, <1>2 DEF NoLostWakeup

LEMMA WakeStep == WakeInv /\ [Next]_vars => WakeInv'
<1> SUFFICES ASSUME WakeInv, [Next]_vars PROVE NoLostWakeup' /\ awaiting'[ssi_pcb] = NULL
  BY InvStep DEF WakeInv
<1>0. /\ IInv /\ TypeOK /\ (Next => OnePlace) /\ NoLostWakeup /\ awaiting[ssi_pcb] = NULL
      /\ awaiting \in [Pcb -> Pcb \cup {NULL, Computing}] /\ receiveMessageQueue \subseteq Pcb
  BY Intact DEF WakeInv, IInv, TypeOK
<1>1. CASE UNCHANGED <<receiveMessageQueue, msg_inbox, awaiting>>
  BY <1>0, <1>1, WakeKept
<1>2. CASE receiveMessageQueue' \subseteq receiveMessageQueue /\ UNCHANGED <<msg_inbox, awaiting>>
  BY <1>0, <1>2, WakeKept
<1>3. ASSUME NEW p \in Pcb, Client(p) PROVE NoLostWakeup' /\ awaiting'[ssi_pcb] = NULL
  <2>1. p \in ClientPcb /\ p # ssi_pcb /\ p \notin receiveMessageQueue
    <3>1. p \in Running /\ p # ssi_pcb
      BY <1>3, ConstantTypes DEF Client, Request, SendToClient, StartReceive, Receive, Preempt,
           Trap, Runs, Running
    <3>2. Next
      BY <1>3 DEF Next
    <3> QED BY <1>0, <3>1, <3>2 DEF OnePlace, Apart, ClientPcb
  <2>2. CASE Request(p)
    <3>0. PICK k \in SsiServices : \E arg \in Args(p, k) : Send(Msg(p, k, arg), ssi_pcb)
      BY <2>2 DEF Request
    <3>1. PICK arg \in Args(p, k) : Send(Msg(p, k, arg), ssi_pcb)
      BY <3>0
    <3>2. Msg(p, k, arg) \in SsiMessage
      BY <2>1, <3>1, NucleusAssumption DEF Msg, SsiMessage, SsiServices, Args, ClientPcb
    <3>3. /\ receiveMessageQueue' \subseteq receiveMessageQueue
          /\ \A q \in receiveMessageQueue' : msg_inbox'[q] = msg_inbox[q]
      BY <1>0, <3>1, <3>2, ConstantTypes, SendFacts
    <3>4. awaiting' = [awaiting EXCEPT ![p] = ssi_pcb]
      BY <2>2 DEF Request
    <3>5. \A q \in Pcb \ {p} : awaiting'[q] = awaiting[q]
      BY <1>0, <3>4
    <3> QED BY <1>0, <2>1, <3>3, <3>5, ConstantTypes, WakeKept
  <2>3. CASE SendToClient(p)
    <3>1. PICK dest \in Pcb \ {ssi_pcb, p} : Send(Msg(p, "data", NULL), dest)
      BY <2>3 DEF SendToClient
    <3>2. Msg(p, "data", NULL) \in Message
      BY DEF Msg, Message
    <3>3. /\ receiveMessageQueue' \subseteq receiveMessageQueue
          /\ \A q \in receiveMessageQueue' : msg_inbox'[q] = msg_inbox[q]
      BY <1>0, <3>1, <3>2, SendFacts
    <3> QED BY <1>0, <2>3, <3>3, WakeKept DEF SendToClient
  <2>4. CASE StartReceive(p)
    <3>1. PICK from : awaiting' = [awaiting EXCEPT ![p] = from]
      BY <2>4 DEF StartReceive
    <3>2. \A q \in Pcb \ {p} : awaiting'[q] = awaiting[q]
      BY <1>0, <3>1
    <3>3. UNCHANGED <<receiveMessageQueue, msg_inbox>>
      BY <2>4 DEF StartReceive
    <3> QED BY <1>0, <2>1, <3>2, <3>3, ConstantTypes, WakeKept
  <2>5. CASE Receive(p)
    <3> DEFINE i == FirstMatch(p, awaiting[p])
    <3>1. CASE i > 0 /\ TakeMessage(p, i) /\ awaiting' = [awaiting EXCEPT ![p] = Computing]
               /\ UNCHANGED <<queues, cpu>>
      <4>1. i \in 1..Len(msg_inbox[p])
        BY <1>0, <3>1, FirstMatchFacts
      <4> HIDE DEF i
      <4>2. \A q \in Pcb \ {p} : msg_inbox'[q] = msg_inbox[q] /\ awaiting'[q] = awaiting[q]
        BY <1>0, <3>1, <4>1, TakeFacts
      <4> QED BY <1>0, <2>1, <3>1, <4>2, ConstantTypes, WakeKept
    <3>2. CASE i = 0 /\ BlockOnReceive(p)
               /\ UNCHANGED <<pcbFree, pseudoClockQueue, devQueue, mail>>
      BY <1>0, <2>5, <3>2, WakeBlock DEF Receive
    <3> QED BY <2>5, <3>1, <3>2 DEF Receive
  <2>6. CASE Preempt(p) \/ Trap(p)
    BY <1>1, <2>6 DEF Preempt, Trap
  <2> QED BY <1>3, <2>2, <2>3, <2>4, <2>5, <2>6 DEF Client
<1>4. CASE Ssi
  <2>1. sender \in ClientPcb /\ sender \in Pcb /\ sender # ssi_pcb
    BY <1>0, ConstantTypes DEF TypeOK, SsiMessage, sender, ClientPcb
  <2>2. CASE SsiReceive
    <3> DEFINE i == FirstMatch(ssi_pcb, NULL)
    <3>1. ssi_pcb \notin receiveMessageQueue
      <4>1. ssi_pcb \in Running
        BY <2>2, ConstantTypes DEF SsiReceive, SsiAt, Running
      <4>2. OnePlace
        BY <1>0, <1>4 DEF Next
      <4> QED BY <4>1, <4>2 DEF OnePlace, Apart
    <3>2. CASE i > 0 /\ TakeMessage(ssi_pcb, i) /\ UNCHANGED <<queues, cpu>>
      <4>1. i \in 1..Len(msg_inbox[ssi_pcb])
        BY <1>0, <3>2, FirstMatchFacts, ConstantTypes
      <4> HIDE DEF i
      <4>2. \A q \in Pcb \ {ssi_pcb} : msg_inbox'[q] = msg_inbox[q]
        BY <1>0, <3>2, <4>1, TakeFacts, ConstantTypes
      <4> QED BY <1>0, <2>2, <3>1, <3>2, <4>2, WakeKept DEF SsiReceive
    <3>3. CASE i = 0 /\ BlockOnReceive(ssi_pcb) /\ UNCHANGED <<msg_inbox, awaiting>>
      BY <1>0, <3>3, ConstantTypes, WakeBlock
    <3> QED BY <2>2, <3>2, <3>3 DEF SsiReceive
  <2>3. CASE SsiCreate
    <3> DEFINE newChild == Head(pcbFree)
    <3>1. newChild \in Free /\ newChild \in ClientPcb
      BY <1>0, <2>3, HeadTailSet DEF SsiCreate, TypeOK, Free
    <3>2. newChild \notin receiveMessageQueue /\ newChild # ssi_pcb
      <4>1. OnePlace
        BY <1>0, <1>4 DEF Next
      <4> QED BY <3>1, <4>1 DEF OnePlace, Apart, ClientPcb
    <3>3. /\ msg_inbox' = [msg_inbox EXCEPT ![newChild] = <<>>]
          /\ awaiting' = [awaiting EXCEPT ![newChild] = Computing]
          /\ UNCHANGED receiveMessageQueue
      BY <2>3 DEF SsiCreate, AllocPcb
    <3> HIDE DEF newChild
    <3>4. \A q \in Pcb \ {newChild} : msg_inbox'[q] = msg_inbox[q] /\ awaiting'[q] = awaiting[q]
      BY <1>0, <3>3 DEF TypeOK
    <3> QED BY <1>0, <3>2, <3>3, <3>4, ConstantTypes, WakeKept
  <2>4. CASE SsiReply
    <3>1. Msg(ssi_pcb, "answer", NULL) \in Message
      BY ConstantTypes DEF Msg, Message
    <3>2. /\ receiveMessageQueue' \subseteq receiveMessageQueue
          /\ \A q \in receiveMessageQueue' : msg_inbox'[q] = msg_inbox[q]
      BY <1>0, <2>1, <2>4, <3>1, SendFacts DEF SsiReply
    <3> QED BY <1>0, <2>4, <3>2, WakeKept DEF SsiReply
  <2>5. CASE SsiWaitForClock \/ SsiBlock
    BY <1>2, <2>5 DEF SsiWaitForClock, SsiBlock, OutAnyProcQ
  <2>6. CASE SsiCreateFails \/ SsiTerminate \/ SsiLoad \/ SsiStore \/ SsiUnlinkFails \/ SsiCommand
    BY <1>1, <2>6 DEF SsiCreateFails, SsiTerminate, SsiLoad, SsiStore, SsiUnlinkFails, Corrupt,
         SsiCommand
  <2> QED BY <1>4, <2>2, <2>3, <2>4, <2>5, <2>6 DEF Ssi
<1>5. CASE KillProcess
  BY <1>2, <1>5 DEF KillProcess, KillChild, KillUnblocked, KillSeek, KillLoad, KillStore,
       KillOutClock, KillOutDev, KillFree
<1>6. CASE Interrupts
  <2>1. CASE LocalTimerIdle \/ IntervalTimer \/ \E d \in Device : DeviceCompletes(d)
    BY <1>1, <2>1 DEF LocalTimerIdle, IntervalTimer, DeviceCompletes
  <2>2. CASE DeviceInterrupt
    <3> DEFINE requester == devQueue[Interrupting]
    <3>1. requester \in ClientPcb \cup {NULL} /\ UNCHANGED awaiting
      BY <1>0, <2>2, InterruptingFacts DEF DeviceInterrupt, TypeOK
    <3>2. \/ requester # NULL /\ Send(Msg(ssi_pcb, "answer", NULL), requester)
          \/ UNCHANGED <<msg_inbox, receiveMessageQueue>>
      BY <2>2 DEF DeviceInterrupt
    <3>3. Msg(ssi_pcb, "answer", NULL) \in Message
      BY ConstantTypes DEF Msg, Message
    <3>4. requester # NULL => requester \in Pcb /\ requester # ssi_pcb
      BY <3>1 DEF ClientPcb
    <3> HIDE DEF requester
    <3>5. CASE requester # NULL /\ Send(Msg(ssi_pcb, "answer", NULL), requester)
      <4>1. /\ receiveMessageQueue' \subseteq receiveMessageQueue
            /\ \A q \in receiveMessageQueue' : msg_inbox'[q] = msg_inbox[q]
        BY <1>0, <3>3, <3>4, <3>5, SendFacts
      <4> QED BY <1>0, <3>1, <4>1, WakeKept
    <3> QED BY <1>1, <3>1, <3>2, <3>5
  <2> QED BY <1>6, <2>1, <2>2 DEF Interrupts
<1>7. CASE UNCHANGED vars
  BY <1>1, <1>7 DEF vars
<1> QED BY <1>3, <1>4, <1>5, <1>6, <1>7 DEF Next

\* No wakeup is lost: a process in receiveMessageQueue has no message that its
\* RECEIVEMESSAGE would take, in every state of every execution.
THEOREM WakeupNeverLost == Spec => []NoLostWakeup
<1>1. Init => WakeInv
  BY InvInit, ConstantTypes DEF Init, WakeInv, NoLostWakeup
<1>2. WakeInv => NoLostWakeup
  BY DEF WakeInv
<1> QED BY <1>1, <1>2, WakeStep, PTL DEF Spec
------------------------------------------------------------------------------
(* NoOvertaking: every step but the scheduler's leaves the ready queue as it *)
(* is, or takes a process out, or adds processes that were not there behind *)
(* it; scheduler() takes the first.                                         *)

\* Who is in t before one of s was before it in s.
InTurn(t, s) ==
  \A p \in ToSet(s) \cap ToSet(t) : \A q \in Pcb : Precedes(q, p, t) => Precedes(q, p, s)

LEMMA InTurnSame == ASSUME NEW s PROVE InTurn(s, s)
BY DEF InTurn

LEMMA InTurnConcat ==
  ASSUME NEW s \in Seq(Pcb), NEW t \in Seq(Pcb), ToSet(s) \cap ToSet(t) = {}
  PROVE  InTurn(s \o t, s)
<1> DEFINE u == s \o t
<1>1. /\ Len(s) \in Nat /\ Len(t) \in Nat /\ Len(u) = Len(s) + Len(t)
      /\ DOMAIN s = 1..Len(s) /\ DOMAIN t = 1..Len(t) /\ DOMAIN u = 1..Len(u)
      /\ \A i \in 1..Len(u) : u[i] = IF i <= Len(s) THEN s[i] ELSE t[i - Len(s)]
  BY ConcatProperties, LenProperties
<1> HIDE DEF u
<1>2. SUFFICES ASSUME NEW p \in ToSet(s), NEW q, NEW i \in 1..Len(u), NEW j \in 1..Len(u),
                      i < j, u[i] = q, u[j] = p
               PROVE  Precedes(q, p, s)
  BY <1>1 DEF InTurn, Precedes, u
<1>3. j <= Len(s)
  <2>1. SUFFICES ASSUME ~(j <= Len(s)) PROVE FALSE
    OBVIOUS
  <2>2. j - Len(s) \in 1..Len(t) /\ p = t[j - Len(s)]
    BY <1>1, <1>2, <2>1
  <2>3. p \in ToSet(t)
    BY <1>1, <2>2 DEF ToSet
  <2> QED BY <1>2, <2>3
<1>4. i \in 1..Len(s) /\ j \in 1..Len(s) /\ s[i] = q /\ s[j] = p
  BY <1>1, <1>2, <1>3
<1> QED BY <1>1, <1>2, <1>4 DEF Precedes

LEMMA InTurnAppend ==
  ASSUME NEW s \in Seq(Pcb), NEW x \in Pcb, x \notin ToSet(s)
  PROVE  InTurn(Append(s, x), s)
<1> DEFINE one == <<x>>
<1>1. one \in Seq(Pcb) /\ ToSet(one) = {x}
  BY DEF ToSet
<1>2. Append(s, x) = s \o one
  OBVIOUS
<1> HIDE DEF one
<1> QED BY <1>1, <1>2, InTurnConcat

LEMMA InTurnRemove ==
  ASSUME NEW s \in Seq(Pcb), NEW e
  PROVE  InTurn(RemoveFirst(s, e), s)
<1>1. CASE e \notin ToSet(s)
  BY <1>1, RemoveFirstSet, InTurnSame
<1>2. CASE e \in ToSet(s)
  <2> DEFINE I == {i \in 1..Len(s) : s[i] = e}
             k == Min(I)
             u == RemoveAt(s, k)
  <2>1. I \subseteq Nat /\ I # {} /\ \E i \in 1..Len(s) : s[i] = e
    BY <1>2, InSet
  <2>2. k \in 1..Len(s)
    BY <2>1, MinNat
  <2>3. RemoveFirst(s, e) = u
    BY <2>1 DEF RemoveFirst, SelectInSeq
  <2> HIDE DEF k
  <2>4. /\ u \in Seq(Pcb) /\ Len(u) = Len(s) - 1 /\ Len(s) \in Nat
        /\ DOMAIN s = 1..Len(s) /\ DOMAIN u = 1..(Len(s) - 1)
        /\ \A i \in 1..(Len(s) - 1) : u[i] = IF i < k THEN s[i] ELSE s[i + 1]
    BY <2>2, RemoveAtSeq, LenProperties
  <2> HIDE DEF u
  <2>5. SUFFICES ASSUME NEW p, NEW q, NEW i \in 1..(Len(s) - 1), NEW j \in 1..(Len(s) - 1),
                        i < j, u[i] = q, u[j] = p
                 PROVE  Precedes(q, p, s)
    BY <2>3, <2>4 DEF InTurn, Precedes
  <2> DEFINE at(n) == IF n < k THEN n ELSE n + 1
  <2>6. at(i) \in 1..Len(s) /\ at(j) \in 1..Len(s) /\ at(i) < at(j)
    BY <2>2, <2>4, <2>5
  <2>7. s[at(i)] = q /\ s[at(j)] = p
    BY <2>4, <2>5
  <2> HIDE DEF at
  <2> QED BY <2>4, <2>6, <2>7 DEF Precedes
<1> QED BY <1>1, <1>2

\* What scheduler() dispatches is the first, so that it gets ahead of nobody.
LEMMA DispatchInTurn ==
  ASSUME NEW s \in Seq(Pcb), NEW ready \in Seq(Pcb), InTurn(ready, s), ready # <<>>
  PROVE  /\ InTurn(Tail(ready), s)
         /\ \A p \in ToSet(s) \cap ToSet(Tail(ready)) : Precedes(Head(ready), p, s)
<1>1. /\ Len(ready) \in Nat \ {0} /\ DOMAIN ready = 1..Len(ready)
      /\ Head(ready) = ready[1] /\ Head(ready) \in Pcb
      /\ Tail(ready) \in Seq(Pcb) /\ Len(Tail(ready)) = Len(ready) - 1
      /\ DOMAIN Tail(ready) = 1..(Len(ready) - 1)
      /\ \A i \in 1..(Len(ready) - 1) : Tail(ready)[i] = ready[i + 1]
  BY HeadTailProperties, EmptySeq
<1>2. ASSUME NEW p, NEW q, Precedes(q, p, Tail(ready)) PROVE Precedes(q, p, ready)
  <2>1. PICK i \in 1..(Len(ready) - 1), j \in 1..(Len(ready) - 1) :
               i < j /\ Tail(ready)[i] = q /\ Tail(ready)[j] = p
    BY <1>1, <1>2 DEF Precedes
  <2>2. /\ i + 1 \in 1..Len(ready) /\ j + 1 \in 1..Len(ready) /\ i + 1 < j + 1
        /\ ready[i + 1] = q /\ ready[j + 1] = p
    BY <1>1, <2>1
  <2> QED BY <1>1, <2>2 DEF Precedes
<1>3. ASSUME NEW p \in ToSet(Tail(ready)) PROVE p \in ToSet(ready) /\ Precedes(Head(ready), p, ready)
  <2>1. PICK j \in 1..(Len(ready) - 1) : Tail(ready)[j] = p
    BY <1>1, <1>3 DEF ToSet
  <2>2. /\ 1 \in 1..Len(ready) /\ j + 1 \in 1..Len(ready) /\ 1 < j + 1
        /\ ready[j + 1] = p
    BY <1>1, <2>1
  <2> QED BY <1>1, <2>2 DEF Precedes, ToSet
<1> QED BY <1>1, <1>2, <1>3 DEF InTurn

\* The body of NoOvertaking.
RoundRobin ==
  \A p \in Ready \cap Ready' : \A q \in Pcb :
    \/ Precedes(q, p, readyQueue')
    \/ q = current_process' /\ q # current_process
    => Precedes(q, p, readyQueue)

LEMMA RoundRobinScheduler ==
  ASSUME TypeOK, NEW ready \in Seq(Pcb), InTurn(ready, readyQueue),
         NEW procs, NEW soft, NEW plt, Scheduler(ready, procs, soft, plt)
  PROVE  RoundRobin
<1>1. readyQueue \in Seq(Pcb)
  BY DEF TypeOK
<1>2. CASE ready # <<>> /\ current_process' = Head(ready) /\ readyQueue' = Tail(ready)
  BY <1>1, <1>2, DispatchInTurn DEF RoundRobin, InTurn, Ready
<1>3. CASE readyQueue' = <<>>
  BY <1>3 DEF RoundRobin, Ready, ToSet
<1> QED BY <1>2, <1>3 DEF Scheduler

LEMMA RoundRobinKept ==
  ASSUME InTurn(readyQueue', readyQueue), current_process' = current_process
  PROVE  RoundRobin
BY DEF RoundRobin, InTurn, Ready

LEMMA RoundRobinResume ==
  ASSUME TypeOK, NEW ready \in Seq(Pcb), InTurn(ready, readyQueue),
         NEW soft, ResumeOrSchedule(ready, soft)
  PROVE  RoundRobin
BY RoundRobinScheduler, RoundRobinKept DEF ResumeOrSchedule

LEMMA InTurnSend ==
  ASSUME TypeOK, OnePlace, NEW dest \in Pcb
  PROVE  InTurn(ReadyAfterSend(dest), readyQueue)
<1>1. readyQueue \in Seq(Pcb)
  BY DEF TypeOK
<1>2. dest \in receiveMessageQueue => dest \notin ToSet(readyQueue)
  BY DEF OnePlace, Apart, Ready
<1> QED BY <1>1, <1>2, InTurnSame, InTurnAppend DEF ReadyAfterSend

LEMMA RoundRobinStep == ASSUME TypeOK, OnePlace, [Next]_vars PROVE RoundRobin
<1>1. readyQueue \in Seq(Pcb) /\ InTurn(readyQueue, readyQueue)
  BY InTurnSame DEF TypeOK
<1>2. ASSUME UNCHANGED <<readyQueue, current_process>> PROVE RoundRobin
  BY <1>1, <1>2, RoundRobinKept
<1>3. ASSUME NEW p \in Pcb, Client(p) PROVE RoundRobin
  <2>1. CASE Request(p)
    <3>1. readyQueue' = ReadyAfterSend(ssi_pcb) /\ current_process' = current_process
      BY <2>1 DEF Request
    <3> QED BY <3>1, InTurnSend, ConstantTypes, RoundRobinKept
  <2>2. CASE SendToClient(p)
    <3>1. PICK dest \in Pcb : readyQueue' = ReadyAfterSend(dest)
      BY <2>2 DEF SendToClient
    <3>2. current_process' = current_process
      BY <2>2 DEF SendToClient
    <3> QED BY <3>1, <3>2, InTurnSend, RoundRobinKept
  <2>3. CASE StartReceive(p) \/ Trap(p)
    BY <1>2, <2>3 DEF StartReceive, Trap
  <2>4. CASE Receive(p)
    BY <1>1, <1>2, <2>4, RoundRobinScheduler DEF Receive, BlockOnReceive
  <2>5. CASE Preempt(p)
    <3>1. p \notin ToSet(readyQueue)
      BY <1>3, <2>5, ConstantTypes DEF Preempt, Runs, OnePlace, Apart, Ready, Running
    <3>2. Append(readyQueue, p) \in Seq(Pcb) /\ InTurn(Append(readyQueue, p), readyQueue)
      BY <1>1, <3>1, InTurnAppend, AppendSet
    <3> QED BY <2>5, <3>2, RoundRobinScheduler DEF Preempt
  <2> QED BY <1>3, <2>1, <2>2, <2>3, <2>4, <2>5 DEF Client
<1>4. CASE Ssi
  <2>1. CASE SsiReceive
    BY <1>1, <1>2, <2>1, RoundRobinScheduler DEF SsiReceive, BlockOnReceive
  <2>2. CASE SsiCreate
    <3>1. pcbFree # <<>> /\ pcbFree \in Seq(ClientPcb)
      BY <2>2 DEF SsiCreate, TypeOK
    <3>2. Head(pcbFree) \in Pcb /\ Head(pcbFree) \in Free
      BY <3>1, HeadTailSet, ConstantTypes DEF Free
    <3>3. Head(pcbFree) \notin ToSet(readyQueue)
      BY <3>2 DEF OnePlace, Apart, Ready
    <3>4. readyQueue' = Append(readyQueue, Head(pcbFree)) /\ current_process' = current_process
      BY <2>2 DEF SsiCreate
    <3> QED BY <1>1, <3>2, <3>3, <3>4, InTurnAppend, RoundRobinKept
  <2>3. CASE SsiReply
    <3>1. readyQueue' = ReadyAfterSend(sender) /\ current_process' = current_process
      BY <2>3 DEF SsiReply
    <3>2. sender \in Pcb
      <4>1. request \in SsiMessage
        BY DEF TypeOK
      <4> QED BY <4>1, ConstantTypes DEF SsiMessage, sender
    <3> QED BY <3>1, <3>2, InTurnSend, RoundRobinKept
  <2>4. CASE SsiWaitForClock \/ SsiBlock
    <3>1. readyQueue' = RemoveFirst(readyQueue, sender) /\ current_process' = current_process
      BY <2>4 DEF SsiWaitForClock, SsiBlock, OutAnyProcQ
    <3> QED BY <1>1, <3>1, InTurnRemove, RoundRobinKept
  <2>5. CASE SsiCreateFails \/ SsiTerminate \/ SsiLoad \/ SsiStore \/ SsiUnlinkFails \/ SsiCommand
    BY <1>2, <2>5 DEF SsiCreateFails, SsiTerminate, SsiLoad, SsiStore, SsiUnlinkFails,
       SsiCommand, Corrupt
  <2> QED BY <1>4, <2>1, <2>2, <2>3, <2>4, <2>5 DEF Ssi
<1>5. CASE KillProcess
  <2>1. CASE KillUnblocked \/ KillOutClock
    <3>1. /\ readyQueue' \in {readyQueue, RemoveFirst(readyQueue, Dying)}
          /\ current_process' = current_process
      BY <2>1 DEF KillUnblocked, KillOutClock
    <3> QED BY <1>1, <3>1, InTurnRemove, RoundRobinKept
  <2>2. CASE KillFree
    BY <1>1, <1>2, <2>2, RoundRobinScheduler DEF KillFree
  <2>3. CASE KillChild \/ KillSeek \/ KillLoad \/ KillStore \/ KillOutDev
    BY <1>2, <2>3 DEF KillChild, KillSeek, KillLoad, KillStore, KillOutDev
  <2> QED BY <1>5, <2>1, <2>2, <2>3 DEF KillProcess
<1>6. CASE Interrupts
  <2>1. CASE LocalTimerIdle \/ \E d \in Device : DeviceCompletes(d)
    BY <1>2, <2>1 DEF LocalTimerIdle, DeviceCompletes
  <2>2. CASE IntervalTimer
    <3>1. pseudoClockQueue \in Seq(Pcb)
      BY ConstantTypes, SeqMonotonic DEF TypeOK
    <3>2. ToSet(readyQueue) \cap ToSet(pseudoClockQueue) = {}
      BY DEF OnePlace, Apart, Ready, OnClock
    <3>3. /\ readyQueue \o pseudoClockQueue \in Seq(Pcb)
          /\ InTurn(readyQueue \o pseudoClockQueue, readyQueue)
      BY <1>1, <3>1, <3>2, ConcatSet, InTurnConcat
    <3> QED BY <2>2, <3>3, RoundRobinResume DEF IntervalTimer
  <2>3. CASE DeviceInterrupt
    <3> DEFINE requester == devQueue[Interrupting]
               ready == IF requester # NULL THEN Append(readyQueue, requester) ELSE readyQueue
    <3>1. requester \in ClientPcb \cup {NULL} /\ Interrupting \in Device
      BY <2>3, InterruptingFacts DEF DeviceInterrupt, TypeOK
    <3>2. requester # NULL => requester \in Pcb /\ requester \notin ToSet(readyQueue)
      BY <3>1 DEF OnePlace, Apart, Ready, OnDevice, ClientPcb
    <3>3. \E soft : ResumeOrSchedule(ready, soft)
      BY <2>3 DEF DeviceInterrupt
    <3> HIDE DEF requester
    <3>4. ready \in Seq(Pcb) /\ InTurn(ready, readyQueue)
      BY <1>1, <3>2, AppendSet, InTurnAppend
    <3> HIDE DEF ready
    <3> QED BY <3>3, <3>4, RoundRobinResume
  <2> QED BY <1>6, <2>1, <2>2, <2>3 DEF Interrupts
<1>7. CASE UNCHANGED vars
  BY <1>2, <1>7 DEF vars
<1> QED BY <1>3, <1>4, <1>5, <1>6, <1>7 DEF Next

\* Round robin: no process gets ahead of one that waits in the ready queue, neither in
\* it nor by being dispatched, whatever processes do and whichever interrupts come.
THEOREM NobodyOvertakes == Spec => NoOvertaking
<1>1. IInv /\ [Next]_vars => RoundRobin
  <2>1. IInv /\ UNCHANGED vars => RoundRobin
    BY InTurnSame, RoundRobinKept DEF vars
  <2> QED BY <2>1, Intact, RoundRobinStep
<1>2. [][RoundRobin]_vars => NoOvertaking
  BY DEF RoundRobin, NoOvertaking
<1> QED BY <1>1, <1>2, Invariant, PTL DEF Spec
------------------------------------------------------------------------------
(* What holds whatever the clients do: the slots of the devices, and the    *)
(* message pool.                                                            *)

\* A step that leaves the slots, the devices and doIO()'s command as they are.
SlotsKept ==
  /\ UNCHANGED <<devQueue, devState>>
  /\ step' = "command" <=> step = "command"
  /\ step = "command" => UNCHANGED request

LEMMA SlotsKeptKeeps == ASSUME SlotsKept, NEW d PROVE Paired(d) => Paired(d)'
BY DEF SlotsKept, Paired

LEMMA ClientSlots == ASSUME NEW p \in Pcb, Client(p) PROVE SlotsKept
<1>1. CASE Trap(p)
  BY <1>1 DEF SlotsKept, Trap, EnterKill, Runs
<1>2. CASE Request(p) \/ SendToClient(p) \/ StartReceive(p)
  BY <1>2 DEF SlotsKept, Request, SendToClient, StartReceive
<1>3. CASE Receive(p) \/ Preempt(p)
  BY <1>3 DEF SlotsKept, Receive, Preempt
<1> QED BY <1>1, <1>2, <1>3 DEF Client

LEMMA KillSlots == ASSUME KillProcess, ~KillOutDev PROVE SlotsKept
<1>1. CASE KillChild \/ KillUnblocked \/ KillSeek \/ KillLoad
  BY <1>1 DEF SlotsKept, KillChild, KillUnblocked, KillSeek, KillLoad, Killing
<1>2. CASE KillStore \/ KillOutClock
  BY <1>2 DEF SlotsKept, KillStore, KillOutClock, Killing
<1>3. CASE KillFree
  BY <1>3 DEF SlotsKept, KillFree, Killing, AfterKillCall
<1> QED BY <1>1, <1>2, <1>3 DEF KillProcess

LEMMA SsiSlots == ASSUME Ssi, ~SsiBlock, ~SsiCommand PROVE SlotsKept
<1>1. CASE SsiReceive \/ SsiCreate \/ SsiCreateFails \/ SsiReply
  BY <1>1 DEF SlotsKept, SsiReceive, SsiCreate, SsiCreateFails, SsiReply, SsiAt, Serves
<1>2. CASE SsiTerminate
  BY <1>2 DEF SlotsKept, SsiTerminate, EnterKill, AfterKillCall, SsiAt, Serves
<1>3. CASE SsiLoad \/ SsiStore \/ SsiWaitForClock
  BY <1>3 DEF SlotsKept, SsiLoad, SsiStore, SsiWaitForClock, OutAnyProcQ, SsiAt, Serves
<1>4. CASE SsiUnlinkFails
  BY <1>4 DEF SlotsKept, SsiUnlinkFails, Corrupt
<1> QED BY <1>1, <1>2, <1>3, <1>4 DEF Ssi

\* Several devices of the line are pending when the one taken is not.
LEMMA Misattributed ==
  ASSUME TypeOK, Pending # {}, Interrupting \notin Pending
  PROVE  Ambiguous
<1> DEFINE onLine == {d \in Pending : d[1] = PendingLine}
<1>1. \A d \in Device : d[1] \in Nat /\ d = <<d[1], d[2]>>
  <2> SUFFICES ASSUME NEW d \in Device PROVE d[1] \in Nat /\ d = <<d[1], d[2]>>
    OBVIOUS
  <2>1. d \in {3, 4, 6, 7} \X (0..7)
    BY NucleusAssumption DEF DISKINT, FLASHINT, PRNTINT, TERMINT
  <2>2. d[1] \in {3, 4, 6, 7} /\ d = <<d[1], d[2]>>
    BY <2>1
  <2> QED BY <2>2
<1>2. PendingLine \in {d[1] : d \in Pending}
  <2>1. {d[1] : d \in Pending} \subseteq Nat /\ {d[1] : d \in Pending} # {}
    BY <1>1 DEF Pending
  <2> QED BY <2>1, MinNat DEF PendingLine
<1>3. PICK e \in onLine : TRUE
  BY <1>2
<1>4. IsFiniteSet(onLine)
  <2>1. Device \subseteq {3, 4, 6, 7} \X (0..7)
    BY NucleusAssumption DEF DISKINT, FLASHINT, PRNTINT, TERMINT
  <2>2. IsFiniteSet(0..7) /\ IsFiniteSet(3..7)
    <3>1. 0 \in Int /\ 3 \in Int /\ 7 \in Int
      OBVIOUS
    <3> QED BY <3>1, FS_Interval
  <2>3. IsFiniteSet((3..7) \X (0..7))
    BY <2>2, FS_Product
  <2>4. onLine \subseteq (3..7) \X (0..7)
    <3>1. onLine \subseteq {3, 4, 6, 7} \X (0..7)
      BY <2>1 DEF Pending
    <3>2. {3, 4, 6, 7} \subseteq 3..7
      OBVIOUS
    <3> QED BY <3>1, <3>2
  <2> QED BY <2>3, <2>4, FS_Subset
<1>5. CASE Cardinality(onLine) = 1
  <2>1. onLine = {e}
    BY <1>3, <1>4, <1>5, FS_Singleton
  <2>2. (CHOOSE d \in onLine : TRUE) = e
    BY <2>1
  <2>3. Interrupting = <<PendingLine, e[2]>>
    BY <1>5, <2>2 DEF Interrupting, DeviceNumber
  <2>4. Interrupting = e
    BY <1>1, <1>3, <2>3 DEF Pending
  <2> QED BY <1>3, <2>4
<1>6. CASE Cardinality(onLine) # 1
  <2>1. Cardinality(onLine) \in Nat /\ Cardinality(onLine) # 0
    BY <1>3, <1>4, FS_CardinalityType, FS_EmptySet
  <2> QED BY <1>6, <2>1 DEF Ambiguous
<1> QED BY <1>5, <1>6

LEMMA DeviceSlots ==
  ASSUME TypeOK, DeviceInterrupt, NEW d \in Device, Paired(d)
  PROVE  Paired(d)' \/ Parted(d)
<1> DEFINE e == Interrupting
<1>1. e \in Device /\ Pending # {}
  BY InterruptingFacts DEF DeviceInterrupt
<1>2. /\ devState' = Acknowledged(e) /\ devQueue' = [devQueue EXCEPT ![e] = NULL]
      /\ UNCHANGED <<step, request>>
  BY DEF DeviceInterrupt
<1>3. devQueue \in [Device -> ClientPcb \cup {NULL}] /\ devState \in [Device -> DeviceState]
  BY DEF TypeOK
<1> HIDE DEF e
<1>4. CASE d # e
  <2>1. devQueue'[d] = devQueue[d] /\ devState'[d] = devState[d]
    BY <1>1, <1>2, <1>3, <1>4 DEF Acknowledged
  <2> QED BY <1>2, <2>1 DEF Paired
<1>5. CASE d = e /\ d \notin Pending
  BY <1>1, <1>5, Misattributed DEF e, Parted
<1>6. CASE d = e /\ d \in Pending
  <2>1. CASE d[1] = TERMINT /\ devState[d] = "failed"
    BY <2>1 DEF Parted
  <2>2. CASE step = "command" /\ request.arg = d
    BY <1>6, <2>2 DEF Parted
  <2>3. CASE ~(step = "command" /\ request.arg = d) /\ (d[1] # TERMINT \/ devState[d] = "done")
    <3>1. devState'[d] = "idle" /\ devQueue'[d] = NULL
      BY <1>1, <1>2, <1>3, <1>6, <2>3 DEF Acknowledged
    <3> QED BY <1>2, <2>3, <3>1 DEF Paired
  <2> QED BY <1>6, <2>1, <2>2, <2>3 DEF Pending
<1> QED BY <1>4, <1>5, <1>6

\* Whatever the clients do, also when they are killed, share devices and lines, or drive
\* devices that fail: the process that waits for a device is in its slot until the device
\* has finished, unless one of the four things happens that part them.
THEOREM RequesterStays == Spec => RequesterKept
<1>1. ASSUME TypeOK, [Next]_vars, NEW d \in Device, Paired(d) PROVE Paired(d)' \/ Parted(d)
  <2>1. CASE SlotsKept
    BY <1>1, <2>1, SlotsKeptKeeps
  <2>2. CASE UNCHANGED vars
    BY <1>1, <2>2 DEF vars, Paired
  <2>3. CASE DeviceInterrupt
    BY <1>1, <2>3, DeviceSlots
  <2>4. CASE LocalTimerIdle \/ IntervalTimer
    BY <2>1, <2>4 DEF LocalTimerIdle, IntervalTimer, SlotsKept
  <2>5. ASSUME NEW e \in Device, DeviceCompletes(e) PROVE Paired(d)'
    <3>1. /\ devState[e] = "busy" /\ UNCHANGED <<devQueue, step, request>>
          /\ \E r \in {"done", "failed"} : devState' = [devState EXCEPT ![e] = r]
      BY <2>5 DEF DeviceCompletes
    <3>2. devState \in [Device -> DeviceState]
      BY <1>1 DEF TypeOK
    <3>3. devState'[d] # "idle" <=> devState[d] # "idle"
      BY <3>1, <3>2
    <3> QED BY <1>1, <3>1, <3>3 DEF Paired
  <2>6. CASE KillOutDev
    <3>1. /\ step = "outDev" /\ step' = "free" /\ UNCHANGED devState
          /\ devQueue'[d] = IF devQueue[d] = Dying THEN NULL ELSE devQueue[d]
      BY <1>1, <2>6 DEF KillOutDev, Killing
    <3> QED BY <1>1, <3>1 DEF Paired, Parted
  <2>7. CASE SsiBlock
    <3>1. /\ step = "block" /\ step' = "command" /\ UNCHANGED <<devState, request>>
          /\ devQueue' = [devQueue EXCEPT ![request.arg] = sender]
      BY <2>7 DEF SsiBlock, SsiAt
    <3>2. sender # NULL /\ devQueue \in [Device -> ClientPcb \cup {NULL}]
      <4>1. request \in SsiMessage /\ devQueue \in [Device -> ClientPcb \cup {NULL}]
        BY <1>1 DEF TypeOK
      <4>2. request.from \in ClientPcb
        BY <4>1 DEF SsiMessage
      <4> QED BY <4>1, <4>2, ConstantTypes DEF sender
    <3>3. devQueue'[d] = IF d = request.arg THEN sender ELSE devQueue[d]
      BY <1>1, <3>1, <3>2
    <3> QED BY <1>1, <3>1, <3>2, <3>3 DEF Paired
  <2>8. CASE SsiCommand
    <3>1. /\ step = "command" /\ step' = "receive" /\ UNCHANGED devQueue
          /\ devState' = [devState EXCEPT ![request.arg] = "busy"]
      BY <2>8 DEF SsiCommand, SsiAt
    <3>2. devState'[d] = IF d = request.arg THEN "busy" ELSE devState[d]
      BY <1>1, <3>1 DEF TypeOK
    <3> QED BY <1>1, <3>1, <3>2 DEF Paired
  <2> QED BY <1>1, <2>1, <2>2, <2>3, <2>4, <2>5, <2>6, <2>7, <2>8, ClientSlots, KillSlots,
             SsiSlots DEF Next, Interrupts
<1>2. TypeOK /\ [Next]_vars => [\A d \in Device : Paired(d) => Paired(d)' \/ Parted(d)]_vars
  BY <1>1
<1> QED BY <1>2, TypeCorrect, PTL DEF Spec, RequesterKept

LEMMA PcbFinite == IsFiniteSet(Pcb)
<1>1. freeList \in Seq(Pcb) /\ Len(freeList) \in Nat /\ DOMAIN freeList = 1..Len(freeList)
  BY NucleusAssumption, LenProperties
<1>2. ExistsSurjection(1..Len(freeList), ToSet(freeList))
  <2>1. freeList \in [1..Len(freeList) -> ToSet(freeList)]
    BY <1>1 DEF ToSet
  <2>2. \A t \in ToSet(freeList) : \E i \in 1..Len(freeList) : freeList[i] = t
    BY <1>1 DEF ToSet
  <2> QED BY <2>1, <2>2 DEF ExistsSurjection, Surjection
<1>3. IsFiniteSet(ToSet(freeList))
  BY <1>1, <1>2, FS_NatSurjection
<1>4. IsFiniteSet(ToSet(freeList) \cup {ssi_pcb})
  BY <1>3, FS_AddElement
<1>5. IsFiniteSet(ToSet(freeList) \cup {ssi_pcb} \cup {root_pcb})
  BY <1>4, FS_AddElement
<1>6. Pcb = ToSet(freeList) \cup {ssi_pcb} \cup {root_pcb}
  BY NucleusAssumption
<1> QED BY <1>5, <1>6

\* Sets of PCBs that grow and shrink by one.
LEMMA Sizes ==
  ASSUME NEW S, S \subseteq Pcb
  PROVE  /\ IsFiniteSet(S) /\ Cardinality(S) \in Nat
         /\ \A x \in Pcb \ S : Cardinality(S \cup {x}) = Cardinality(S) + 1
         /\ \A x \in S : Cardinality(S \ {x}) = Cardinality(S) - 1
         /\ \A T : T \subseteq S => Cardinality(T) <= Cardinality(S)
         /\ Cardinality(S) = 0 <=> S = {}
<1>1. IsFiniteSet(S) /\ \A T : T \subseteq S => Cardinality(T) <= Cardinality(S)
  BY PcbFinite, FS_Subset
<1>2. \A x \in Pcb \ S : Cardinality(S \cup {x}) = Cardinality(S) + 1
  BY <1>1, FS_AddElement
<1>3. \A x \in S : Cardinality(S \ {x}) = Cardinality(S) - 1
  BY <1>1, FS_RemoveElement
<1>4. Cardinality(S) \in Nat /\ (Cardinality(S) = 0 <=> S = {})
  BY <1>1, FS_CardinalityType, FS_EmptySet
<1> QED BY <1>1, <1>2, <1>3, <1>4

\* The places of the inboxes of the processes of S.
Boxes(f, S) == UNION {{q} \X DOMAIN f[q] : q \in S}

LEMMA BoxesFinite ==
  ASSUME NEW f \in [Pcb -> Seq(Message)], NEW S, S \subseteq Pcb
  PROVE  IsFiniteSet(Boxes(f, S))
<1> DEFINE box == [q \in S |-> {q} \X DOMAIN f[q]]
           all == {{q} \X DOMAIN f[q] : q \in S}
<1>1. box \in Surjection(S, all)
  BY DEF Surjection
<1>2. IsFiniteSet(S)
  BY Sizes
<1>3. IsFiniteSet(all)
  <2> HIDE DEF box, all
  <2> QED BY <1>1, <1>2, FS_Surjection
<1>4. ASSUME NEW T \in all PROVE IsFiniteSet(T)
  <2>1. PICK q \in S : T = {q} \X DOMAIN f[q]
    OBVIOUS
  <2>2. f[q] \in Seq(Message)
    BY <2>1
  <2>3. DOMAIN f[q] = 1..Len(f[q]) /\ Len(f[q]) \in Nat
    BY <2>2, LenProperties
  <2>4. IsFiniteSet(1..Len(f[q]))
    BY <2>3, FS_Interval
  <2>5. IsFiniteSet({q})
    BY FS_Singleton
  <2> QED BY <2>1, <2>3, <2>4, <2>5, FS_Product
<1> HIDE DEF all
<1>5. IsFiniteSet(UNION all)
  BY <1>3, <1>4, FS_UNION
<1> QED BY <1>5 DEF Boxes, all

\* One inbox more.
LEMMA BoxesAdd ==
  ASSUME NEW f \in [Pcb -> Seq(Message)], NEW p \in Pcb
  PROVE  LET rest == Cardinality(Boxes(f, Pcb \ {p})) IN
           rest \in Nat /\ Cardinality(Boxes(f, Pcb)) = rest + Len(f[p])
<1> DEFINE R == Boxes(f, Pcb \ {p})
           B == {p} \X (1..Len(f[p]))
<1>1. f[p] \in Seq(Message)
  OBVIOUS
<1>2. DOMAIN f[p] = 1..Len(f[p]) /\ Len(f[p]) \in Nat
  BY <1>1, LenProperties
<1>3. IsFiniteSet(1..Len(f[p])) /\ Cardinality(1..Len(f[p])) = Len(f[p])
  <2>1. IsFiniteSet(1..Len(f[p]))
        /\ Cardinality(1..Len(f[p])) = IF 1 > Len(f[p]) THEN 0 ELSE Len(f[p]) - 1 + 1
    BY <1>2, FS_Interval
  <2> QED BY <1>2, <2>1
<1>4. IsFiniteSet({p}) /\ Cardinality({p}) = 1
  BY FS_Singleton
<1>5. IsFiniteSet(B) /\ Cardinality(B) = Len(f[p])
  <2> DEFINE P == {p}
             I == 1..Len(f[p])
             n == Len(f[p])
  <2>1. IsFiniteSet(P) /\ IsFiniteSet(I) /\ Cardinality(P) = 1 /\ Cardinality(I) = n /\ n \in Nat
    BY <1>2, <1>3, <1>4
  <2>2. B = P \X I
    OBVIOUS
  <2> HIDE DEF P, I, n, B
  <2>3. IsFiniteSet(P \X I) /\ Cardinality(P \X I) = Cardinality(P) * Cardinality(I)
    BY <2>1, FS_Product
  <2>4. Cardinality(P) * Cardinality(I) = n
    <3>1. 1 * n = n
      BY <2>1
    <3> QED BY <2>1, <3>1
  <2> QED BY <2>2, <2>3, <2>4 DEF n
<1>6. IsFiniteSet(R) /\ Cardinality(R) \in Nat
  BY BoxesFinite, FS_CardinalityType
<1>7. Boxes(f, Pcb) = R \cup B
  BY <1>2 DEF Boxes
<1>8. R \cap B = {}
  BY DEF Boxes
<1> HIDE DEF R, B
<1>9. Cardinality(R \cup B) = Cardinality(R) + Len(f[p])
  <2>1. Cardinality(R \cup B) = Cardinality(R) + Cardinality(B) - Cardinality(R \cap B)
    BY <1>5, <1>6, FS_Union
  <2>2. Cardinality(R \cap B) = 0
    BY <1>8, FS_EmptySet
  <2> QED BY <1>2, <1>5, <1>6, <2>1, <2>2
<1> QED BY <1>6, <1>7, <1>9 DEF R

\* The messages in use change by what the one inbox that changes does.
LEMMA InboxesChange ==
  ASSUME TypeOK, NEW p \in Pcb, msg_inbox' \in [Pcb -> Seq(Message)],
         \A q \in Pcb \ {p} : msg_inbox'[q] = msg_inbox[q]
  PROVE  /\ Cardinality(Inboxes) \in Int
         /\ Cardinality(Inboxes')
              = Cardinality(Inboxes) + Len(msg_inbox'[p]) - Len(msg_inbox[p])
<1> DEFINE f == msg_inbox
           g == msg_inbox'
<1>1. f \in [Pcb -> Seq(Message)] /\ g \in [Pcb -> Seq(Message)]
  BY DEF TypeOK
<1>2. Len(f[p]) \in Nat /\ Len(g[p]) \in Nat
  <2>1. f[p] \in Seq(Message) /\ g[p] \in Seq(Message)
    BY <1>1
  <2> QED BY <2>1, LenProperties
<1>3. Inboxes = Boxes(f, Pcb) /\ Inboxes' = Boxes(g, Pcb)
  BY DEF Inboxes, Boxes
<1>4. Boxes(f, Pcb \ {p}) = Boxes(g, Pcb \ {p})
  BY DEF Boxes
<1> HIDE DEF f, g
<1>5. /\ Cardinality(Boxes(f, Pcb \ {p})) \in Nat
      /\ Cardinality(Boxes(f, Pcb)) = Cardinality(Boxes(f, Pcb \ {p})) + Len(f[p])
  BY <1>1, BoxesAdd
<1>6. Cardinality(Boxes(g, Pcb)) = Cardinality(Boxes(g, Pcb \ {p})) + Len(g[p])
  BY <1>1, BoxesAdd
<1>7. /\ Cardinality(Boxes(f, Pcb)) \in Int
      /\ Cardinality(Boxes(g, Pcb)) = Cardinality(Boxes(f, Pcb)) + Len(g[p]) - Len(f[p])
  <2> DEFINE rest == Cardinality(Boxes(f, Pcb \ {p}))
             l == Len(f[p])
             m == Len(g[p])
  <2>1. /\ Cardinality(Boxes(f, Pcb)) = rest + l /\ Cardinality(Boxes(g, Pcb)) = rest + m
        /\ rest \in Nat /\ l \in Nat /\ m \in Nat
    BY <1>2, <1>4, <1>5, <1>6
  <2> HIDE DEF rest, l, m
  <2>2. rest + l \in Int /\ rest + m = (rest + l) + m - l
    BY <2>1
  <2>3. /\ Cardinality(Boxes(f, Pcb)) \in Int
        /\ Cardinality(Boxes(g, Pcb)) = Cardinality(Boxes(f, Pcb)) + m - l
    BY <2>1, <2>2
  <2> QED BY <2>3 DEF l, m
<1> QED BY <1>3, <1>7 DEF f, g

Lost == UNCHANGED msg_inbox /\ Free # {} /\ Pool' = Pool - 1

\* sendMessage() loses a message when the destination is dead.
LEMMA SendPool ==
  ASSUME TypeOK, NEW m \in Message, NEW dest \in Pcb, Send(m, dest),
         dest = ssi_pcb => m \in SsiMessage
  PROVE  Pool' = Pool \/ Lost
<1>1. msgFree \in Nat /\ msg_inbox \in [Pcb -> Seq(Message)]
  BY DEF TypeOK
<1>2. CASE UNCHANGED msg_inbox /\ ~Delivered(dest)
  <2>1. Inboxes' = Inboxes
    BY <1>2 DEF Inboxes
  <2>2. Cardinality(Inboxes) \in Int
    <3>1. msg_inbox' = msg_inbox
      BY <1>2
    <3> QED BY <1>1, <3>1, InboxesChange
  <2>3. CASE msgFree > 0
    <3>1. msgFree' = msgFree - 1 /\ dest \in Free
      BY <1>2, <2>3 DEF Send, Delivered
    <3> QED BY <1>1, <1>2, <2>1, <2>2, <3>1 DEF Lost, Pool
  <2>4. CASE ~(msgFree > 0)
    <3>1. msgFree' = msgFree
      BY <1>1, <2>4 DEF Send
    <3> QED BY <2>1, <3>1 DEF Pool
  <2> QED BY <2>3, <2>4
<1>3. CASE Delivered(dest) /\ msg_inbox' = [msg_inbox EXCEPT ![dest] = <<m>> \o @]
  <2>1. msg_inbox[dest] \in Seq(Message)
    BY <1>1
  <2>2. <<m>> \o msg_inbox[dest] \in Seq(Message)
        /\ Len(<<m>> \o msg_inbox[dest]) = Len(msg_inbox[dest]) + 1
    BY <2>1, ConsAt
  <2>3. msg_inbox'[dest] = <<m>> \o msg_inbox[dest]
        /\ \A q \in Pcb \ {dest} : msg_inbox'[q] = msg_inbox[q]
    BY <1>1, <1>3
  <2>4. msg_inbox' \in [Pcb -> Seq(Message)]
    BY SendFacts
  <2>5. Cardinality(Inboxes) \in Int
        /\ Cardinality(Inboxes')
             = Cardinality(Inboxes) + Len(msg_inbox'[dest]) - Len(msg_inbox[dest])
    BY <2>3, <2>4, InboxesChange
  <2>6. Len(msg_inbox[dest]) \in Nat
    BY <2>1, LenProperties
  <2>7. msgFree' = msgFree - 1
    BY <1>3 DEF Send, Delivered
  <2>8. Cardinality(Inboxes') = Cardinality(Inboxes) + 1
    BY <2>2, <2>3, <2>5, <2>6
  <2>9. msgFree' + Cardinality(Inboxes') = msgFree + Cardinality(Inboxes)
    <3>1. msgFree \in Int /\ Cardinality(Inboxes) \in Int
      BY <1>1, <2>5
    <3> QED BY <2>7, <2>8, <3>1
  <2>10. Pool' = Pool
    BY <2>9 DEF Pool
  <2> QED BY <2>10
<1> QED BY <1>2, <1>3 DEF Send

\* receiveMessage() gives back the message it takes.
LEMMA TakePool ==
  ASSUME TypeOK, NEW p \in Pcb, NEW i \in 1..Len(msg_inbox[p]), TakeMessage(p, i)
  PROVE  Pool' = Pool
<1>1. msgFree \in Nat /\ msg_inbox \in [Pcb -> Seq(Message)] /\ msgFree' = msgFree + 1
  BY DEF TypeOK, TakeMessage
<1>2. msg_inbox[p] \in Seq(Message)
  BY <1>1
<1>3. Len(RemoveAt(msg_inbox[p], i)) = Len(msg_inbox[p]) - 1 /\ Len(msg_inbox[p]) \in Nat
  BY <1>2, RemoveAtSeq, LenProperties
<1>4. msg_inbox'[p] = RemoveAt(msg_inbox[p], i)
  BY <1>1 DEF TakeMessage
<1>5. msg_inbox' \in [Pcb -> Seq(Message)] /\ \A q \in Pcb \ {p} : msg_inbox'[q] = msg_inbox[q]
  BY TakeFacts
<1>6. Cardinality(Inboxes) \in Int
      /\ Cardinality(Inboxes')
           = Cardinality(Inboxes) + Len(msg_inbox'[p]) - Len(msg_inbox[p])
  BY <1>5, InboxesChange
<1>7. Cardinality(Inboxes') = Cardinality(Inboxes) - 1
  BY <1>3, <1>4, <1>6
<1> QED BY <1>1, <1>6, <1>7 DEF Pool

LEMMA PoolUnchanged == UNCHANGED <<msg_inbox, msgFree>> => Pool' = Pool
BY DEF Pool, Inboxes

LEMMA ClientPool ==
  ASSUME TypeOK, NEW p \in Pcb, Client(p)
  PROVE  Pool' = Pool \/ Lost
<1>1. CASE Request(p)
  <2>1. PICK k \in SsiServices : \E arg \in Args(p, k) : Send(Msg(p, k, arg), ssi_pcb)
    BY <1>1 DEF Request
  <2>2. PICK arg \in Args(p, k) : Send(Msg(p, k, arg), ssi_pcb)
    BY <2>1
  <2>3. p \in ClientPcb
    BY <1>1 DEF Request, Runs, ClientPcb
  <2>4. Msg(p, k, arg) \in SsiMessage
    BY <2>2, <2>3, NucleusAssumption DEF Msg, SsiMessage, SsiServices, Args, ClientPcb
  <2> QED BY <2>2, <2>4, SendPool, ConstantTypes
<1>2. CASE SendToClient(p)
  <2>1. PICK dest \in Pcb \ {ssi_pcb, p} : Send(Msg(p, "data", NULL), dest)
    BY <1>2 DEF SendToClient
  <2>2. Msg(p, "data", NULL) \in Message
    BY DEF Msg, Message
  <2> QED BY <2>1, <2>2, SendPool
<1>3. CASE StartReceive(p) \/ Preempt(p) \/ Trap(p)
  BY <1>3, PoolUnchanged DEF StartReceive, Preempt, Trap
<1>4. CASE Receive(p)
  <2> DEFINE i == FirstMatch(p, awaiting[p])
  <2>1. i \in 0..Len(msg_inbox[p])
    BY FirstMatchFacts
  <2>2. Len(msg_inbox[p]) \in Nat
    <3>1. msg_inbox[p] \in Seq(Message)
      BY DEF TypeOK
    <3> QED BY <3>1, LenProperties
  <2>3. (i > 0 /\ TakeMessage(p, i)) \/ UNCHANGED <<msg_inbox, msgFree>>
    BY <1>4 DEF Receive
  <2> HIDE DEF i
  <2>4. CASE i > 0 /\ TakeMessage(p, i)
    <3>1. i \in 1..Len(msg_inbox[p])
      BY <2>1, <2>2, <2>4
    <3> QED BY <2>4, <3>1, TakePool
  <2> QED BY <2>3, <2>4, PoolUnchanged
<1> QED BY <1>1, <1>2, <1>3, <1>4 DEF Client

LEMMA SsiPool ==
  ASSUME TypeOK, Ssi
  PROVE  \/ Pool' = Pool \/ Lost
         \/ Serves("create") /\ Pool' = Pool - Len(msg_inbox[Head(pcbFree)])
<1>1. CASE SsiReceive
  <2> DEFINE i == FirstMatch(ssi_pcb, NULL)
  <2>1. i \in 0..Len(msg_inbox[ssi_pcb])
    BY FirstMatchFacts, ConstantTypes
  <2>2. Len(msg_inbox[ssi_pcb]) \in Nat
    <3>1. msg_inbox[ssi_pcb] \in Seq(SsiMessage)
      BY DEF TypeOK
    <3> QED BY <3>1, LenProperties
  <2>3. (i > 0 /\ TakeMessage(ssi_pcb, i)) \/ UNCHANGED <<msg_inbox, msgFree>>
    BY <1>1 DEF SsiReceive
  <2> HIDE DEF i
  <2>4. CASE i > 0 /\ TakeMessage(ssi_pcb, i)
    <3>1. i \in 1..Len(msg_inbox[ssi_pcb])
      BY <2>1, <2>2, <2>4
    <3> QED BY <2>4, <3>1, TakePool, ConstantTypes
  <2> QED BY <2>3, <2>4, PoolUnchanged
<1>2. CASE SsiCreate
  <2> DEFINE p == Head(pcbFree)
  <2>1. pcbFree \in Seq(ClientPcb) /\ pcbFree # <<>>
    BY <1>2 DEF SsiCreate, TypeOK
  <2>2. p \in Pcb
    BY <2>1, HeadTailSet, ConstantTypes
  <2>3. /\ Serves("create") /\ msgFree' = msgFree
        /\ msg_inbox' = [msg_inbox EXCEPT ![p] = <<>>]
    BY <1>2 DEF SsiCreate, AllocPcb
  <2> HIDE DEF p
  <2>4. msg_inbox \in [Pcb -> Seq(Message)] /\ msgFree \in Nat
    BY DEF TypeOK
  <2>5. /\ msg_inbox' \in [Pcb -> Seq(Message)] /\ msg_inbox'[p] = <<>>
        /\ \A q \in Pcb \ {p} : msg_inbox'[q] = msg_inbox[q]
    <3>1. <<>> \in Seq(Message)
      OBVIOUS
    <3> QED BY <2>2, <2>3, <2>4, <3>1
  <2>6. Cardinality(Inboxes) \in Int
        /\ Cardinality(Inboxes')
             = Cardinality(Inboxes) + Len(msg_inbox'[p]) - Len(msg_inbox[p])
    BY <2>2, <2>5, InboxesChange
  <2>7. Len(msg_inbox'[p]) = 0 /\ Len(msg_inbox[p]) \in Nat
    <3>1. msg_inbox[p] \in Seq(Message)
      BY <2>2, <2>4
    <3> QED BY <2>5, <3>1, LenProperties
  <2>8. Cardinality(Inboxes') = Cardinality(Inboxes) - Len(msg_inbox[p])
    BY <2>6, <2>7
  <2>9. Pool' = Pool - Len(msg_inbox[p])
    BY <2>3, <2>4, <2>6, <2>7, <2>8 DEF Pool
  <2> QED BY <2>3, <2>9 DEF p
<1>3. CASE SsiReply
  <2>1. Send(Msg(ssi_pcb, "answer", NULL), sender)
    BY <1>3 DEF SsiReply
  <2>2. Msg(ssi_pcb, "answer", NULL) \in Message /\ sender \in ClientPcb
    BY ConstantTypes DEF Msg, Message, TypeOK, SsiMessage, sender
  <2> QED BY <2>1, <2>2, SendPool DEF ClientPcb
<1>4. CASE SsiCreateFails \/ SsiTerminate \/ SsiLoad \/ SsiStore \/ SsiWaitForClock \/ SsiBlock
           \/ SsiUnlinkFails \/ SsiCommand
  BY <1>4, PoolUnchanged DEF SsiCreateFails, SsiTerminate, SsiLoad, SsiStore, SsiWaitForClock,
     SsiBlock, SsiUnlinkFails, Corrupt, SsiCommand
<1> QED BY <1>1, <1>2, <1>3, <1>4 DEF Ssi

\* However many processes send, receive, are killed and are made: a message is lost only
\* when it is sent to a dead process, or with the inbox of a PCB that is made a process
\* again; every other operation keeps the pool and the inboxes in balance.
THEOREM PoolKept == Spec => MessagesConserved
<1>1. ASSUME TypeOK, [Next]_vars
      PROVE  \/ Pool' = Pool \/ Lost
             \/ Serves("create") /\ Pool' = Pool - Len(msg_inbox[Head(pcbFree)])
  <2>1. CASE KillProcess
    BY <2>1, PoolUnchanged DEF KillProcess, KillChild, KillUnblocked, KillSeek, KillLoad,
       KillStore, KillOutClock, KillOutDev, KillFree
  <2>2. CASE LocalTimerIdle \/ IntervalTimer \/ \E d \in Device : DeviceCompletes(d)
    BY <2>2, PoolUnchanged DEF LocalTimerIdle, IntervalTimer, DeviceCompletes
  <2>3. CASE DeviceInterrupt
    <3> DEFINE requester == devQueue[Interrupting]
    <3>1. requester \in ClientPcb \cup {NULL}
      BY <1>1, <2>3, InterruptingFacts DEF DeviceInterrupt, TypeOK
    <3>2. \/ requester # NULL /\ Send(Msg(ssi_pcb, "answer", NULL), requester)
          \/ UNCHANGED <<msg_inbox, msgFree>>
      BY <2>3 DEF DeviceInterrupt
    <3> HIDE DEF requester
    <3>3. Msg(ssi_pcb, "answer", NULL) \in Message
      BY ConstantTypes DEF Msg, Message
    <3>4. CASE requester # NULL /\ Send(Msg(ssi_pcb, "answer", NULL), requester)
      BY <1>1, <3>1, <3>3, <3>4, SendPool DEF ClientPcb
    <3> QED BY <3>2, <3>4, PoolUnchanged
  <2>4. CASE UNCHANGED vars
    BY <2>4, PoolUnchanged DEF vars
  <2> QED BY <1>1, <2>1, <2>2, <2>3, <2>4, ClientPool, SsiPool DEF Next, Interrupts
<1>2. TypeOK /\ [Next]_vars
      => [\/ Pool' = Pool
          \/ UNCHANGED msg_inbox /\ Free # {} /\ Pool' = Pool - 1
          \/ Serves("create") /\ Pool' = Pool - Len(msg_inbox[Head(pcbFree)])]_vars
  BY <1>1 DEF Lost
<1> QED BY <1>2, TypeCorrect, PTL DEF Spec, MessagesConserved

------------------------------------------------------------------------------
(* What holds of clients that get on with each other: the properties of the *)
(* runs that let the SSI answer every request.                              *)

\* A client terminates only itself, and childless; clients send each other no messages,
\* so that the messages suffice for one request each; no more processes are made than
\* there are PCBs; a device has one user and its line to itself, and a terminal does
\* not fail.  Each has a run that shows what goes wrong without it.
Peaceful ==
  /\ Orderly
  /\ Budget["send"] = 0 /\ "send" \notin Endless
  /\ Budget["create"] <= Len(freeList) /\ "create" \notin Endless
  /\ Cardinality(ClientPcb) <= MaxMessages
  /\ \A p, q \in Pcb : \A d \in drives[p], e \in drives[q] : d[1] = e[1] => p = q /\ d = e
  /\ \A d \in Faulty : d[1] # TERMINT

\* The only message a client gets.
Answer == Msg(ssi_pcb, "answer", NULL)

\* Who has a request in the inbox of the SSI, who is served, who has an answer, and who
\* waits for one.
Mailed == ToSet(msg_inbox[ssi_pcb])
Askers == {m.from : m \in Mailed}
InService == {p \in ClientPcb : Served(p)}
Holders == {p \in ClientPcb : msg_inbox[p] # <<>>}
Waiting == {p \in ClientPcb \ Free : awaiting[p] = ssi_pcb}

Letters ==
  /\ IsInjective(msg_inbox[ssi_pcb])
  /\ \A m, n \in Mailed : m.from = n.from => m = n
  /\ \A p \in ClientPcb : msg_inbox[p] \in {<<>>, <<Answer>>}

\* Who waits for the SSI has one thing outstanding there, and nobody else has any.
OneEach ==
  /\ Waiting = Askers \cup InService \cup OnDevice \cup Holders
  /\ Askers \cap (InService \cup OnDevice \cup Holders) = {}
  /\ InService \cap (OnDevice \cup Holders) = {}
  /\ OnDevice \cap Holders = {}

\* Everyone is somewhere, and on the clock is nobody whose request is yet to be served.
Places ==
  /\ \A p \in Pcb : p \in Linked \cup OnDevice \cup Running \/ (step = "free" /\ p = Dying)
  /\ OnClock \cap Askers = {}
  /\ \A p \in OnClock \cap InService : request.op = "clock" /\ step \in {"inc", "store", "reply"}

\* Where the SSI is in the service it gives.
Serving ==
  /\ step \in SsiSteps \ {"receive"} => current_process = ssi_pcb
  /\ step = "inc" => request.op = "clock"
  /\ step = "store" => request.op \in {"clock", "doio"}
  /\ step \in {"block", "command"} => request.op = "doio"
  /\ step = "reply" => request.op \in {"clock", "create"}

\* killProcess() kills one process without children, that the SSI serves or that runs, and
\* frees it off every list.
Killed ==
  step \in KillSteps =>
    /\ step \in {"kill", "free"} /\ Len(doomed) = 1 /\ p_child[Dying] = {}
    /\ step = "free" => Dying \notin Linked
    /\ current_process = ssi_pcb => Dying = sender /\ request.op \in {"terminate", "invalid"}
    /\ current_process # ssi_pcb => Dying = current_process /\ awaiting[Dying] = Computing

\* Requests are for a device of the sender, or to end a childless sender.
Proper(m) ==
  /\ m.op = "doio" => m.arg \in drives[m.from]
  /\ m.op = "terminate" => m.arg = NULL
  /\ m.op \in {"terminate", "invalid"} => p_child[m.from] = {}
Requests ==
  /\ \A m \in Mailed : Proper(m)
  /\ step # "receive" /\ current_process = ssi_pcb => Proper(request)

\* No orphans: a PCB is given back without children.
Family ==
  /\ \A p \in Pcb : p_parent[p] # NULL => p \in p_child[p_parent[p]]
  /\ \A p \in Free : p_child[p] = {}

\* A device that works or interrupts has its user in its slot, and is idle until doIO()
\* commands it.
Devices ==
  /\ \A d \in Device : /\ devQueue[d] # NULL => d \in drives[devQueue[d]]
                       /\ devState[d] # "idle" => devQueue[d] # NULL
                       /\ devState[d] = "failed" => d \in Faulty
  /\ step = "command" => devQueue[request.arg] = sender /\ devState[request.arg] = "idle"

\* The counters: processes; messages, of which a client has one at most; PCBs for the
\* requests to create a process; and softBlockCount, which may be too high, as an interrupt
\* between its load and its store is overwritten, but never too low.
Creators ==
  {p \in ClientPcb : \/ \E m \in Mailed : m.from = p /\ m.op = "create"
                     \/ (step = "serve" /\ request.op = "create" /\ p = sender)}
Coming ==
  IF request.op = "clock" /\ step \in {"inc", "store"} THEN 1
  ELSE IF step = "block" THEN -1 ELSE 0
Blocked == Len(pseudoClockQueue) + Cardinality(OnDevice)
ProcsOK == process_count + Len(pcbFree) = Cardinality(Pcb)
PoolOK == msgFree + Cardinality(Askers \cup Holders) = MaxMessages
CreateOK == Cardinality(Creators) + budget["create"] <= Len(pcbFree) /\ budget["send"] = 0
SoftOK ==
  /\ Blocked <= softBlockCount + Coming
  /\ step = "store" => Blocked <= loaded + Coming
Counting == ProcsOK /\ PoolOK /\ CreateOK /\ SoftOK

\* How the machine stops.
Ends ==
  /\ machine # "corrupt"
  /\ machine = "halt" => process_count = 1
  /\ machine = "panic" => softBlockCount = 0 /\ step = "receive"

PInv ==
  /\ WakeInv /\ Letters /\ OneEach /\ Places /\ Serving /\ Killed /\ Requests /\ Family
  /\ Devices /\ Counting /\ Ends

\* Types of the sets, and who is served.
LEMMA PeaceTypes ==
  ASSUME TypeOK
  PROVE  /\ Mailed \subseteq SsiMessage /\ Askers \subseteq ClientPcb
         /\ InService \subseteq ClientPcb /\ OnDevice \subseteq ClientPcb
         /\ Holders \subseteq ClientPcb /\ Waiting \subseteq ClientPcb
         /\ Creators \subseteq ClientPcb /\ OnClock \subseteq ClientPcb /\ Free \subseteq ClientPcb
         /\ sender \in ClientPcb /\ ClientPcb \subseteq Pcb
         /\ ssi_pcb \notin ClientPcb /\ NULL \notin Pcb /\ ssi_pcb \in Pcb
         /\ ssi_pcb # NULL /\ Computing # ssi_pcb
         /\ InService = IF current_process = ssi_pcb /\ step \notin {"receive", "command"}
                        THEN {sender} ELSE {}
<1>1. Mailed \subseteq SsiMessage
  BY InSet DEF TypeOK, Mailed
<1>2. \A m \in SsiMessage : m.from \in ClientPcb
  BY DEF SsiMessage
<1>3. Askers \subseteq ClientPcb
  BY <1>1, <1>2 DEF Askers
<1>4. sender \in ClientPcb
  BY <1>2 DEF TypeOK, sender
<1>5. OnDevice \subseteq ClientPcb
  BY DEF TypeOK, OnDevice
<1>6. OnClock \subseteq ClientPcb /\ Free \subseteq ClientPcb
  BY InSet DEF TypeOK, OnClock, Free
<1>7. InService = IF current_process = ssi_pcb /\ step \notin {"receive", "command"}
                  THEN {sender} ELSE {}
  BY <1>4 DEF InService, Served, sender
<1> QED BY <1>1, <1>3, <1>4, <1>5, <1>6, <1>7, ConstantTypes
        DEF InService, Holders, Waiting, Creators, ClientPcb

\* The same of the next state.
LEMMA PeaceTypesNext ==
  ASSUME TypeOK'
  PROVE  /\ OnDevice' \subseteq ClientPcb
         /\ InService' = IF current_process' = ssi_pcb /\ step' \notin {"receive", "command"}
                         THEN {sender'} ELSE {}
<1>1. \A m \in SsiMessage : m.from \in ClientPcb
  BY DEF SsiMessage
<1>2. sender' \in ClientPcb
  BY <1>1 DEF TypeOK, sender
<1>3. OnDevice' \subseteq ClientPcb
  BY DEF TypeOK, OnDevice
<1> QED BY <1>2, <1>3 DEF InService, Served, sender

------------------------------------------------------------------------------
(* What happens to the inboxes.                                             *)

LEMMA MailSame ==
  ASSUME Letters, UNCHANGED msg_inbox
  PROVE  Letters' /\ Mailed' = Mailed /\ Askers' = Askers /\ Holders' = Holders
BY DEF Letters, Mailed, Askers, Holders

\* A request arrives.
LEMMA MailAsk ==
  ASSUME TypeOK, Letters, NEW m \in SsiMessage, m.from \notin Askers,
         msg_inbox' = [msg_inbox EXCEPT ![ssi_pcb] = <<m>> \o @]
  PROVE  /\ Letters' /\ Mailed' = Mailed \cup {m}
         /\ Askers' = Askers \cup {m.from} /\ Holders' = Holders
<1>1. msg_inbox \in [Pcb -> Seq(Message)] /\ msg_inbox[ssi_pcb] \in Seq(SsiMessage)
  BY DEF TypeOK
<1>2. /\ msg_inbox'[ssi_pcb] = <<m>> \o msg_inbox[ssi_pcb]
      /\ \A p \in ClientPcb : msg_inbox'[p] = msg_inbox[p]
  BY <1>1, ConstantTypes DEF ClientPcb
<1>3. m \notin Mailed
  BY DEF Askers
<1>4. Mailed' = Mailed \cup {m} /\ IsInjective(msg_inbox'[ssi_pcb])
  BY <1>1, <1>2, <1>3, ConsSet DEF Mailed, Letters
<1>5. \A n \in Mailed : n.from # m.from
  BY DEF Askers
<1>6. Letters'
  BY <1>2, <1>4, <1>5, ConstantTypes DEF Letters
<1> QED BY <1>2, <1>4, <1>6 DEF Askers, Holders

\* The SSI takes a request.
LEMMA MailTake ==
  ASSUME TypeOK, Letters, NEW i \in 1..Len(msg_inbox[ssi_pcb]), TakeMessage(ssi_pcb, i)
  PROVE  LET m == msg_inbox[ssi_pcb][i]
         IN /\ m \in Mailed /\ Letters' /\ Mailed' = Mailed \ {m}
            /\ Askers' = Askers \ {m.from} /\ Holders' = Holders
<1> DEFINE m == msg_inbox[ssi_pcb][i]
<1>1. msg_inbox \in [Pcb -> Seq(Message)] /\ msg_inbox[ssi_pcb] \in Seq(SsiMessage)
  BY DEF TypeOK
<1>2. /\ msg_inbox'[ssi_pcb] = RemoveAt(msg_inbox[ssi_pcb], i)
      /\ \A p \in ClientPcb : msg_inbox'[p] = msg_inbox[p]
  BY <1>1, ConstantTypes DEF ClientPcb, TakeMessage
<1>3. m \in Mailed
  BY <1>1, InSet DEF Mailed
<1>4. Mailed' = Mailed \ {m} /\ IsInjective(msg_inbox'[ssi_pcb])
  <2>1. /\ ToSet(RemoveAt(msg_inbox[ssi_pcb], i)) \subseteq Mailed
        /\ Mailed \subseteq ToSet(RemoveAt(msg_inbox[ssi_pcb], i)) \cup {m}
        /\ IsInjective(RemoveAt(msg_inbox[ssi_pcb], i))
        /\ m \notin ToSet(RemoveAt(msg_inbox[ssi_pcb], i))
    BY <1>1, RemoveAtSet DEF Mailed, Letters
  <2> QED BY <1>2, <2>1 DEF Mailed
<1> HIDE DEF m
<1>5. \A n \in Mailed : n.from = m.from => n = m
  BY <1>3 DEF Letters
<1>6. Letters'
  BY <1>2, <1>4 DEF Letters
<1>7. Askers' = Askers \ {m.from}
  BY <1>3, <1>4, <1>5 DEF Askers
<1> QED BY <1>2, <1>3, <1>4, <1>6, <1>7 DEF Holders, m

\* An answer arrives.
LEMMA MailAnswer ==
  ASSUME TypeOK, Letters, NEW q \in ClientPcb, q \notin Holders,
         msg_inbox' = [msg_inbox EXCEPT ![q] = <<Answer>> \o @]
  PROVE  /\ Letters' /\ Mailed' = Mailed /\ Askers' = Askers /\ Holders' = Holders \cup {q}
<1>1. msg_inbox \in [Pcb -> Seq(Message)] /\ msg_inbox[q] = <<>>
  BY DEF TypeOK, Holders
<1>2. \A p \in Pcb \ {q} : msg_inbox'[p] = msg_inbox[p]
  BY <1>1
<1>3. msg_inbox'[q] = <<Answer>>
  <2>1. <<Answer>> \o <<>> = <<Answer>>
    OBVIOUS
  <2> QED BY <1>1, <2>1, ConstantTypes
<1>4. msg_inbox'[ssi_pcb] = msg_inbox[ssi_pcb] /\ <<Answer>> # <<>>
  BY <1>2, ConstantTypes DEF ClientPcb
<1>5. Mailed' = Mailed /\ Askers' = Askers
  BY <1>4 DEF Mailed, Askers
<1>6. Letters'
  <2>1. \A p \in ClientPcb : msg_inbox'[p] \in {<<>>, <<Answer>>}
    BY <1>2, <1>3, ConstantTypes DEF Letters
  <2> QED BY <1>4, <1>5, <2>1 DEF Letters, Answer, Msg
<1>7. Holders' = Holders \cup {q}
  BY <1>2, <1>3, <1>4, ConstantTypes DEF Holders
<1> QED BY <1>5, <1>6, <1>7

\* A client takes its answer.
LEMMA MailReceive ==
  ASSUME TypeOK, Letters, NEW q \in ClientPcb, NEW i \in 1..Len(msg_inbox[q]),
         TakeMessage(q, i)
  PROVE  /\ Letters' /\ Mailed' = Mailed /\ Askers' = Askers
         /\ q \in Holders /\ Holders' = Holders \ {q}
<1>1. msg_inbox \in [Pcb -> Seq(Message)] /\ q \in Pcb /\ msg_inbox[q] \in Seq(Message)
  BY ConstantTypes DEF TypeOK
<1>2. Len(msg_inbox[q]) = 1 /\ q \in Holders
  <2>1. msg_inbox[q] \in {<<>>, <<Answer>>} /\ Len(<<>>) = 0 /\ Len(<<Answer>>) = 1
    BY DEF Letters
  <2>2. msg_inbox[q] # <<>>
    BY <2>1
  <2> QED BY <2>1, <2>2 DEF Holders
<1>3. msg_inbox'[q] = RemoveAt(msg_inbox[q], i)
      /\ \A p \in Pcb \ {q} : msg_inbox'[p] = msg_inbox[p]
  BY <1>1 DEF TakeMessage
<1>4. msg_inbox'[q] = <<>>
  <2>1. /\ RemoveAt(msg_inbox[q], i) \in Seq(Message)
        /\ Len(RemoveAt(msg_inbox[q], i)) = Len(msg_inbox[q]) - 1
    BY <1>1, RemoveAtSeq
  <2>2. Len(msg_inbox[q]) - 1 = 0
    BY <1>2
  <2> QED BY <1>3, <2>1, <2>2, EmptySeq
<1>5. msg_inbox'[ssi_pcb] = msg_inbox[ssi_pcb]
  BY <1>3, ConstantTypes DEF ClientPcb
<1>6. Mailed' = Mailed /\ Askers' = Askers
  BY <1>5 DEF Mailed, Askers
<1>7. Letters'
  <2>1. \A p \in ClientPcb : msg_inbox'[p] \in {<<>>, <<Answer>>}
    BY <1>3, <1>4, ConstantTypes DEF Letters
  <2> QED BY <1>5, <1>6, <2>1 DEF Letters, Answer, Msg
<1>8. Holders' = Holders \ {q}
  BY <1>3, <1>4, ConstantTypes DEF Holders
<1> QED BY <1>2, <1>6, <1>7, <1>8
------------------------------------------------------------------------------
(* Parts of PInv that a step does not disturb.                              *)

LEMMA PeaceFacts ==
  ASSUME PInv
  PROVE  /\ IInv /\ TypeOK /\ OnePlace /\ NoDuplicates /\ Apart /\ TreeSound /\ KillSound
         /\ ProcsOK /\ PoolOK /\ CreateOK /\ SoftOK
         /\ Letters /\ OneEach /\ Places /\ Serving /\ Killed /\ Requests /\ Family
         /\ Devices /\ Ends
BY DEF PInv, WakeInv, IInv, OnePlace, Counting, Ends

\* A client that has nothing in an inbox finds a message in the pool.
LEMMA PoolHolds ==
  ASSUME Peaceful, PInv, NEW p \in ClientPcb, p \notin Askers \cup Holders
  PROVE  msgFree \in Nat /\ msgFree > 0
<1> DEFINE W == Askers \cup Holders
<1>1. W \subseteq ClientPcb \ {p} /\ ClientPcb \subseteq Pcb /\ msgFree \in Nat
  BY PeaceFacts, PeaceTypes DEF TypeOK
<1>2. /\ Cardinality(ClientPcb \ {p}) = Cardinality(ClientPcb) - 1
      /\ Cardinality(ClientPcb) \in Nat
  BY <1>1, Sizes
<1>3. Cardinality(W) <= Cardinality(ClientPcb \ {p}) /\ Cardinality(W) \in Nat
  BY <1>1, Sizes
<1>4. msgFree + Cardinality(W) = MaxMessages /\ Cardinality(ClientPcb) <= MaxMessages
  BY PeaceFacts DEF PoolOK, Peaceful
<1> HIDE DEF W
<1> QED BY <1>1, <1>2, <1>3, <1>4, NucleusAssumption

LEMMA PoolSame ==
  ASSUME PoolOK, Askers' = Askers, Holders' = Holders, msgFree' = msgFree
  PROVE  PoolOK'
BY DEF PoolOK

LEMMA CreatorsSame ==
  ASSUME Mailed' = Mailed, step' = "serve" => step = "serve" /\ request' = request
  PROVE  Creators' \subseteq Creators
BY DEF Creators, sender

LEMMA CreateSame ==
  ASSUME TypeOK, CreateOK, Creators' \subseteq Creators, Len(pcbFree') >= Len(pcbFree),
         pcbFree' \in Seq(ClientPcb), budget' \in [ClientOps -> Nat],
         \A k \in ClientOps : budget'[k] <= budget[k]
  PROVE  CreateOK'
<1>1. /\ budget["create"] \in Nat /\ budget'["create"] \in Nat /\ budget'["create"] <= budget["create"]
      /\ budget'["send"] \in Nat /\ budget'["send"] <= 0
  BY DEF TypeOK, ClientOps, SsiServices, CreateOK
<1>2. /\ Cardinality(Creators') <= Cardinality(Creators)
      /\ Cardinality(Creators) \in Nat /\ Cardinality(Creators') \in Nat
  <2>1. Creators \subseteq Pcb
    BY PeaceTypes
  <2> QED BY <2>1, Sizes
<1>3. Len(pcbFree) \in Nat /\ Len(pcbFree') \in Nat
  BY LenProperties DEF TypeOK
<1>4. Cardinality(Creators)' = Cardinality(Creators')
  OBVIOUS
<1> QED BY <1>1, <1>2, <1>3, <1>4 DEF CreateOK

LEMMA SoftSame ==
  ASSUME SoftOK, UNCHANGED <<pseudoClockQueue, devQueue, softBlockCount, loaded>>,
         Coming' = Coming, step' = "store" => step = "store"
  PROVE  SoftOK'
BY DEF SoftOK, Blocked, OnDevice

LEMMA SpendFacts ==
  ASSUME TypeOK, NEW k \in ClientOps, Spend(k)
  PROVE  /\ budget' \in [ClientOps -> Nat] /\ \A j \in ClientOps : budget'[j] <= budget[j]
         /\ k \notin Endless => budget[k] > 0 /\ budget'[k] = budget[k] - 1
<1>1. budget \in [ClientOps -> Nat]
  BY DEF TypeOK
<1>2. CASE budget[k] > 0 /\ budget' = [budget EXCEPT ![k] = @ - 1]
  <2>1. budget[k] \in Nat /\ budget[k] - 1 \in Nat
    BY <1>1, <1>2
  <2>2. \A j \in ClientOps : budget'[j] \in Nat /\ budget'[j] <= budget[j]
    BY <1>1, <1>2, <2>1
  <2> QED BY <1>1, <1>2, <2>1, <2>2
<1>3. CASE k \in Endless /\ UNCHANGED budget
  BY <1>1, <1>3
<1> QED BY <1>2, <1>3 DEF Spend

\* A client that runs.
LEMMA ClientFacts ==
  ASSUME PInv, NEW p \in Pcb, Runs(p)
  PROVE  /\ p \in ClientPcb /\ Running = {p} /\ current_process = p /\ p # ssi_pcb
         /\ step = "receive" /\ machine = "on" /\ InService = {} /\ p \notin Free
         /\ p \notin Ready \cup receiveMessageQueue \cup OnClock \cup OnDevice
         /\ awaiting[p] # ssi_pcb => p \notin Waiting /\ p \notin Askers \cup Holders
<1>1. current_process = p /\ p # ssi_pcb /\ step = "receive" /\ machine = "on"
  BY DEF Runs
<1>2. p \in ClientPcb /\ Running = {p}
  BY <1>1, ConstantTypes DEF ClientPcb, Running
<1>3. InService = {}
  BY <1>1, PeaceFacts, PeaceTypes
<1>4. p \notin Free /\ p \notin Ready \cup receiveMessageQueue \cup OnClock \cup OnDevice
  BY <1>2, PeaceFacts DEF Apart
<1>5. awaiting[p] # ssi_pcb => p \notin Waiting /\ p \notin Askers \cup Holders
  BY PeaceFacts DEF Waiting, OneEach
<1> QED BY <1>1, <1>2, <1>3, <1>4, <1>5

\* What does not concern the step of a client, and that of an interrupt between two
\* services.
LEMMA OutsideService ==
  ASSUME PInv, TypeOK', step = "receive", UNCHANGED <<step, pcbFree, devQueue, tree, devState>>
  PROVE  /\ Serving' /\ Killed' /\ Family' /\ Devices' /\ InService' = {} /\ InService = {}
         /\ OnDevice' = OnDevice /\ Free' = Free /\ Coming = 0 /\ Coming' = 0
<1>1. Serving' /\ Killed' /\ Coming = 0 /\ Coming' = 0
  BY DEF Serving, Killed, KillSteps, Coming
<1>2. Family' /\ Devices'
  BY PeaceFacts DEF Family, Devices, Free
<1>3. InService' = {} /\ InService = {}
  BY PeaceFacts, PeaceTypes, PeaceTypesNext
<1> QED BY <1>1, <1>2, <1>3 DEF OnDevice, Free

\* scheduler() ends the machine as it is said to.
LEMMA SchedulerEnds ==
  ASSUME NEW ready \in Seq(Pcb), NEW procs \in Int, NEW soft \in Int, NEW plt \in BOOLEAN,
         Scheduler(ready, procs, soft, plt)
  PROVE  /\ machine' # "corrupt" /\ (machine' = "halt" => procs = 1)
         /\ machine' = "panic" => soft = 0
BY DEF Scheduler
------------------------------------------------------------------------------
(* The clients.                                                             *)

LEMMA PeaceRequest ==
  ASSUME Peaceful, PInv, WakeInv', NEW p \in Pcb, Request(p)
  PROVE  PInv'
<1>1. /\ TypeOK /\ TypeOK' /\ OnePlace /\ Letters /\ OneEach /\ Places /\ Requests
      /\ ProcsOK /\ PoolOK /\ CreateOK /\ SoftOK /\ Ends
  BY PeaceFacts DEF WakeInv, IInv
<1>2. Runs(p) /\ awaiting[p] = Computing
  BY DEF Request
<1>3. /\ p \in ClientPcb /\ Running = {p} /\ step = "receive" /\ InService = {}
      /\ p \notin Free /\ p \notin OnClock /\ p \notin Askers /\ p \notin Holders
  BY <1>2, ClientFacts, ConstantTypes
<1>4. PICK k \in SsiServices : \E arg \in Args(p, k) :
        /\ Spend(k) /\ Send(Msg(p, k, arg), ssi_pcb)
        /\ Orderly /\ k \in {"terminate", "invalid"} => p_child[p] = {}
  BY DEF Request
<1>5. PICK arg \in Args(p, k) :
        /\ Spend(k) /\ Send(Msg(p, k, arg), ssi_pcb)
        /\ Orderly /\ k \in {"terminate", "invalid"} => p_child[p] = {}
  BY <1>4
<1> DEFINE m == Msg(p, k, arg)
<1>6. m \in SsiMessage
  BY <1>3, <1>5, NucleusAssumption DEF Msg, SsiMessage, SsiServices, Args, ClientPcb
<1>7. m.from = p /\ m.op = k /\ m.arg = arg
  BY DEF Msg
<1>8. Proper(m)
  <2>1. (k = "doio" => arg \in drives[p]) /\ (k = "terminate" => arg = NULL)
    BY <1>5 DEF Args, Peaceful
  <2> QED BY <1>5, <1>7, <2>1 DEF Proper, Peaceful
<1> HIDE DEF m
<1>9. UNCHANGED <<cpu, pcbFree, pseudoClockQueue, devQueue, counts, tree, ssi, devState>>
      /\ awaiting' = [awaiting EXCEPT ![p] = ssi_pcb]
      /\ readyQueue' = ReadyAfterSend(ssi_pcb)
  BY DEF Request
<1>10. /\ msgFree > 0 /\ msgFree \in Nat /\ msgFree' = msgFree - 1
       /\ receiveMessageQueue' = receiveMessageQueue \ {ssi_pcb}
       /\ msg_inbox' = [msg_inbox EXCEPT ![ssi_pcb] = <<m>> \o @]
  BY <1>1, <1>3, <1>5, PoolHolds, PeaceTypes DEF Send, Delivered, m
<1>11. /\ Letters' /\ Mailed' = Mailed \cup {m} /\ Askers' = Askers \cup {p}
       /\ Holders' = Holders
  BY <1>1, <1>3, <1>6, <1>7, <1>10, MailAsk
<1>12. /\ Serving' /\ Killed' /\ Family' /\ Devices' /\ InService' = {}
       /\ OnDevice' = OnDevice /\ Free' = Free /\ Coming = 0 /\ Coming' = 0
  BY <1>1, <1>3, <1>9, OutsideService
<1>13. Waiting' = Waiting \cup {p}
  BY <1>1, <1>3, <1>9, <1>12, ConstantTypes DEF Waiting, TypeOK, ClientPcb
<1>14. OneEach'
  <2>1. p \notin OnDevice
    BY <1>2, ClientFacts
  <2> QED BY <1>1, <1>3, <1>11, <1>12, <1>13, <2>1 DEF OneEach
<1>15. Places'
  <2>1. Ready' = Ready \cup (receiveMessageQueue \ receiveMessageQueue')
    BY <1>1, <1>5, <1>6, <1>9, SendFacts, ConstantTypes DEF Ready, m
  <2>2. OnClock' = OnClock /\ Running' = Running /\ step' = step /\ Dying' = Dying
    BY <1>9 DEF OnClock, Running, Dying
  <2> QED BY <1>1, <1>3, <1>11, <1>12, <2>1, <2>2 DEF Places, Linked
<1>16. Requests'
  <2>1. \A n \in Mailed' : Proper(n)
    BY <1>1, <1>8, <1>11 DEF Requests
  <2> QED BY <1>3, <1>9, <2>1 DEF Requests, Proper
<1>17. PoolOK'
  <2>1. Askers' \cup Holders' = (Askers \cup Holders) \cup {p}
    BY <1>11
  <2>2. Askers \cup Holders \subseteq Pcb /\ p \in Pcb \ (Askers \cup Holders)
    BY <1>1, <1>3, PeaceTypes
  <2>3. /\ Cardinality(Askers' \cup Holders') = Cardinality(Askers \cup Holders) + 1
        /\ Cardinality(Askers \cup Holders) \in Nat
    BY <2>1, <2>2, Sizes
  <2> QED BY <1>1, <1>10, <2>3, ConstantTypes DEF PoolOK
<1>18. CreateOK'
  <2>1. /\ budget' \in [ClientOps -> Nat] /\ \A j \in ClientOps : budget'[j] <= budget[j]
        /\ k \notin Endless => budget[k] > 0 /\ budget'[k] = budget[k] - 1
    BY <1>1, <1>5, SpendFacts DEF ClientOps
  <2>2. CASE k = "create"
    <3>1. Creators' = Creators \cup {p}
      BY <1>3, <1>7, <1>9, <1>11, <2>2 DEF Creators
    <3>2. p \notin Creators
      BY <1>3 DEF Creators, Askers
    <3>3. /\ Cardinality(Creators') = Cardinality(Creators) + 1
          /\ Cardinality(Creators) \in Nat
      BY <1>1, <3>1, <3>2, PeaceTypes, Sizes
    <3>4. budget'["create"] = budget["create"] - 1 /\ budget["create"] \in Nat
      <4>1. k \notin Endless /\ budget[k] \in Nat
        BY <1>1, <2>2 DEF Peaceful, TypeOK, ClientOps
      <4> QED BY <2>1, <2>2, <4>1
    <3>5. budget'["send"] = 0
      <4>1. budget'["send"] \in Nat /\ budget'["send"] <= budget["send"] /\ budget["send"] = 0
        BY <1>1, <2>1 DEF ClientOps, CreateOK
      <4> QED BY <4>1
    <3>6. Len(pcbFree) \in Nat /\ pcbFree' = pcbFree
      BY <1>1, <1>9, LenProperties DEF TypeOK
    <3> QED BY <1>1, <3>3, <3>4, <3>5, <3>6 DEF CreateOK
  <2>3. CASE k # "create"
    <3>1. Creators' \subseteq Creators
      BY <1>3, <1>7, <1>9, <1>11, <2>3 DEF Creators, sender
    <3>2. pcbFree' \in Seq(ClientPcb) /\ Len(pcbFree') >= Len(pcbFree)
      BY <1>1, <1>9, LenProperties DEF TypeOK
    <3> QED BY <1>1, <2>1, <3>1, <3>2, CreateSame
  <2> QED BY <2>2, <2>3
<1>19. SoftOK' /\ ProcsOK' /\ Ends'
  <2>1. SoftOK'
    BY <1>1, <1>3, <1>9, <1>12, SoftSame
  <2> QED BY <1>1, <1>9, <2>1 DEF ProcsOK, Ends
<1> QED BY <1>11, <1>12, <1>14, <1>15, <1>16, <1>17, <1>18, <1>19 DEF PInv, Counting

LEMMA PeaceReceive ==
  ASSUME Peaceful, PInv, WakeInv', NEW p \in Pcb, Receive(p)
  PROVE  PInv'
<1>1. /\ TypeOK /\ TypeOK' /\ OnePlace /\ Letters /\ OneEach /\ Places /\ Requests
      /\ ProcsOK /\ PoolOK /\ CreateOK /\ SoftOK /\ Ends
  BY PeaceFacts DEF WakeInv, IInv
<1>2. Runs(p) /\ awaiting[p] # Computing
  BY DEF Receive
<1>3. /\ p \in ClientPcb /\ Running = {p} /\ step = "receive" /\ InService = {}
      /\ p \notin Free /\ p \notin OnClock /\ p # ssi_pcb
  BY <1>2, ClientFacts
<1>4. UNCHANGED <<pcbFree, pseudoClockQueue, devQueue, counts, tree, ssi, devState, budget>>
  BY DEF Receive
<1>5. /\ Serving' /\ Killed' /\ Family' /\ Devices' /\ InService' = {}
      /\ OnDevice' = OnDevice /\ Free' = Free /\ Coming = 0 /\ Coming' = 0
      /\ OnClock' = OnClock
  BY <1>1, <1>3, <1>4, OutsideService DEF OnClock
<1>6. SoftOK' /\ ProcsOK'
  BY <1>1, <1>3, <1>4, <1>5, SoftSame DEF ProcsOK
<1> DEFINE i == FirstMatch(p, awaiting[p])
<1>7. i \in 0..Len(msg_inbox[p]) /\ Len(msg_inbox[p]) \in Nat
  BY <1>1, FirstMatchFacts, LenProperties DEF TypeOK
<1>8. ASSUME Mailed' = Mailed PROVE Requests' /\ CreateOK'
  <2>1. Requests'
    BY <1>1, <1>3, <1>4, <1>8 DEF Requests, Proper
  <2>2. Creators' \subseteq Creators
    BY <1>3, <1>4, <1>8, CreatorsSame
  <2>3. /\ pcbFree' \in Seq(ClientPcb) /\ Len(pcbFree') >= Len(pcbFree)
        /\ budget' \in [ClientOps -> Nat] /\ \A k \in ClientOps : budget'[k] <= budget[k]
    BY <1>1, <1>4, LenProperties DEF TypeOK
  <2> QED BY <1>1, <2>1, <2>2, <2>3, CreateSame
<1>9. CASE /\ i > 0 /\ TakeMessage(p, i) /\ awaiting' = [awaiting EXCEPT ![p] = Computing]
           /\ UNCHANGED <<queues, cpu>>
  <2>1. i \in 1..Len(msg_inbox[p])
    BY <1>7, <1>9
  <2> HIDE DEF i
  <2>2. /\ Letters' /\ Mailed' = Mailed /\ Askers' = Askers
        /\ p \in Holders /\ Holders' = Holders \ {p}
    BY <1>1, <1>3, <1>9, <2>1, MailReceive
  <2>3. Waiting' = Waiting \ {p}
    BY <1>1, <1>3, <1>5, <1>9, ConstantTypes DEF Waiting, TypeOK, ClientPcb
  <2>4. p \notin Askers /\ p \notin OnDevice
    BY <1>1, <2>2 DEF OneEach
  <2>5. OneEach'
    BY <1>1, <1>3, <1>5, <2>2, <2>3, <2>4 DEF OneEach
  <2>6. Places'
    BY <1>1, <1>3, <1>4, <1>5, <1>9, <2>2 DEF Places, Linked, Ready, Running, Free, OnClock, Dying
  <2>7. PoolOK'
    <3>1. Askers' \cup Holders' = (Askers \cup Holders) \ {p}
      BY <2>2, <2>4
    <3>2. Askers \cup Holders \subseteq Pcb /\ p \in Askers \cup Holders
      BY <1>1, <2>2, PeaceTypes
    <3>3. /\ Cardinality(Askers' \cup Holders') = Cardinality(Askers \cup Holders) - 1
          /\ Cardinality(Askers \cup Holders) \in Nat
      BY <3>1, <3>2, Sizes
    <3>4. msgFree \in Nat /\ msgFree' = msgFree + 1
      BY <1>1, <1>9 DEF TakeMessage, TypeOK
    <3> QED BY <1>1, <3>3, <3>4, ConstantTypes DEF PoolOK
  <2>8. Ends'
    BY <1>1, <1>4, <1>9 DEF Ends
  <2> QED BY <1>5, <1>6, <1>8, <2>2, <2>5, <2>6, <2>7, <2>8 DEF PInv, Counting
<1>10. CASE BlockOnReceive(p) /\ UNCHANGED <<pcbFree, pseudoClockQueue, devQueue, mail>>
  <2>1. Letters' /\ Mailed' = Mailed /\ Askers' = Askers /\ Holders' = Holders
    BY <1>1, <1>10, MailSame
  <2>2. Waiting' = Waiting
    BY <1>5, <1>10 DEF Waiting
  <2>3. OneEach'
    BY <1>1, <1>3, <1>5, <2>1, <2>2 DEF OneEach
  <2>4. /\ receiveMessageQueue' = receiveMessageQueue \cup {p}
        /\ Scheduler(readyQueue, process_count, softBlockCount, TRUE)
    BY <1>3, <1>10 DEF BlockOnReceive
  <2>5. Ready' \cup Running' = Ready
    BY <1>1, <2>4, SchedulerFacts DEF TypeOK, Ready
  <2>6. Places'
    BY <1>1, <1>3, <1>4, <1>5, <2>1, <2>4, <2>5 DEF Places, Linked
  <2>7. PoolOK'
    BY <1>1, <1>10, <2>1, PoolSame
  <2>8. Ends'
    <3>1. /\ machine' # "corrupt" /\ (machine' = "halt" => process_count = 1)
          /\ machine' = "panic" => softBlockCount = 0
      BY <1>1, <2>4, SchedulerEnds DEF TypeOK
    <3>2. UNCHANGED <<process_count, softBlockCount, step>>
      BY <1>4
    <3> QED BY <1>3, <3>1, <3>2 DEF Ends
  <2> QED BY <1>5, <1>6, <1>8, <2>1, <2>3, <2>6, <2>7, <2>8 DEF PInv, Counting
<1> QED BY <1>9, <1>10 DEF Receive

LEMMA PeacePreempt ==
  ASSUME PInv, WakeInv', NEW p \in Pcb, Preempt(p) \/ StartReceive(p)
  PROVE  PInv'
<1>1. /\ TypeOK /\ TypeOK' /\ OnePlace /\ Letters /\ OneEach /\ Places /\ Requests
      /\ ProcsOK /\ PoolOK /\ CreateOK /\ SoftOK /\ Ends
  BY PeaceFacts DEF WakeInv, IInv
<1>2. Runs(p)
  BY DEF Preempt, StartReceive
<1>3. /\ p \in ClientPcb /\ Running = {p} /\ step = "receive" /\ InService = {}
      /\ p \notin Free /\ p \notin OnClock /\ p # ssi_pcb
  BY <1>2, ClientFacts
<1>4. UNCHANGED <<pcbFree, receiveMessageQueue, pseudoClockQueue, devQueue, counts, tree,
                  msg_inbox, msgFree, ssi, devState>>
  BY DEF Preempt, StartReceive
<1>5. /\ Serving' /\ Killed' /\ Family' /\ Devices' /\ InService' = {}
      /\ OnDevice' = OnDevice /\ Free' = Free /\ Coming = 0 /\ Coming' = 0
      /\ OnClock' = OnClock
  BY <1>1, <1>3, <1>4, OutsideService DEF OnClock
<1>6. SoftOK' /\ ProcsOK'
  BY <1>1, <1>3, <1>4, <1>5, SoftSame DEF ProcsOK
<1>7. Letters' /\ Mailed' = Mailed /\ Askers' = Askers /\ Holders' = Holders
  BY <1>1, <1>4, MailSame
<1>8. Requests' /\ PoolOK'
  BY <1>1, <1>3, <1>4, <1>7, PoolSame DEF Requests, Proper
<1>9. CreateOK'
  <2>1. Creators' \subseteq Creators
    BY <1>3, <1>4, <1>7, CreatorsSame
  <2>2. budget' \in [ClientOps -> Nat] /\ \A k \in ClientOps : budget'[k] <= budget[k]
    <3>1. CASE Preempt(p)
      BY <1>1, <3>1 DEF Preempt, TypeOK
    <3>2. CASE StartReceive(p)
      <4>1. Spend("receive") /\ "receive" \in ClientOps
        BY <3>2 DEF StartReceive, ClientOps
      <4> QED BY <1>1, <4>1, SpendFacts
    <3> QED BY <3>1, <3>2
  <2>3. pcbFree' \in Seq(ClientPcb) /\ Len(pcbFree') >= Len(pcbFree)
    BY <1>1, <1>4, LenProperties DEF TypeOK
  <2> QED BY <1>1, <2>1, <2>2, <2>3, CreateSame
<1>10. Waiting' = Waiting
  <2>1. CASE Preempt(p)
    BY <1>5, <2>1 DEF Preempt, Waiting
  <2>2. CASE StartReceive(p)
    <3>1. PICK from \in {NULL} \cup (Pcb \ {ssi_pcb, p}) :
                 awaiting' = [awaiting EXCEPT ![p] = from]
      BY <2>2 DEF StartReceive
    <3>2. from # ssi_pcb /\ awaiting[p] # ssi_pcb
      BY <2>2, ConstantTypes DEF StartReceive
    <3> QED BY <1>1, <1>5, <3>1, <3>2 DEF Waiting, TypeOK, ClientPcb
  <2> QED BY <2>1, <2>2
<1>11. OneEach'
  BY <1>1, <1>3, <1>5, <1>7, <1>10 DEF OneEach
<1>12. Places' /\ Ends'
  <2>1. CASE StartReceive(p)
    <3>1. UNCHANGED <<queues, cpu>>
      BY <2>1 DEF StartReceive
    <3>2. Places'
      BY <1>1, <1>3, <1>4, <1>5, <1>7, <3>1
         DEF Places, Linked, Ready, Running, Free, OnClock, Dying
    <3> QED BY <1>1, <1>4, <3>1, <3>2 DEF Ends
  <2>2. CASE Preempt(p)
    <3>1. Scheduler(Append(readyQueue, p), process_count, softBlockCount, FALSE)
      BY <2>2 DEF Preempt
    <3>2. /\ Append(readyQueue, p) \in Seq(Pcb)
          /\ ToSet(Append(readyQueue, p)) = Ready \cup {p}
      BY <1>1, AppendSet DEF TypeOK, Ready
    <3>3. Ready' \cup Running' = Ready \cup {p}
      BY <3>1, <3>2, SchedulerFacts
    <3>4. Places'
      BY <1>1, <1>3, <1>4, <1>5, <1>7, <3>3 DEF Places, Linked
    <3>5. Ends'
      <4>1. /\ machine' # "corrupt" /\ (machine' = "halt" => process_count = 1)
            /\ machine' = "panic" => softBlockCount = 0
        BY <1>1, <3>1, <3>2, SchedulerEnds DEF TypeOK
      <4>2. UNCHANGED <<process_count, softBlockCount, step>>
        BY <1>4
      <4> QED BY <1>3, <4>1, <4>2 DEF Ends
    <3> QED BY <3>4, <3>5
  <2> QED BY <2>1, <2>2
<1> QED BY <1>5, <1>6, <1>7, <1>8, <1>9, <1>11, <1>12 DEF PInv, Counting

\* killProcess() begins: nobody is an orphan, and so the victim leaves the tree.
LEMMA PeaceEnterKill ==
  ASSUME PInv, NEW p \in ClientPcb, EnterKill(p)
  PROVE  /\ doomed' = <<p>> /\ Dying' = p /\ Len(doomed') = 1 /\ step' = "kill"
         /\ UNCHANGED <<machine, request, loaded>>
         /\ \A q \in Pcb : p_child'[q] \subseteq p_child[q]
         /\ \A q \in Pcb : p_parent'[q] # NULL => q \in p_child'[p_parent'[q]]
<1>1. /\ p_parent \in [Pcb -> Pcb \cup {NULL}] /\ p_child \in [Pcb -> SUBSET ClientPcb]
      /\ \A q \in Pcb : p_parent[q] # NULL => q \in p_child[p_parent[q]]
      /\ p \in Pcb /\ NULL \notin Pcb
  BY PeaceFacts, ConstantTypes DEF TypeOK, Family
<1>2. ~Orphaned(p)
  BY <1>1 DEF Orphaned
<1>3. /\ p_parent' = [p_parent EXCEPT ![p] = NULL]
      /\ p_child' = [q \in Pcb |-> IF q = p_parent[p] THEN p_child[q] \ {p} ELSE p_child[q]]
      /\ doomed' = <<p>> /\ step' = "kill" /\ UNCHANGED <<machine, request, loaded>>
  BY <1>2 DEF EnterKill, OutChild
<1>4. \A q \in Pcb : p_child'[q] \subseteq p_child[q]
  BY <1>3
<1>5. \A q \in Pcb : p_parent'[q] # NULL => q \in p_child'[p_parent'[q]]
  BY <1>1, <1>3
<1> QED BY <1>3, <1>4, <1>5 DEF Dying

LEMMA PeaceTrap ==
  ASSUME Peaceful, PInv, WakeInv', NEW p \in Pcb, Trap(p)
  PROVE  PInv'
<1>1. /\ TypeOK /\ TypeOK' /\ OnePlace /\ Letters /\ OneEach /\ Places /\ Requests /\ Family
      /\ Devices /\ ProcsOK /\ PoolOK /\ CreateOK /\ SoftOK /\ Ends
  BY PeaceFacts DEF WakeInv, IInv
<1>2. Runs(p) /\ awaiting[p] = Computing /\ p_child[p] = {}
  BY DEF Trap, Peaceful
<1>3. /\ p \in ClientPcb /\ Running = {p} /\ step = "receive" /\ InService = {}
      /\ current_process = p /\ p # ssi_pcb
  BY <1>2, ClientFacts
<1>4. /\ UNCHANGED <<queues, current_process, pltPending, counts, mail, devState>>
      /\ EnterKill(p)
  BY DEF Trap
<1>5. /\ doomed' = <<p>> /\ Dying' = p /\ Len(doomed') = 1 /\ step' = "kill"
      /\ UNCHANGED <<machine, request, loaded>>
      /\ \A q \in Pcb : p_child'[q] \subseteq p_child[q]
      /\ \A q \in Pcb : p_parent'[q] # NULL => q \in p_child'[p_parent'[q]]
  BY <1>3, <1>4, PeaceEnterKill
<1>6. Letters' /\ Mailed' = Mailed /\ Askers' = Askers /\ Holders' = Holders
  BY <1>1, <1>4, MailSame
<1>7. /\ Free' = Free /\ OnDevice' = OnDevice /\ OnClock' = OnClock /\ Running' = Running
      /\ Ready' = Ready /\ Waiting' = Waiting /\ InService' = {} /\ Coming = 0 /\ Coming' = 0
  BY <1>1, <1>3, <1>4, <1>5, PeaceTypesNext
     DEF Free, OnDevice, OnClock, Running, Ready, Waiting, Coming
<1>8. OneEach'
  BY <1>1, <1>3, <1>6, <1>7 DEF OneEach
<1>9. Places'
  BY <1>1, <1>3, <1>4, <1>5, <1>6, <1>7 DEF Places, Linked
<1>10. Serving' /\ Killed'
  <2>1. Serving'
    BY <1>5 DEF Serving, SsiSteps
  <2>2. p_child'[p] = {}
    BY <1>2, <1>3, <1>5, ConstantTypes
  <2> QED BY <1>2, <1>3, <1>4, <1>5, <2>1, <2>2 DEF Killed
<1>11. Requests'
  <2>1. \A m \in Mailed : m.from \in Pcb
    BY <1>1, PeaceTypes DEF Askers
  <2>2. \A m \in Mailed' : Proper(m)'
    BY <1>1, <1>5, <1>6, <2>1 DEF Requests, Proper
  <2> QED BY <1>3, <1>4, <2>2 DEF Requests
<1>12. Family' /\ Devices'
  <2>1. Free \subseteq Pcb
    BY <1>1, PeaceTypes
  <2> QED BY <1>1, <1>4, <1>5, <1>7, <2>1 DEF Family, Devices
<1>13. ProcsOK' /\ PoolOK' /\ SoftOK' /\ Ends'
  <2>1. SoftOK'
    BY <1>1, <1>4, <1>5, <1>7, SoftSame
  <2>2. PoolOK'
    BY <1>1, <1>4, <1>6, PoolSame
  <2> QED BY <1>1, <1>2, <1>4, <1>5, <2>1, <2>2 DEF ProcsOK, Ends, Runs
<1>14. CreateOK'
  <2>1. Creators' \subseteq Creators
    BY <1>5, <1>6, CreatorsSame
  <2>2. budget' \in [ClientOps -> Nat] /\ \A k \in ClientOps : budget'[k] <= budget[k]
    BY <1>1, SpendFacts DEF Trap, ClientOps
  <2>3. pcbFree' \in Seq(ClientPcb) /\ Len(pcbFree') >= Len(pcbFree)
    BY <1>1, <1>4, LenProperties DEF TypeOK
  <2> QED BY <1>1, <2>1, <2>2, <2>3, CreateSame
<1> QED BY <1>6, <1>8, <1>9, <1>10, <1>11, <1>12, <1>13, <1>14 DEF PInv, Counting

LEMMA PeaceSend == ASSUME Peaceful, PInv, NEW p \in Pcb PROVE ~SendToClient(p)
<1>1. budget["send"] = 0 /\ "send" \notin Endless
  BY PeaceFacts DEF CreateOK, Peaceful
<1> QED BY <1>1 DEF SendToClient, Spend
------------------------------------------------------------------------------
(* The SSI.                                                                 *)

\* The SSI serves a client that has nothing else outstanding.
LEMMA ServiceFacts ==
  ASSUME PInv, current_process = ssi_pcb, step \notin {"receive", "command"}
  PROVE  /\ InService = {sender} /\ sender \in ClientPcb /\ sender \in Pcb /\ sender # ssi_pcb
         /\ sender \in Waiting /\ sender \notin Free /\ sender \notin Askers
         /\ sender \notin OnDevice /\ sender \notin Holders /\ Proper(request)
         /\ request \in SsiMessage /\ awaiting[sender] = ssi_pcb
<1>1. TypeOK /\ OneEach /\ Requests
  BY PeaceFacts
<1>2. InService = {sender} /\ sender \in ClientPcb /\ sender \in Pcb /\ sender # ssi_pcb
  BY <1>1, PeaceTypes
<1>3. sender \in Waiting /\ sender \notin Askers /\ sender \notin OnDevice /\ sender \notin Holders
  BY <1>1, <1>2 DEF OneEach
<1> QED BY <1>1, <1>2, <1>3 DEF Waiting, Requests, TypeOK

\* A step that moves nobody and no message.
LEMMA Unmoved ==
  ASSUME PInv, UNCHANGED <<queues, current_process, msg_inbox, awaiting>>, InService' = InService
  PROVE  /\ Letters' /\ Mailed' = Mailed /\ Askers' = Askers /\ Holders' = Holders
         /\ OneEach' /\ Free' = Free /\ OnDevice' = OnDevice /\ OnClock' = OnClock
         /\ Waiting' = Waiting /\ Blocked' = Blocked
         /\ step' # "free" /\ step # "free" => \A p \in Pcb : p \in (Linked \cup OnDevice \cup Running)'
<1>1. Letters /\ OneEach /\ Places
  BY PeaceFacts
<1>2. Letters' /\ Mailed' = Mailed /\ Askers' = Askers /\ Holders' = Holders
  BY <1>1, MailSame
<1>3. Free' = Free /\ OnDevice' = OnDevice /\ OnClock' = OnClock /\ Waiting' = Waiting
      /\ Blocked' = Blocked
  BY DEF Free, OnDevice, OnClock, Waiting, Blocked
<1>4. OneEach'
  BY <1>1, <1>2, <1>3 DEF OneEach
<1>5. Linked' = Linked /\ Running' = Running
  BY DEF Linked, Free, Ready, OnClock, Running
<1> QED BY <1>1, <1>2, <1>3, <1>4, <1>5 DEF Places

LEMMA CreateKept ==
  ASSUME PInv, Mailed' = Mailed, step' # "serve" \/ UNCHANGED <<step, request>>,
         UNCHANGED <<budget, pcbFree>>
  PROVE  CreateOK'
<1>1. TypeOK /\ CreateOK
  BY PeaceFacts
<1>2. Creators' \subseteq Creators
  BY CreatorsSame
<1>3. /\ pcbFree' \in Seq(ClientPcb) /\ Len(pcbFree') >= Len(pcbFree)
      /\ budget' \in [ClientOps -> Nat] /\ \A k \in ClientOps : budget'[k] <= budget[k]
  BY <1>1, LenProperties DEF TypeOK
<1> QED BY <1>1, <1>2, <1>3, CreateSame

LEMMA PeaceSsiReceive ==
  ASSUME Peaceful, PInv, WakeInv', SsiReceive
  PROVE  PInv'
<1>1. /\ TypeOK /\ TypeOK' /\ OnePlace /\ Letters /\ OneEach /\ Places /\ Requests /\ Family
      /\ Devices /\ ProcsOK /\ PoolOK /\ CreateOK /\ SoftOK /\ Ends
  BY PeaceFacts DEF WakeInv, IInv
<1>2. /\ machine = "on" /\ current_process = ssi_pcb /\ step = "receive"
      /\ UNCHANGED <<pcbFree, pseudoClockQueue, devQueue, counts, tree, awaiting, loaded, doomed,
                     devState, budget>>
  BY DEF SsiReceive, SsiAt
<1>3. InService = {} /\ Running = {ssi_pcb} /\ ssi_pcb \in Pcb /\ ssi_pcb \notin ClientPcb
  BY <1>1, <1>2, PeaceTypes DEF Running
<1>4. /\ OnDevice' = OnDevice /\ Free' = Free /\ OnClock' = OnClock /\ Waiting' = Waiting
      /\ Blocked' = Blocked
  BY <1>2 DEF OnDevice, Free, OnClock, Waiting, Blocked
<1>5. Family'
  BY <1>1, <1>2, <1>4 DEF Family
<1> DEFINE i == FirstMatch(ssi_pcb, NULL)
<1>6. i \in 0..Len(msg_inbox[ssi_pcb]) /\ Len(msg_inbox[ssi_pcb]) \in Nat
  BY <1>1, <1>3, FirstMatchFacts, LenProperties DEF TypeOK
<1>7. CASE /\ i > 0 /\ TakeMessage(ssi_pcb, i) /\ request' = msg_inbox[ssi_pcb][i]
           /\ step' = "serve" /\ UNCHANGED <<queues, cpu>>
  <2>1. i \in 1..Len(msg_inbox[ssi_pcb])
    BY <1>6, <1>7
  <2> HIDE DEF i
  <2>2. /\ request' \in Mailed /\ Letters' /\ Mailed' = Mailed \ {request'}
        /\ Askers' = Askers \ {request'.from} /\ Holders' = Holders
    BY <1>1, <1>7, <2>1, MailTake
  <2> DEFINE q == request'.from
  <2>3. q \in Askers /\ q \in ClientPcb /\ InService' = {q} /\ sender' = q
    BY <1>1, <1>2, <1>7, <2>2, PeaceTypes, PeaceTypesNext DEF Askers, sender
  <2>4. \A m \in Mailed : m.from = q => m = request'
    BY <1>1, <2>2 DEF Letters
  <2> HIDE DEF q
  <2>5. OneEach'
    BY <1>1, <1>3, <1>4, <2>2, <2>3 DEF OneEach, q
  <2>6. Places'
    <3>1. Linked' = Linked /\ Running' = Running
      BY <1>7 DEF Linked, Free, Ready, OnClock, Running
    <3>2. OnClock' \cap InService' = {} /\ OnClock' \cap Askers' = {}
      BY <1>1, <1>4, <2>2, <2>3 DEF Places
    <3> QED BY <1>1, <1>2, <1>4, <3>1, <3>2 DEF Places
  <2>7. Serving' /\ Killed'
    BY <1>2, <1>7 DEF Serving, Killed, KillSteps
  <2>8. Requests'
    BY <1>1, <1>2, <2>2 DEF Requests, Proper
  <2>9. Devices'
    BY <1>1, <1>2, <1>7 DEF Devices
  <2>10. PoolOK'
    <3>1. Askers' \cup Holders' = (Askers \cup Holders) \ {q}
      BY <1>1, <2>2, <2>3 DEF OneEach, q
    <3>2. Askers \cup Holders \subseteq Pcb /\ q \in Askers \cup Holders
      BY <1>1, <2>3, PeaceTypes
    <3>3. /\ Cardinality(Askers' \cup Holders') = Cardinality(Askers \cup Holders) - 1
          /\ Cardinality(Askers \cup Holders) \in Nat
      BY <3>1, <3>2, Sizes
    <3>4. msgFree \in Nat /\ msgFree' = msgFree + 1
      BY <1>1, <1>7 DEF TakeMessage, TypeOK
    <3> QED BY <1>1, <3>3, <3>4, ConstantTypes DEF PoolOK
  <2>11. CreateOK'
    <3>1. Creators' \subseteq Creators
      BY <1>2, <1>7, <2>2, <2>3 DEF Creators, q
    <3>2. /\ pcbFree' \in Seq(ClientPcb) /\ Len(pcbFree') >= Len(pcbFree)
          /\ budget' \in [ClientOps -> Nat] /\ \A k \in ClientOps : budget'[k] <= budget[k]
      BY <1>1, <1>2, LenProperties DEF TypeOK
    <3> QED BY <1>1, <3>1, <3>2, CreateSame
  <2>12. SoftOK' /\ ProcsOK' /\ Ends'
    BY <1>1, <1>2, <1>4, <1>7 DEF SoftOK, Coming, ProcsOK, Ends
  <2> QED BY <1>5, <2>2, <2>5, <2>6, <2>7, <2>8, <2>9, <2>10, <2>11, <2>12 DEF PInv, Counting
<1>8. CASE /\ BlockOnReceive(ssi_pcb)
           /\ UNCHANGED <<pcbFree, pseudoClockQueue, devQueue, msg_inbox, msgFree, request, step>>
  <2>1. Letters' /\ Mailed' = Mailed /\ Askers' = Askers /\ Holders' = Holders
    BY <1>1, <1>8, MailSame
  <2>2. /\ Serving' /\ Killed' /\ Devices' /\ InService' = {} /\ Coming = 0 /\ Coming' = 0
    BY <1>1, <1>2, <1>8, OutsideService
  <2>3. OneEach'
    BY <1>1, <1>3, <1>4, <2>1, <2>2 DEF OneEach
  <2>4. /\ receiveMessageQueue' = receiveMessageQueue \cup {ssi_pcb}
        /\ Scheduler(readyQueue, process_count, softBlockCount, FALSE)
    BY <1>8 DEF BlockOnReceive
  <2>5. Ready' \cup Running' = Ready
    BY <1>1, <2>4, SchedulerFacts DEF TypeOK, Ready
  <2>6. Places'
    BY <1>1, <1>2, <1>3, <1>4, <1>8, <2>1, <2>2, <2>4, <2>5 DEF Places, Linked
  <2>7. Requests' /\ PoolOK' /\ CreateOK'
    BY <1>1, <1>2, <1>8, <2>1, PoolSame, CreateKept DEF Requests, Proper
  <2>8. SoftOK' /\ ProcsOK'
    BY <1>1, <1>2, <1>8, <2>2, SoftSame DEF ProcsOK
  <2>9. Ends'
    <3>1. /\ machine' # "corrupt" /\ (machine' = "halt" => process_count = 1)
          /\ machine' = "panic" => softBlockCount = 0
      BY <1>1, <2>4, SchedulerEnds DEF TypeOK
    <3>2. UNCHANGED <<process_count, softBlockCount, step>>
      BY <1>2, <1>8
    <3> QED BY <1>2, <3>1, <3>2 DEF Ends
  <2> QED BY <1>5, <2>1, <2>2, <2>3, <2>6, <2>7, <2>8, <2>9 DEF PInv, Counting
<1> QED BY <1>7, <1>8 DEF SsiReceive

LEMMA PeaceSsiCreate ==
  ASSUME Peaceful, PInv, WakeInv', SsiCreate
  PROVE  PInv'
<1>1. /\ TypeOK /\ TypeOK' /\ OnePlace /\ TreeSound /\ Letters /\ OneEach /\ Places /\ Requests
      /\ Family /\ Devices /\ ProcsOK /\ PoolOK /\ CreateOK /\ SoftOK /\ Ends
  BY PeaceFacts DEF WakeInv, IInv
<1> DEFINE newChild == Head(pcbFree)
<1>2. /\ machine = "on" /\ current_process = ssi_pcb /\ step = "serve" /\ request.op = "create"
      /\ pcbFree # <<>> /\ pcbFree' = Tail(pcbFree) /\ readyQueue' = Append(readyQueue, newChild)
      /\ msg_inbox' = [msg_inbox EXCEPT ![newChild] = <<>>]
      /\ awaiting' = [awaiting EXCEPT ![newChild] = Computing]
      /\ p_parent' = [p_parent EXCEPT ![newChild] = sender]
      /\ p_child' = [[p_child EXCEPT ![newChild] = {}] EXCEPT ![sender] = @ \cup {newChild}]
      /\ process_count' = process_count + 1 /\ step' = "reply"
      /\ UNCHANGED <<receiveMessageQueue, pseudoClockQueue, devQueue, cpu, softBlockCount, msgFree,
                     request, loaded, doomed, devState, budget>>
  BY DEF SsiCreate, Serves, SsiAt, AllocPcb, InsertChild
<1>3. /\ newChild \in ClientPcb /\ Free = Free' \cup {newChild} /\ newChild \notin Free'
      /\ Len(pcbFree) \in Nat /\ Len(pcbFree') = Len(pcbFree) - 1
  <2>1. pcbFree \in Seq(ClientPcb) /\ IsInjective(pcbFree)
    BY <1>1 DEF TypeOK, OnePlace, NoDuplicates
  <2> QED BY <1>2, <2>1, HeadTailSet, HeadTailProperties, LenProperties DEF Free
<1> HIDE DEF newChild
<1>4. newChild \in Pcb /\ newChild \in Free /\ newChild \notin Waiting /\ newChild # sender
      /\ newChild \notin Holders
  BY <1>1, <1>2, <1>3, ConstantTypes, ServiceFacts DEF Waiting, OneEach
<1>5. msg_inbox' = msg_inbox
  <2>1. msg_inbox[newChild] = <<>> /\ msg_inbox \in [Pcb -> Seq(Message)]
    BY <1>1, <1>3, <1>4 DEF Holders, TypeOK
  <2> QED BY <1>2, <2>1
<1>6. Letters' /\ Mailed' = Mailed /\ Askers' = Askers /\ Holders' = Holders
  BY <1>1, <1>5, MailSame
<1>7. /\ InService = {sender} /\ sender \notin Askers /\ sender \in ClientPcb /\ sender \in Pcb
      /\ InService' = InService
  BY <1>1, <1>2, ServiceFacts, PeaceTypesNext DEF sender
<1>8. OnDevice' = OnDevice /\ OnClock' = OnClock /\ Running' = Running /\ Blocked' = Blocked
  BY <1>2 DEF OnDevice, OnClock, Running, Blocked
<1>9. Waiting' = Waiting
  <2>1. awaiting \in [Pcb -> Pcb \cup {NULL, Computing}]
    BY <1>1 DEF TypeOK
  <2>2. newChild \notin Waiting'
    BY <1>2, <1>4, <2>1, ConstantTypes DEF Waiting
  <2>3. \A p \in Pcb \ {newChild} : awaiting'[p] = awaiting[p] /\ (p \in Free' <=> p \in Free)
    BY <1>2, <1>3, <2>1
  <2> QED BY <1>4, <2>2, <2>3 DEF Waiting, ClientPcb
<1>10. OneEach'
  BY <1>1, <1>6, <1>7, <1>8, <1>9 DEF OneEach
<1>11. Places'
  <2>1. Ready' = Ready \cup {newChild}
    BY <1>1, <1>2, <1>4, AppendSet DEF TypeOK, Ready
  <2> QED BY <1>1, <1>2, <1>3, <1>6, <1>7, <1>8, <2>1 DEF Places, Linked
<1>12. Serving' /\ Killed'
  BY <1>2 DEF Serving, Killed, KillSteps
<1>13. /\ p_child'[sender] = p_child[sender] \cup {newChild} /\ p_child'[newChild] = {}
       /\ \A p \in Pcb \ {newChild, sender} : p_child'[p] = p_child[p]
       /\ p_parent'[newChild] = sender
       /\ \A p \in Pcb \ {newChild} : p_parent'[p] = p_parent[p]
  <2>1. p_parent \in [Pcb -> Pcb \cup {NULL}] /\ p_child \in [Pcb -> SUBSET ClientPcb]
    BY <1>1 DEF TypeOK
  <2> QED BY <1>2, <1>4, <1>7, <2>1
<1>14. Requests'
  <2>1. \A m \in Mailed : m.from \in ClientPcb /\ m.from # sender
    BY <1>1, <1>7, PeaceTypes DEF Askers
  <2>2. \A m \in Mailed : Proper(m)'
    BY <1>1, <1>13, <2>1, ConstantTypes DEF Requests, Proper
  <2>3. Proper(request)'
    BY <1>2 DEF Proper
  <2> QED BY <1>6, <2>2, <2>3 DEF Requests
<1>15. Family'
  <2>1. \A p \in Pcb \ {newChild} : p_parent[p] # NULL => p_parent[p] # newChild
    BY <1>1, <1>4 DEF Family
  <2>2. \A p \in Pcb : p_parent[p] \in Pcb \cup {NULL}
    BY <1>1 DEF TypeOK
  <2>3. \A p \in Pcb : p_parent'[p] # NULL => p \in p_child'[p_parent'[p]]
    BY <1>1, <1>7, <1>13, <2>1, <2>2 DEF Family
  <2>4. \A p \in Free' : p_child'[p] = {}
    <3>1. sender \notin Free /\ Free \subseteq Pcb
      BY <1>1, <1>2, ServiceFacts, PeaceTypes
    <3> QED BY <1>1, <1>3, <1>13, <3>1 DEF Family
  <2> QED BY <2>3, <2>4 DEF Family
<1>16. Devices'
  BY <1>1, <1>2 DEF Devices
<1>17. PoolOK'
  BY <1>1, <1>2, <1>6, PoolSame
<1>18. CreateOK'
  <2>1. Creators' = Creators \ {sender} /\ sender \in Creators
    BY <1>2, <1>6, <1>7 DEF Creators, Askers
  <2>2. Cardinality(Creators') = Cardinality(Creators) - 1 /\ Cardinality(Creators) \in Nat
    BY <1>1, <2>1, PeaceTypes, Sizes
  <2>3. budget["create"] \in Nat
    BY <1>1 DEF TypeOK, ClientOps, SsiServices
  <2> QED BY <1>1, <1>2, <1>3, <2>2, <2>3 DEF CreateOK
<1>19. ProcsOK' /\ SoftOK' /\ Ends'
  <2>1. Cardinality(Pcb) \in Nat /\ process_count \in Int
    BY <1>1, Sizes DEF TypeOK
  <2>2. ProcsOK'
    BY <1>1, <1>2, <1>3, <2>1 DEF ProcsOK
  <2> QED BY <1>1, <1>2, <1>8, <2>2 DEF SoftOK, Coming, Ends
<1> QED BY <1>6, <1>10, <1>11, <1>12, <1>14, <1>15, <1>16, <1>17, <1>18, <1>19 DEF PInv, Counting

LEMMA PeaceSsiCreateFails == PInv => ~SsiCreateFails
<1> SUFFICES ASSUME PInv, SsiCreateFails PROVE FALSE
  OBVIOUS
<1>1. step = "serve" /\ request.op = "create" /\ pcbFree = <<>> /\ current_process = ssi_pcb
  BY DEF SsiCreateFails, Serves, SsiAt
<1>2. sender \in Creators
  BY <1>1, ServiceFacts DEF Creators
<1>3. Cardinality(Creators) \in Nat /\ Cardinality(Creators) # 0
  BY <1>2, PeaceFacts, PeaceTypes, Sizes
<1>4. budget["create"] \in Nat /\ Len(pcbFree) = 0
  BY <1>1, PeaceFacts DEF TypeOK, ClientOps, SsiServices
<1> QED BY <1>3, <1>4, PeaceFacts DEF CreateOK

LEMMA PeaceSsiReply ==
  ASSUME Peaceful, PInv, WakeInv', SsiReply
  PROVE  PInv'
<1>1. /\ TypeOK /\ TypeOK' /\ OnePlace /\ Letters /\ OneEach /\ Places /\ Requests
      /\ Family /\ Devices /\ ProcsOK /\ PoolOK /\ CreateOK /\ SoftOK /\ Ends /\ Serving
  BY PeaceFacts DEF WakeInv, IInv
<1>2. /\ machine = "on" /\ current_process = ssi_pcb /\ step \in {"reply", "serve"}
      /\ (step = "serve" => request.op = "query")
      /\ Send(Answer, sender) /\ readyQueue' = ReadyAfterSend(sender) /\ step' = "receive"
      /\ UNCHANGED <<cpu, pcbFree, pseudoClockQueue, devQueue, counts, tree, awaiting, request,
                     loaded, doomed, devState, budget>>
  BY DEF SsiReply, SsiAt, Serves, Answer
<1>3. /\ InService = {sender} /\ sender \notin Askers /\ sender \in ClientPcb /\ sender \in Pcb
      /\ sender # ssi_pcb /\ sender \notin Free /\ sender \notin OnDevice
      /\ sender \notin Holders
  BY <1>1, <1>2, ServiceFacts
<1>4. InService' = {}
  BY <1>1, <1>2, PeaceTypesNext
<1>5. /\ msgFree > 0 /\ msgFree \in Nat /\ msgFree' = msgFree - 1
      /\ receiveMessageQueue' = receiveMessageQueue \ {sender}
      /\ msg_inbox' = [msg_inbox EXCEPT ![sender] = <<Answer>> \o @]
  BY <1>2, <1>3, PoolHolds DEF Send, Delivered
<1>6. Letters' /\ Mailed' = Mailed /\ Askers' = Askers /\ Holders' = Holders \cup {sender}
  BY <1>1, <1>3, <1>5, MailAnswer
<1>7. /\ OnDevice' = OnDevice /\ Free' = Free /\ OnClock' = OnClock /\ Waiting' = Waiting
      /\ Blocked' = Blocked /\ Running' = Running
  BY <1>2 DEF OnDevice, Free, OnClock, Waiting, Blocked, Running
<1>8. OneEach'
  BY <1>1, <1>3, <1>4, <1>6, <1>7 DEF OneEach
<1>9. Places'
  <2>1. Ready' = Ready \cup (receiveMessageQueue \ receiveMessageQueue')
    <3>1. Answer \in Message
      BY ConstantTypes DEF Answer, Msg, Message
    <3> QED BY <1>1, <1>2, <1>3, <3>1, SendFacts DEF Ready
  <2> QED BY <1>1, <1>2, <1>4, <1>6, <1>7, <2>1 DEF Places, Linked
<1>10. Serving' /\ Killed' /\ Requests' /\ Family' /\ Devices'
  <2>1. Requests'
    BY <1>1, <1>2, <1>6 DEF Requests, Proper
  <2>2. Family' /\ Devices'
    BY <1>1, <1>2, <1>7 DEF Family, Devices
  <2> QED BY <1>2, <2>1, <2>2 DEF Serving, Killed, KillSteps
<1>11. PoolOK'
  <2>1. Askers' \cup Holders' = (Askers \cup Holders) \cup {sender}
    BY <1>6
  <2>2. Askers \cup Holders \subseteq Pcb /\ sender \in Pcb \ (Askers \cup Holders)
    BY <1>1, <1>3, PeaceTypes
  <2>3. /\ Cardinality(Askers' \cup Holders') = Cardinality(Askers \cup Holders) + 1
        /\ Cardinality(Askers \cup Holders) \in Nat
    BY <2>1, <2>2, Sizes
  <2> QED BY <1>1, <1>5, <2>3, ConstantTypes DEF PoolOK
<1>12. CreateOK'
  BY <1>2, <1>6, CreateKept
<1>13. ProcsOK' /\ SoftOK' /\ Ends'
  <2>1. Coming = 0 /\ Coming' = 0
    BY <1>2 DEF Coming
  <2> QED BY <1>1, <1>2, <1>7, <2>1 DEF ProcsOK, SoftOK, Ends
<1> QED BY <1>6, <1>8, <1>9, <1>10, <1>11, <1>12, <1>13 DEF PInv, Counting

LEMMA PeaceSsiTerminate ==
  ASSUME Peaceful, PInv, WakeInv', SsiTerminate
  PROVE  PInv'
<1>1. /\ TypeOK /\ TypeOK' /\ OnePlace /\ Letters /\ OneEach /\ Places /\ Requests /\ Family
      /\ Devices /\ ProcsOK /\ PoolOK /\ CreateOK /\ SoftOK /\ Ends
  BY PeaceFacts DEF WakeInv, IInv
<1>2. /\ machine = "on" /\ current_process = ssi_pcb /\ step = "serve"
      /\ request.op \in {"terminate", "invalid"}
      /\ UNCHANGED <<queues, current_process, pltPending, counts, mail, devState, budget>>
  BY DEF SsiTerminate, SsiAt, Serves
<1>3. /\ InService = {sender} /\ sender \in ClientPcb /\ sender \in Pcb /\ sender \notin Free
      /\ sender \notin Askers /\ Proper(request)
  BY <1>2, ServiceFacts
<1>4. EnterKill(sender)
  BY <1>2, <1>3 DEF SsiTerminate, Proper
<1>5. /\ doomed' = <<sender>> /\ Dying' = sender /\ Len(doomed') = 1 /\ step' = "kill"
      /\ UNCHANGED <<machine, request, loaded>>
      /\ \A q \in Pcb : p_child'[q] \subseteq p_child[q]
      /\ \A q \in Pcb : p_parent'[q] # NULL => q \in p_child'[p_parent'[q]]
  BY <1>3, <1>4, PeaceEnterKill
<1>6. sender' = sender /\ InService' = InService
  BY <1>1, <1>2, <1>3, <1>5, PeaceTypesNext DEF sender
<1>7. /\ Letters' /\ Mailed' = Mailed /\ Askers' = Askers /\ Holders' = Holders
      /\ OneEach' /\ Free' = Free /\ OnDevice' = OnDevice /\ OnClock' = OnClock
      /\ Waiting' = Waiting /\ Blocked' = Blocked
      /\ \A p \in Pcb : p \in (Linked \cup OnDevice \cup Running)'
  BY <1>2, <1>5, <1>6, Unmoved
<1>8. Places'
  BY <1>1, <1>2, <1>5, <1>6, <1>7 DEF Places
<1>9. Serving' /\ Killed'
  <2>1. p_child[sender] = {} /\ p_child'[sender] \subseteq p_child[sender]
    BY <1>2, <1>3, <1>5 DEF Proper, sender
  <2> QED BY <1>2, <1>5, <1>6, <2>1 DEF Serving, Killed, SsiSteps
<1>10. Requests'
  <2>1. \A m \in Mailed : m.from \in Pcb
    BY <1>1, PeaceTypes DEF Askers
  <2>2. \A m \in Mailed : Proper(m)'
    BY <1>1, <1>5, <2>1 DEF Requests, Proper
  <2>3. Proper(request)'
    BY <1>3, <1>5 DEF Proper, sender
  <2> QED BY <1>7, <2>2, <2>3 DEF Requests
<1>11. Family' /\ Devices'
  <2>1. Free \subseteq Pcb
    BY <1>1, PeaceTypes
  <2> QED BY <1>1, <1>2, <1>5, <1>7, <2>1 DEF Family, Devices
<1>12. ProcsOK' /\ PoolOK' /\ SoftOK' /\ Ends' /\ CreateOK'
  <2>1. PoolOK' /\ CreateOK'
    BY <1>1, <1>2, <1>5, <1>7, PoolSame, CreateKept
  <2>2. Coming = 0 /\ Coming' = 0
    BY <1>2, <1>5 DEF Coming
  <2> QED BY <1>1, <1>2, <1>5, <1>7, <2>1, <2>2 DEF ProcsOK, SoftOK, Ends
<1> QED BY <1>7, <1>8, <1>9, <1>10, <1>11, <1>12 DEF PInv, Counting

\* softBlockCount++ of doIO() and waitForClock().
LEMMA PeaceSsiCount ==
  ASSUME Peaceful, PInv, WakeInv', SsiLoad \/ SsiStore
  PROVE  PInv'
<1>1. /\ TypeOK /\ TypeOK' /\ OnePlace /\ Letters /\ OneEach /\ Places /\ Requests /\ Family
      /\ Devices /\ ProcsOK /\ PoolOK /\ CreateOK /\ SoftOK /\ Ends /\ Serving
  BY PeaceFacts DEF WakeInv, IInv
<1>2. /\ machine = "on" /\ current_process = ssi_pcb /\ step \in {"serve", "inc", "store"}
      /\ step = "serve" => request.op = "doio"
      /\ UNCHANGED <<queues, cpu, process_count, tree, mail, request, doomed, devState, budget>>
  BY DEF SsiLoad, SsiStore, SsiAt, Serves
<1>3. /\ SsiLoad => loaded' = softBlockCount /\ step' = "store" /\ UNCHANGED softBlockCount
                    /\ step \in {"serve", "inc"}
      /\ SsiStore => softBlockCount' = loaded + 1 /\ step = "store"
                     /\ step' = IF request.op = "doio" THEN "block" ELSE "reply"
  BY DEF SsiLoad, SsiStore, SsiAt, Serves
<1>4. /\ request.op \in {"clock", "doio"} /\ (step = "inc" => request.op = "clock")
      /\ step' \in {"store", "block", "reply"} /\ (step' = "block" => request.op = "doio")
      /\ (step' = "reply" => request.op = "clock")
  BY <1>1, <1>2, <1>3 DEF Serving
<1>5. sender' = sender /\ InService' = InService /\ InService = {sender}
  BY <1>1, <1>2, <1>4, ServiceFacts, PeaceTypesNext DEF sender
<1>6. /\ Letters' /\ Mailed' = Mailed /\ Askers' = Askers /\ Holders' = Holders
      /\ OneEach' /\ Free' = Free /\ OnDevice' = OnDevice /\ OnClock' = OnClock
      /\ Waiting' = Waiting /\ Blocked' = Blocked
      /\ \A p \in Pcb : p \in (Linked \cup OnDevice \cup Running)'
  BY <1>2, <1>4, <1>5, Unmoved
<1>7. Places'
  BY <1>1, <1>2, <1>4, <1>5, <1>6 DEF Places
<1>8. Serving' /\ Killed'
  BY <1>2, <1>4 DEF Serving, Killed, KillSteps
<1>9. Requests' /\ Family' /\ Devices'
  BY <1>1, <1>2, <1>4, <1>6 DEF Requests, Proper, Family, Devices
<1>10. ProcsOK' /\ PoolOK' /\ Ends' /\ CreateOK'
  BY <1>1, <1>2, <1>4, <1>6, PoolSame, CreateKept DEF ProcsOK, Ends
<1>11. SoftOK'
  <2>1. Blocked \in Int
    <3>1. Cardinality(OnDevice) \in Nat /\ Len(pseudoClockQueue) \in Nat
      BY <1>1, PeaceTypes, Sizes, LenProperties DEF TypeOK
    <3> QED BY <3>1 DEF Blocked
  <2>2. CASE SsiLoad
    <3>1. Coming' = Coming
      BY <1>2, <1>3, <1>4, <2>2 DEF Coming
    <3> QED BY <1>1, <1>3, <1>6, <2>2, <3>1 DEF SoftOK
  <2>3. CASE SsiStore
    <3>1. Coming' = Coming - 1 /\ Coming \in Int
      BY <1>2, <1>3, <1>4, <2>3 DEF Coming
    <3>2. softBlockCount' = loaded + 1 /\ loaded \in Int /\ Blocked <= loaded + Coming
      BY <1>1, <1>3, <2>3 DEF SoftOK, TypeOK
    <3> QED BY <1>4, <1>6, <1>3, <2>1, <2>3, <3>1, <3>2 DEF SoftOK
  <2> QED BY <2>2, <2>3
<1> QED BY <1>6, <1>7, <1>8, <1>9, <1>10, <1>11 DEF PInv, Counting

\* outAnyProcQ(sender) takes it off a queue, and not off pcbFree_h.
LEMMA OutFacts ==
  ASSUME PInv, current_process = ssi_pcb, step \notin {"receive", "command"}, OutAnyProcQ(sender)
  PROVE  /\ pcbFree' = pcbFree /\ Ready' = Ready \ {sender}
         /\ receiveMessageQueue' = receiveMessageQueue \ {sender}
<1>1. /\ TypeOK /\ IsInjective(readyQueue) /\ sender \notin Free /\ sender \in ClientPcb
      /\ sender \in Pcb
  BY PeaceFacts, ServiceFacts DEF NoDuplicates
<1>2. pcbFree' = pcbFree
  BY <1>1, RemoveFirstSet DEF OutAnyProcQ, TypeOK, Free
<1>3. Ready' = Ready \ {sender}
  <2>1. readyQueue \in Seq(Pcb) /\ readyQueue' = RemoveFirst(readyQueue, sender)
    BY <1>1 DEF OutAnyProcQ, TypeOK
  <2> QED BY <1>1, <2>1, RemoveFirstSet DEF Ready
<1> QED BY <1>2, <1>3 DEF OutAnyProcQ

LEMMA PeaceSsiWaitForClock ==
  ASSUME Peaceful, PInv, WakeInv', SsiWaitForClock
  PROVE  PInv'
<1>1. /\ TypeOK /\ TypeOK' /\ OnePlace /\ Letters /\ OneEach /\ Places /\ Requests /\ Family
      /\ Devices /\ ProcsOK /\ PoolOK /\ CreateOK /\ SoftOK /\ Ends
  BY PeaceFacts DEF WakeInv, IInv
<1>2. /\ machine = "on" /\ current_process = ssi_pcb /\ step = "serve" /\ request.op = "clock"
      /\ OutAnyProcQ(sender) /\ step' = "inc"
      /\ pseudoClockQueue' = Append(RemoveFirst(pseudoClockQueue, sender), sender)
      /\ UNCHANGED <<devQueue, cpu, counts, tree, mail, request, loaded, doomed, devState, budget>>
  BY DEF SsiWaitForClock, SsiAt, Serves
<1>3. /\ InService = {sender} /\ sender \in ClientPcb /\ sender \in Pcb /\ sender \notin Askers
  BY <1>2, ServiceFacts
<1>4. /\ pcbFree' = pcbFree /\ Ready' = Ready \ {sender}
      /\ receiveMessageQueue' = receiveMessageQueue \ {sender}
  BY <1>2, OutFacts
<1>5. sender \notin OnClock
  BY <1>1, <1>2, <1>3 DEF Places
<1>6. /\ pseudoClockQueue' = Append(pseudoClockQueue, sender) /\ OnClock' = OnClock \cup {sender}
      /\ Len(pseudoClockQueue') = Len(pseudoClockQueue) + 1 /\ Len(pseudoClockQueue) \in Nat
  <2>1. pseudoClockQueue \in Seq(ClientPcb)
    BY <1>1 DEF TypeOK
  <2>2. pseudoClockQueue' = Append(pseudoClockQueue, sender)
    BY <1>2, <1>5, <2>1, RemoveFirstSet DEF OnClock
  <2> QED BY <1>3, <2>1, <2>2, AppendSet, AppendProperties, LenProperties DEF OnClock
<1>7. Letters' /\ Mailed' = Mailed /\ Askers' = Askers /\ Holders' = Holders
  BY <1>1, <1>2, MailSame
<1>8. /\ sender' = sender /\ InService' = InService /\ OnDevice' = OnDevice /\ Free' = Free
      /\ Waiting' = Waiting /\ Running' = Running
  BY <1>1, <1>2, <1>3, <1>4, PeaceTypesNext DEF sender, OnDevice, Free, Waiting, Running
<1>9. OneEach'
  BY <1>1, <1>7, <1>8 DEF OneEach
<1>10. Places'
  <2>1. \A p \in Pcb : p \in Linked' \cup OnDevice' \cup Running'
    BY <1>1, <1>2, <1>4, <1>6, <1>8 DEF Places, Linked
  <2>2. OnClock' \cap Askers' = {}
    BY <1>1, <1>3, <1>6, <1>7 DEF Places
  <2> QED BY <1>2, <2>1, <2>2 DEF Places
<1>11. Serving' /\ Killed' /\ Requests' /\ Family' /\ Devices'
  <2>1. Serving' /\ Killed'
    BY <1>2 DEF Serving, Killed, KillSteps
  <2> QED BY <1>1, <1>2, <1>7, <1>8, <2>1 DEF Requests, Proper, Family, Devices
<1>12. ProcsOK' /\ PoolOK' /\ Ends' /\ CreateOK'
  BY <1>1, <1>2, <1>4, <1>7, PoolSame, CreateKept DEF ProcsOK, Ends
<1>13. SoftOK'
  <2>1. Coming = 0 /\ Coming' = 1
    BY <1>2 DEF Coming
  <2>2. Cardinality(OnDevice) \in Nat /\ softBlockCount \in Int
    BY <1>1, PeaceTypes, Sizes DEF TypeOK
  <2>3. Blocked' = Blocked + 1 /\ Blocked \in Int
    BY <1>6, <1>8, <2>2 DEF Blocked
  <2> QED BY <1>1, <1>2, <2>1, <2>2, <2>3 DEF SoftOK
<1> QED BY <1>7, <1>9, <1>10, <1>11, <1>12, <1>13 DEF PInv, Counting

LEMMA PeaceSsiBlock ==
  ASSUME Peaceful, PInv, WakeInv', SsiBlock
  PROVE  PInv'
<1>1. /\ TypeOK /\ TypeOK' /\ OnePlace /\ Letters /\ OneEach /\ Places /\ Requests /\ Family
      /\ Devices /\ ProcsOK /\ PoolOK /\ CreateOK /\ SoftOK /\ Ends /\ Serving
  BY PeaceFacts DEF WakeInv, IInv
<1>2. /\ machine = "on" /\ current_process = ssi_pcb /\ step = "block"
      /\ OutAnyProcQ(sender) /\ step' = "command"
      /\ pseudoClockQueue' = RemoveFirst(pseudoClockQueue, sender)
      /\ devQueue' = [devQueue EXCEPT ![request.arg] = sender]
      /\ UNCHANGED <<cpu, counts, tree, mail, request, loaded, doomed, devState, budget>>
  BY DEF SsiBlock, SsiAt
<1>3. /\ InService = {sender} /\ sender \in ClientPcb /\ sender \in Pcb /\ sender \notin Askers
      /\ sender \notin OnDevice /\ sender \notin Holders /\ Proper(request)
  BY <1>2, ServiceFacts
<1>4. /\ pcbFree' = pcbFree /\ Ready' = Ready \ {sender}
      /\ receiveMessageQueue' = receiveMessageQueue \ {sender}
  BY <1>2, OutFacts
<1> DEFINE d == request.arg
<1>5. d \in drives[sender] /\ d \in Device /\ request.op = "doio"
  BY <1>1, <1>2, <1>3, NucleusAssumption DEF Serving, Proper, sender
<1> HIDE DEF d
\* The slot is free: whoever were in it drives the device too, and would be the sender.
<1>6. /\ devQueue \in [Device -> ClientPcb \cup {NULL}]
      /\ devQueue[d] = NULL /\ devState[d] = "idle"
  <2>1. devQueue \in [Device -> ClientPcb \cup {NULL}]
    BY <1>1 DEF TypeOK
  <2>2. ASSUME devQueue[d] # NULL PROVE FALSE
    <3>1. devQueue[d] \in ClientPcb /\ devQueue[d] \in OnDevice /\ d \in drives[devQueue[d]]
      BY <1>1, <1>5, <2>1, <2>2 DEF Devices, OnDevice
    <3>2. devQueue[d] = sender
      BY <1>3, <1>5, <3>1, ConstantTypes DEF Peaceful, ClientPcb
    <3> QED BY <1>3, <3>1, <3>2
  <2> QED BY <1>1, <1>5, <2>1, <2>2 DEF Devices
<1>7. devQueue'[d] = sender /\ \A e \in Device \ {d} : devQueue'[e] = devQueue[e]
  BY <1>2, <1>5, <1>6 DEF d
<1>8. OnDevice' = OnDevice \cup {sender}
  BY <1>3, <1>5, <1>6, <1>7, ConstantTypes DEF OnDevice
<1>9. sender \notin OnClock /\ pseudoClockQueue' = pseudoClockQueue
  <2>1. sender \notin OnClock
    BY <1>1, <1>3, <1>5 DEF Places
  <2> QED BY <1>1, <1>2, <2>1, RemoveFirstSet DEF OnClock, TypeOK
<1>10. Letters' /\ Mailed' = Mailed /\ Askers' = Askers /\ Holders' = Holders
  BY <1>1, <1>2, MailSame
<1>11. /\ sender' = sender /\ InService' = {} /\ OnClock' = OnClock /\ Free' = Free
       /\ Waiting' = Waiting /\ Running' = Running
  BY <1>1, <1>2, <1>4, <1>9, PeaceTypesNext DEF sender, OnClock, Free, Waiting, Running
<1>12. OneEach'
  BY <1>1, <1>3, <1>8, <1>10, <1>11 DEF OneEach
<1>13. Places'
  BY <1>1, <1>2, <1>4, <1>8, <1>10, <1>11 DEF Places, Linked
<1>14. Serving' /\ Killed' /\ Requests' /\ Family'
  <2>1. Serving' /\ Killed'
    BY <1>2, <1>5 DEF Serving, Killed, KillSteps
  <2> QED BY <1>1, <1>2, <1>10, <1>11, <2>1 DEF Requests, Proper, Family
<1>15. Devices'
  <2>1. \A e \in Device : devQueue'[e] # NULL => e \in drives[devQueue'[e]]
    BY <1>1, <1>5, <1>7 DEF Devices
  <2>2. \A e \in Device : devState[e] # "idle" => devQueue'[e] # NULL
    BY <1>1, <1>6, <1>7 DEF Devices
  <2> QED BY <1>1, <1>2, <1>6, <1>7, <1>11, <2>1, <2>2 DEF Devices, d
<1>16. ProcsOK' /\ PoolOK' /\ Ends' /\ CreateOK'
  BY <1>1, <1>2, <1>4, <1>10, PoolSame, CreateKept DEF ProcsOK, Ends
<1>17. SoftOK'
  <2>1. Coming = -1 /\ Coming' = 0
    BY <1>2, <1>5 DEF Coming
  <2>2. /\ Cardinality(OnDevice) \in Nat /\ Cardinality(OnDevice') = Cardinality(OnDevice) + 1
        /\ Len(pseudoClockQueue) \in Nat /\ softBlockCount \in Int
    BY <1>1, <1>3, <1>8, PeaceTypes, Sizes, LenProperties DEF TypeOK
  <2>3. Blocked' = Blocked + 1 /\ Blocked \in Int
    BY <1>9, <2>2 DEF Blocked
  <2> QED BY <1>1, <1>2, <2>1, <2>2, <2>3 DEF SoftOK
<1> QED BY <1>10, <1>12, <1>13, <1>14, <1>15, <1>16, <1>17 DEF PInv, Counting

LEMMA PeaceSsiUnlinkFails == PInv => ~SsiUnlinkFails
<1> SUFFICES ASSUME PInv, SsiUnlinkFails PROVE FALSE
  OBVIOUS
<1>1. step \in {"serve", "block"} /\ current_process = ssi_pcb /\ sender \notin Linked
  BY DEF SsiUnlinkFails, Serves, SsiAt
<1>2. sender \in Pcb /\ sender # ssi_pcb /\ sender \notin OnDevice
  BY <1>1, ServiceFacts
<1>3. sender \notin Running
  BY <1>1, <1>2 DEF Running
<1> QED BY <1>1, <1>2, <1>3, PeaceFacts DEF Places

LEMMA PeaceSsiCommand ==
  ASSUME Peaceful, PInv, WakeInv', SsiCommand
  PROVE  PInv'
<1>1. /\ TypeOK /\ TypeOK' /\ OnePlace /\ Letters /\ OneEach /\ Places /\ Requests /\ Family
      /\ Devices /\ ProcsOK /\ PoolOK /\ CreateOK /\ SoftOK /\ Ends
  BY PeaceFacts DEF WakeInv, IInv
<1>2. /\ machine = "on" /\ current_process = ssi_pcb /\ step = "command" /\ step' = "receive"
      /\ devState' = [devState EXCEPT ![request.arg] = "busy"]
      /\ UNCHANGED <<queues, cpu, counts, tree, mail, request, loaded, doomed, budget>>
  BY DEF SsiCommand, SsiAt
<1>3. InService = {} /\ InService' = {}
  BY <1>1, <1>2, PeaceTypes, PeaceTypesNext
<1>4. /\ Letters' /\ Mailed' = Mailed /\ Askers' = Askers /\ Holders' = Holders
      /\ OneEach' /\ Free' = Free /\ OnDevice' = OnDevice /\ OnClock' = OnClock
      /\ Waiting' = Waiting /\ Blocked' = Blocked
      /\ \A p \in Pcb : p \in (Linked \cup OnDevice \cup Running)'
  BY <1>2, <1>3, Unmoved
<1>5. Places' /\ Serving' /\ Killed' /\ Requests' /\ Family'
  <2>1. Places'
    BY <1>1, <1>2, <1>3, <1>4 DEF Places
  <2>2. Serving' /\ Killed'
    BY <1>2 DEF Serving, Killed, KillSteps
  <2> QED BY <1>1, <1>2, <1>4, <2>1, <2>2 DEF Requests, Proper, Family
<1>6. Devices'
  <2>1. sender \in Pcb /\ sender # NULL
    BY <1>1, PeaceTypes
  <2>2. devState \in [Device -> DeviceState]
    BY <1>1 DEF TypeOK
  <2>3. \A e \in Device : devState'[e] = IF e = request.arg THEN "busy" ELSE devState[e]
    BY <1>2, <2>2
  <2> QED BY <1>1, <1>2, <2>1, <2>3 DEF Devices
<1>7. ProcsOK' /\ PoolOK' /\ Ends' /\ CreateOK'
  BY <1>1, <1>2, <1>4, PoolSame, CreateKept DEF ProcsOK, Ends
<1>8. SoftOK'
  <2>1. Coming = 0 /\ Coming' = 0
    BY <1>2 DEF Coming
  <2> QED BY <1>1, <1>2, <1>4, <2>1 DEF SoftOK
<1> QED BY <1>4, <1>5, <1>6, <1>7, <1>8 DEF PInv, Counting
------------------------------------------------------------------------------
(* killProcess().                                                           *)

LEMMA PeaceKillUnblocked ==
  ASSUME Peaceful, PInv, WakeInv', KillUnblocked
  PROVE  PInv'
<1>1. /\ TypeOK /\ TypeOK' /\ OnePlace /\ Letters /\ OneEach /\ Places /\ Requests /\ Family
      /\ Devices /\ ProcsOK /\ PoolOK /\ CreateOK /\ SoftOK /\ Ends /\ Killed /\ KillSound
  BY PeaceFacts DEF WakeInv, IInv
<1>2. /\ machine = "on" /\ step = "kill" /\ p_child[Dying] = {}
      /\ UNCHANGED <<pcbFree, pseudoClockQueue, devQueue, cpu, counts, tree, mail, request,
                     loaded, doomed, devState, budget>>
  BY DEF KillUnblocked, Killing
<1>3. /\ Dying \in ClientPcb /\ Dying \in Pcb /\ current_process # NULL
      /\ current_process = ssi_pcb => Dying = sender /\ request.op \in {"terminate", "invalid"}
      /\ current_process # ssi_pcb => Dying = current_process
  BY <1>1, <1>2, DyingFacts DEF Killed, KillSteps, KillSound, ClientPcb
\* The victim is in a queue, or runs.
<1>4. Dying \in Ready \cup receiveMessageQueue \cup Running
  <2>1. CASE current_process = ssi_pcb
    <3>1. sender \notin Free /\ sender \notin OnDevice /\ sender # ssi_pcb /\ InService = {sender}
      BY <1>2, <2>1, ServiceFacts
    <3>2. sender \notin OnClock
      BY <1>1, <1>2, <1>3, <2>1, <3>1 DEF Places
    <3> QED BY <1>1, <1>2, <1>3, <2>1, <3>1, <3>2 DEF Places, Linked
  <2>2. CASE current_process # ssi_pcb
    BY <1>3, <2>2 DEF Running
  <2> QED BY <2>1, <2>2
<1>5. /\ step' = "free" /\ readyQueue' = RemoveFirst(readyQueue, Dying)
      /\ receiveMessageQueue' = receiveMessageQueue \ {Dying}
  BY <1>4 DEF KillUnblocked
<1>6. Ready \subseteq Ready' \cup {Dying}
  BY <1>1, <1>5, RemoveFirstSet DEF Ready, TypeOK
<1>7. /\ sender' = sender /\ InService' = InService /\ OnDevice' = OnDevice /\ Free' = Free
      /\ Waiting' = Waiting /\ Running' = Running /\ OnClock' = OnClock /\ Blocked' = Blocked
      /\ Dying' = Dying
  BY <1>1, <1>2, <1>5, PeaceTypes, PeaceTypesNext
     DEF sender, OnDevice, Free, Waiting, Running, OnClock, Blocked, Dying
<1>8. Letters' /\ Mailed' = Mailed /\ Askers' = Askers /\ Holders' = Holders
  BY <1>1, <1>2, MailSame
<1>9. OneEach'
  BY <1>1, <1>7, <1>8 DEF OneEach
<1>10. Places'
  <2>1. \A p \in Pcb : p \in (Linked \cup OnDevice \cup Running)' \/ p = Dying
    BY <1>1, <1>2, <1>5, <1>6, <1>7 DEF Places, Linked
  <2>2. OnClock \cap InService = {}
    BY <1>1, <1>2 DEF Places
  <2> QED BY <1>1, <1>5, <1>7, <1>8, <2>1, <2>2 DEF Places
<1>11. Serving' /\ Killed' /\ Requests' /\ Family' /\ Devices'
  <2>1. Serving'
    BY <1>5 DEF Serving, SsiSteps
  <2>2. Dying \notin Linked'
    <3>1. Dying \notin Ready'
      BY <1>1, <1>5, RemoveFirstSet DEF Ready, TypeOK, OnePlace, NoDuplicates
    <3>2. Dying \notin Free /\ Dying \notin OnClock
      BY <1>1, <1>4 DEF OnePlace, Apart
    <3> QED BY <1>5, <1>7, <3>1, <3>2 DEF Linked
  <2>3. Killed'
    BY <1>1, <1>2, <1>5, <1>7, <2>2 DEF Killed, KillSteps
  <2> QED BY <1>1, <1>2, <1>5, <1>7, <1>8, <2>1, <2>3 DEF Requests, Proper, Family, Devices
<1>12. ProcsOK' /\ PoolOK' /\ Ends' /\ CreateOK' /\ SoftOK'
  <2>1. Coming = 0 /\ Coming' = 0
    BY <1>2, <1>5 DEF Coming
  <2>2. PoolOK' /\ CreateOK'
    BY <1>1, <1>2, <1>5, <1>8, PoolSame, CreateKept
  <2> QED BY <1>1, <1>2, <1>5, <1>7, <2>1, <2>2 DEF ProcsOK, Ends, SoftOK
<1> QED BY <1>8, <1>9, <1>10, <1>11, <1>12 DEF PInv, Counting

\* freePcb(), and back to killCall() or to passUpOrDie().
LEMMA PeaceKillFree ==
  ASSUME Peaceful, PInv, WakeInv', KillFree
  PROVE  PInv'
<1>1. /\ TypeOK /\ TypeOK' /\ OnePlace /\ Letters /\ OneEach /\ Places /\ Requests /\ Family
      /\ Devices /\ ProcsOK /\ PoolOK /\ CreateOK /\ SoftOK /\ Ends /\ Killed /\ KillSound
  BY PeaceFacts DEF WakeInv, IInv
<1>2. /\ machine = "on" /\ step = "free" /\ Dying \notin Linked
      /\ pcbFree' = Append(pcbFree, Dying) /\ process_count' = process_count - 1
      /\ UNCHANGED <<receiveMessageQueue, pseudoClockQueue, devQueue, softBlockCount, tree, mail,
                     request, loaded, devState, budget>>
  BY <1>1 DEF KillFree, Killing, Killed, KillSteps
<1>3. /\ Dying \in ClientPcb /\ Dying \in Pcb /\ current_process # NULL /\ Len(doomed) = 1
      /\ p_child[Dying] = {}
      /\ current_process = ssi_pcb => Dying = sender /\ request.op \in {"terminate", "invalid"}
      /\ current_process # ssi_pcb => Dying = current_process /\ awaiting[Dying] = Computing
  BY <1>1, <1>2, DyingFacts DEF Killed, KillSteps, KillSound, ClientPcb
<1>4. /\ step' = "receive"
      /\ current_process = ssi_pcb => UNCHANGED <<cpu, readyQueue>>
      /\ current_process # ssi_pcb
         => Scheduler(readyQueue, process_count - 1, softBlockCount, TRUE)
  <2>1. ~(Len(doomed) > 1)
    BY <1>3
  <2>2. CASE current_process = ssi_pcb
    <3>1. Proper(request) /\ step' = AfterKillCall /\ UNCHANGED <<cpu, readyQueue>>
      BY <1>2, <2>1, <2>2, ServiceFacts DEF KillFree
    <3> QED BY <1>3, <2>2, <3>1 DEF AfterKillCall, Proper
  <2>3. CASE current_process # ssi_pcb
    <3>1. step' = "receive" /\ Scheduler(readyQueue, process_count - 1, softBlockCount, TRUE)
      BY <1>2, <2>1, <2>3 DEF KillFree
    <3> QED BY <2>3, <3>1
  <2> QED BY <2>2, <2>3
<1>5. InService' = {} /\ Waiting' = Waiting \ InService
  <2>1. InService' = {}
    BY <1>1, <1>4, PeaceTypesNext
  <2>2. Free' = Free \cup {Dying}
    BY <1>1, <1>2, <1>3, AppendSet DEF Free, TypeOK
  <2>3. Waiting' = Waiting \ {Dying}
    BY <1>2, <2>2 DEF Waiting
  <2>4. CASE current_process = ssi_pcb
    BY <1>2, <1>3, <2>1, <2>3, <2>4, ServiceFacts
  <2>5. CASE current_process # ssi_pcb
    <3>1. InService = {} /\ Dying \notin Waiting
      BY <1>1, <1>3, <2>5, PeaceTypes DEF Waiting
    <3> QED BY <2>1, <2>3, <3>1
  <2> QED BY <2>1, <2>4, <2>5
<1>6. /\ Free' = Free \cup {Dying} /\ OnDevice' = OnDevice /\ OnClock' = OnClock
      /\ Blocked' = Blocked
  BY <1>1, <1>2, <1>3, AppendSet DEF Free, TypeOK, OnDevice, OnClock, Blocked
<1>7. Letters' /\ Mailed' = Mailed /\ Askers' = Askers /\ Holders' = Holders
  BY <1>1, <1>2, MailSame
<1>8. OneEach'
  BY <1>1, <1>5, <1>6, <1>7 DEF OneEach
\* Who ran runs on, or is dead, and scheduler() is called.
<1>9. /\ Ready \cup Running \subseteq Ready' \cup Running' \cup {Dying} /\ machine' # "corrupt"
      /\ machine' = "halt" => process_count' = 1
      /\ machine' = "panic" => softBlockCount' = 0
  <2>1. CASE current_process = ssi_pcb
    <3>1. UNCHANGED <<cpu, readyQueue>>
      BY <1>4, <2>1
    <3> QED BY <1>2, <3>1 DEF Ready, Running
  <2>2. CASE current_process # ssi_pcb
    <3>1. Scheduler(readyQueue, process_count - 1, softBlockCount, TRUE)
      BY <1>4, <2>2
    <3>2. readyQueue \in Seq(Pcb) /\ process_count - 1 \in Int /\ softBlockCount \in Int
      BY <1>1 DEF TypeOK
    <3>3. Ready' \cup Running' = Ready
      BY <3>1, <3>2, SchedulerFacts DEF Ready
    <3>4. /\ machine' # "corrupt" /\ (machine' = "halt" => process_count - 1 = 1)
          /\ machine' = "panic" => softBlockCount = 0
      BY <3>1, <3>2, SchedulerEnds
    <3> QED BY <1>2, <1>3, <2>2, <3>3, <3>4 DEF Running
  <2> QED BY <2>1, <2>2
<1>10. Places'
  <2>1. \A p \in Pcb : p \in (Linked \cup OnDevice \cup Running)'
    BY <1>1, <1>2, <1>6, <1>9 DEF Places, Linked
  <2> QED BY <1>1, <1>5, <1>6, <1>7, <2>1 DEF Places
<1>11. Serving' /\ Killed' /\ Requests' /\ Family' /\ Devices'
  BY <1>1, <1>2, <1>3, <1>4, <1>6, <1>7
     DEF Serving, Killed, KillSteps, Requests, Proper, Family, Devices
<1>12. Len(pcbFree) \in Nat /\ Len(pcbFree') = Len(pcbFree) + 1 /\ pcbFree' \in Seq(ClientPcb)
  BY <1>1, <1>2, <1>3, AppendProperties, LenProperties DEF TypeOK
<1>13. CreateOK'
  <2>1. Creators' \subseteq Creators
    BY <1>4, <1>7, CreatorsSame
  <2>2. budget' \in [ClientOps -> Nat] /\ \A k \in ClientOps : budget'[k] <= budget[k]
    BY <1>1, <1>2 DEF TypeOK
  <2> QED BY <1>1, <1>12, <2>1, <2>2, CreateSame
<1>14. ProcsOK' /\ PoolOK' /\ Ends' /\ SoftOK'
  <2>1. Coming = 0 /\ Coming' = 0
    BY <1>2, <1>4 DEF Coming
  <2>2. PoolOK'
    BY <1>1, <1>2, <1>7, PoolSame
  <2>3. process_count \in Int /\ Cardinality(Pcb) \in Nat
    BY <1>1, Sizes DEF TypeOK
  <2>4. ProcsOK'
    BY <1>1, <1>2, <1>12, <2>3 DEF ProcsOK
  <2>5. SoftOK' /\ Ends'
    BY <1>1, <1>2, <1>4, <1>6, <1>9, <2>1 DEF SoftOK, Ends
  <2> QED BY <2>2, <2>4, <2>5
<1> QED BY <1>7, <1>8, <1>10, <1>11, <1>13, <1>14 DEF PInv, Counting

LEMMA PeaceKill ==
  ASSUME Peaceful, PInv, WakeInv', KillProcess
  PROVE  PInv'
<1>1. step \in KillSteps => step \in {"kill", "free"} /\ p_child[Dying] = {}
  BY PeaceFacts DEF Killed
<1>2. ~KillChild
  BY <1>1 DEF KillChild, Killing, KillSteps
<1>3. ~KillSeek /\ ~KillLoad /\ ~KillStore /\ ~KillOutClock /\ ~KillOutDev
  BY <1>1 DEF KillSeek, KillLoad, KillStore, KillOutClock, KillOutDev, Killing, KillSteps
<1> QED BY <1>2, <1>3, PeaceKillUnblocked, PeaceKillFree DEF KillProcess
------------------------------------------------------------------------------
(* The interrupts.                                                          *)

\* The interrupted process, if any, runs on; there is one while a service is given.
LEMMA ResumePeace ==
  ASSUME PInv, TypeOK', NEW ready \in Seq(Pcb), NEW soft \in Int, InterruptsOn,
         ResumeOrSchedule(ready, soft), UNCHANGED ssi
  PROVE  /\ InService' = InService /\ Ready' \cup Running' = ToSet(ready) \cup Running
         /\ sender' = sender /\ Dying' = Dying /\ Coming' = Coming
         /\ step # "receive" => current_process' = current_process
         /\ machine' # "corrupt" /\ (machine' = "halt" => process_count = 1)
         /\ machine' = "panic" => soft = 0 /\ step' = "receive"
<1>1. TypeOK /\ Serving /\ KillSound
  BY PeaceFacts
<1>2. current_process = NULL => step = "receive"
  BY <1>1, ConstantTypes DEF Serving, KillSound, TypeOK
<1>3. Ready' \cup Running' = ToSet(ready) \cup Running
  BY <1>1, ResumeFacts
<1>4. sender' = sender /\ Dying' = Dying /\ Coming' = Coming
  BY DEF sender, Dying, Coming
<1>5. CASE current_process # NULL /\ UNCHANGED cpu
  BY <1>1, <1>3, <1>4, <1>5, PeaceTypes, PeaceTypesNext DEF InterruptsOn
<1>6. CASE current_process = NULL /\ Scheduler(ready, process_count, soft, FALSE)
  <2>1. process_count \in Int
    BY <1>1 DEF TypeOK
  <2>2. /\ machine' # "corrupt" /\ (machine' = "halt" => process_count = 1)
        /\ machine' = "panic" => soft = 0
    BY <1>6, <2>1, SchedulerEnds
  <2> QED BY <1>1, <1>2, <1>3, <1>4, <1>6, <2>2, PeaceTypes, PeaceTypesNext
<1> QED BY <1>5, <1>6 DEF ResumeOrSchedule

\* After a step the process that runs is in no list.
LEMMA NextApart == WakeInv' /\ machine' # "corrupt" => Running' \cap Linked' = {}
BY DEF WakeInv, IInv, OnePlace, Apart, Linked

LEMMA PeaceIdle ==
  ASSUME Peaceful, PInv, WakeInv', LocalTimerIdle \/ \E d \in Device : DeviceCompletes(d)
  PROVE  PInv'
<1>1. /\ TypeOK /\ TypeOK' /\ OnePlace /\ Letters /\ OneEach /\ Places /\ Requests /\ Family
      /\ Devices /\ ProcsOK /\ PoolOK /\ CreateOK /\ SoftOK /\ Ends /\ Serving /\ Killed
  BY PeaceFacts DEF WakeInv, IInv
<1>2. /\ UNCHANGED <<queues, current_process, counts, tree, mail, ssi, budget>>
      /\ machine' \in {machine, "crash"} /\ machine \notin {"halt", "panic"}
  BY DEF LocalTimerIdle, DeviceCompletes
<1>3. InService' = InService /\ sender' = sender /\ Dying' = Dying
  BY <1>1, <1>2, PeaceTypes, PeaceTypesNext DEF sender, Dying
<1>4. /\ Letters' /\ Mailed' = Mailed /\ Askers' = Askers /\ Holders' = Holders
      /\ OneEach' /\ Free' = Free /\ OnDevice' = OnDevice /\ OnClock' = OnClock
      /\ Waiting' = Waiting /\ Blocked' = Blocked
  BY <1>2, <1>3, Unmoved
<1>5. Places' /\ Killed'
  <2>1. Linked' = Linked /\ Running' = Running
    BY <1>2 DEF Linked, Free, Ready, OnClock, Running
  <2> QED BY <1>1, <1>2, <1>3, <1>4, <2>1 DEF Places, Killed
<1>6. Serving' /\ Requests' /\ Family'
  BY <1>1, <1>2, <1>4 DEF Serving, Requests, Proper, Family
<1>7. Devices'
  <2>1. CASE LocalTimerIdle
    BY <1>1, <1>2, <1>3, <2>1 DEF Devices, LocalTimerIdle
  <2>2. CASE \E d \in Device : DeviceCompletes(d)
    <3>1. PICK d \in Device : DeviceCompletes(d)
      BY <2>2
    <3>2. PICK r \in {"done"} \cup IF d \in Faulty THEN {"failed"} ELSE {} :
                 devState' = [devState EXCEPT ![d] = r]
      BY <3>1 DEF DeviceCompletes
    <3>3. devState[d] = "busy" /\ devState \in [Device -> DeviceState]
      BY <1>1, <3>1 DEF DeviceCompletes, TypeOK
    <3>4. \A e \in Device : devState'[e] = IF e = d THEN r ELSE devState[e]
      BY <3>2, <3>3
    <3>5. r = "failed" => d \in Faulty
      BY <3>2
    <3>6. step = "command" => request.arg # d
      BY <1>1, <3>3 DEF Devices
    <3>7. step = "command" => request.arg \in Device
      <4>1. request.op = "doio" => request.arg \in Device
        BY <1>1 DEF TypeOK, SsiMessage
      <4> QED BY <1>1, <4>1 DEF Serving
    <3> QED BY <1>1, <1>2, <1>3, <3>3, <3>4, <3>5, <3>6, <3>7 DEF Devices
  <2> QED BY <1>2, <2>1, <2>2 DEF LocalTimerIdle, DeviceCompletes
<1>8. ProcsOK' /\ PoolOK' /\ CreateOK' /\ SoftOK' /\ Ends'
  <2>1. PoolOK' /\ CreateOK'
    BY <1>1, <1>2, <1>4, PoolSame, CreateKept
  <2> QED BY <1>1, <1>2, <1>4, <2>1 DEF ProcsOK, SoftOK, Coming, Ends
<1> QED BY <1>4, <1>5, <1>6, <1>7, <1>8 DEF PInv, Counting

LEMMA PeaceTimer ==
  ASSUME Peaceful, PInv, WakeInv', IntervalTimer
  PROVE  PInv'
<1>1. /\ TypeOK /\ TypeOK' /\ OnePlace /\ Letters /\ OneEach /\ Places /\ Requests /\ Family
      /\ Devices /\ ProcsOK /\ PoolOK /\ CreateOK /\ SoftOK /\ Ends /\ Serving /\ Killed
  BY PeaceFacts DEF WakeInv, IInv
<1> DEFINE soft == softBlockCount - Len(pseudoClockQueue)
           ready == readyQueue \o pseudoClockQueue
<1>2. /\ InterruptsOn /\ softBlockCount' = soft /\ ResumeOrSchedule(ready, soft)
      /\ pseudoClockQueue' = <<>>
      /\ UNCHANGED <<pcbFree, receiveMessageQueue, devQueue, process_count, tree, mail, ssi,
                     devState, budget>>
  BY DEF IntervalTimer
<1>3. /\ ready \in Seq(Pcb) /\ ToSet(ready) = Ready \cup OnClock
      /\ Len(pseudoClockQueue) \in Nat /\ soft \in Int
  <2>1. readyQueue \in Seq(Pcb) /\ pseudoClockQueue \in Seq(Pcb) /\ softBlockCount \in Int
    BY <1>1, ConstantTypes, SeqMonotonic DEF TypeOK
  <2> QED BY <2>1, ConcatSet, LenProperties DEF Ready, OnClock
<1>4. softBlockCount' = softBlockCount - Len(pseudoClockQueue) /\ soft = softBlockCount'
  BY <1>2
<1> HIDE DEF soft, ready
<1>5. /\ InService' = InService /\ Ready' \cup Running' = Ready \cup OnClock \cup Running
      /\ sender' = sender /\ Dying' = Dying /\ Coming' = Coming
      /\ step # "receive" => current_process' = current_process
      /\ machine' # "corrupt" /\ (machine' = "halt" => process_count = 1)
      /\ machine' = "panic" => soft = 0 /\ step' = "receive"
  BY <1>1, <1>2, <1>3, ResumePeace
<1>6. OnClock' = {} /\ OnDevice' = OnDevice /\ Free' = Free /\ Waiting' = Waiting
  BY <1>2 DEF OnClock, ToSet, OnDevice, Free, Waiting
<1>7. Letters' /\ Mailed' = Mailed /\ Askers' = Askers /\ Holders' = Holders
  BY <1>1, <1>2, MailSame
<1>8. OneEach'
  BY <1>1, <1>5, <1>6, <1>7 DEF OneEach
<1>9. Places'
  BY <1>1, <1>2, <1>5, <1>6, <1>7 DEF Places, Linked
<1>10. Serving' /\ Requests' /\ Family' /\ Devices'
  <2>1. Serving' /\ Devices'
    BY <1>1, <1>2, <1>5 DEF Serving, SsiSteps, Devices
  <2>2. step # "receive" /\ current_process' = ssi_pcb => Proper(request)
    BY <1>1, <1>5 DEF Requests
  <2> QED BY <1>1, <1>2, <1>6, <1>7, <2>1, <2>2 DEF Requests, Proper, Family
<1>11. Killed'
  <2>1. ASSUME step = "free" PROVE Dying \notin Linked'
    <3>1. /\ Dying \notin Linked /\ current_process' = current_process /\ Dying \in Pcb
          /\ Dying # ssi_pcb /\ Dying # NULL
          /\ current_process # ssi_pcb => Dying = current_process
      BY <1>1, <1>5, <2>1, DyingFacts DEF Killed, KillSteps
    <3>2. CASE current_process = ssi_pcb
      BY <1>2, <1>5, <1>6, <3>1, <3>2 DEF Linked, Running
    <3>3. CASE current_process # ssi_pcb
      <4>1. Dying \in Running'
        BY <3>1, <3>3 DEF Running
      <4>2. Running' \cap Linked' = {}
        BY <1>5, NextApart
      <4> QED BY <4>1, <4>2
    <3> QED BY <3>2, <3>3
  <2>2. step' = "free" => Dying' \notin Linked'
    BY <1>2, <1>5, <2>1
  <2>3. step \in KillSteps => current_process' = current_process
    BY <1>5 DEF KillSteps
  <2> QED BY <1>1, <1>2, <1>5, <2>2, <2>3 DEF Killed
<1>12. ProcsOK' /\ PoolOK' /\ CreateOK' /\ Ends'
  <2>1. PoolOK' /\ CreateOK'
    BY <1>1, <1>2, <1>7, PoolSame, CreateKept
  <2> QED BY <1>1, <1>2, <1>4, <1>5, <2>1 DEF ProcsOK, Ends
<1>13. SoftOK'
  <2>1. Cardinality(OnDevice) \in Nat /\ softBlockCount \in Int /\ loaded \in Int
    BY <1>1, PeaceTypes, Sizes DEF TypeOK
  <2>4. Coming \in Int
    BY DEF Coming
  <2>2. Blocked' = Blocked - Len(pseudoClockQueue)
    <3>1. Len(pseudoClockQueue') = 0
      BY <1>2
    <3> QED BY <1>3, <1>6, <2>1, <3>1 DEF Blocked
  <2>3. Blocked \in Int
    BY <1>3, <2>1 DEF Blocked
  <2> QED BY <1>1, <1>2, <1>3, <1>4, <1>5, <2>1, <2>2, <2>3, <2>4 DEF SoftOK
<1> QED BY <1>7, <1>8, <1>9, <1>10, <1>11, <1>12, <1>13 DEF PInv, Counting

\* deviceInterrupt() serves a device that has finished, and finds its user.
LEMMA PeaceInterrupting ==
  ASSUME Peaceful, PInv, Pending # {}
  PROVE  /\ Interrupting \in Pending /\ Interrupting \in Device
         /\ devQueue[Interrupting] # NULL
<1>1. TypeOK /\ Devices
  BY PeaceFacts
<1> DEFINE onLine == {d \in Pending : d[1] = PendingLine}
<1>2. \A d \in Device : d[1] \in Nat /\ d = <<d[1], d[2]>>
  <2> SUFFICES ASSUME NEW d \in Device PROVE d[1] \in Nat /\ d = <<d[1], d[2]>>
    OBVIOUS
  <2>1. d \in {3, 4, 6, 7} \X (0..7)
    BY NucleusAssumption DEF DISKINT, FLASHINT, PRNTINT, TERMINT
  <2>2. d[1] \in {3, 4, 6, 7} /\ d = <<d[1], d[2]>>
    BY <2>1
  <2> QED BY <2>2
<1>3. PendingLine \in {d[1] : d \in Pending}
  <2>1. {d[1] : d \in Pending} \subseteq Nat /\ {d[1] : d \in Pending} # {}
    BY <1>2 DEF Pending
  <2> QED BY <2>1, MinNat DEF PendingLine
<1>4. PICK e \in Pending : e[1] = PendingLine
  BY <1>3
<1>5. \A d \in Pending : d \in Device /\ devQueue[d] # NULL
  BY <1>1 DEF Pending, Devices
<1>6. \A d \in Pending : devQueue[d] \in Pcb /\ d \in drives[devQueue[d]]
  BY <1>1, <1>5, ConstantTypes DEF Devices, TypeOK, ClientPcb
<1>7. \A d \in Pending : d[1] = e[1] => d = e
  BY <1>4, <1>6 DEF Peaceful
<1>8. onLine = {e}
  BY <1>4, <1>7
<1>9. Cardinality(onLine) = 1 /\ (CHOOSE d \in onLine : TRUE) = e
  BY <1>8, FS_Singleton
<1>10. Interrupting = <<e[1], e[2]>>
  BY <1>4, <1>9 DEF Interrupting, DeviceNumber
<1> QED BY <1>2, <1>4, <1>5, <1>10

LEMMA PeaceDevice ==
  ASSUME Peaceful, PInv, WakeInv', DeviceInterrupt
  PROVE  PInv'
<1>1. /\ TypeOK /\ TypeOK' /\ OnePlace /\ Letters /\ OneEach /\ Places /\ Requests /\ Family
      /\ Devices /\ ProcsOK /\ PoolOK /\ CreateOK /\ SoftOK /\ Ends /\ Serving /\ Killed
      /\ NoDuplicates
  BY PeaceFacts DEF WakeInv, IInv
<1> DEFINE d == Interrupting
           requester == devQueue[d]
           soft == softBlockCount - 1
           ready == Append(readyQueue, requester)
<1>2. d \in Pending /\ d \in Device /\ requester # NULL /\ Pending # {}
  BY PeaceInterrupting DEF DeviceInterrupt
<1>3. /\ InterruptsOn /\ devState' = Acknowledged(d) /\ softBlockCount' = soft
      /\ devQueue' = [devQueue EXCEPT ![d] = NULL] /\ Send(Answer, requester)
      /\ ResumeOrSchedule(ready, soft)
      /\ UNCHANGED <<pcbFree, pseudoClockQueue, process_count, tree, awaiting, ssi, budget>>
  BY <1>2 DEF DeviceInterrupt, Answer
<1>4. softBlockCount' = softBlockCount - 1 /\ soft = softBlockCount' /\ soft \in Int
  BY <1>1, <1>3 DEF TypeOK
<1>5. /\ requester \in OnDevice /\ requester \in ClientPcb /\ requester \in Pcb
      /\ devQueue \in [Device -> ClientPcb \cup {NULL}]
  BY <1>1, <1>2, ConstantTypes DEF OnDevice, TypeOK, ClientPcb
<1>6. /\ requester \notin Free /\ requester \notin Ready /\ requester \notin receiveMessageQueue
      /\ requester \notin OnClock /\ requester \notin Running
  BY <1>1, <1>5 DEF OnePlace, Apart
<1>7. requester \notin Askers /\ requester \notin InService /\ requester \notin Holders
  BY <1>1, <1>5 DEF OneEach
<1>9. /\ devQueue'[d] = NULL /\ \A e \in Device \ {d} : devQueue'[e] = devQueue[e]
      /\ \A e \in Device \ {d} : devQueue[e] # requester
  BY <1>1, <1>2, <1>3, <1>5 DEF NoDuplicates
<1>10. devState'[d] = "idle" /\ \A e \in Device \ {d} : devState'[e] = devState[e]
  <2>1. devState \in [Device -> DeviceState]
    BY <1>1 DEF TypeOK
  <2>2. d[1] # TERMINT \/ devState[d] = "done"
    BY <1>1, <1>2 DEF Pending, Devices, Peaceful
  <2> QED BY <1>2, <1>3, <2>1, <2>2 DEF Acknowledged
<1> HIDE DEF d, requester, soft
<1>8. ready \in Seq(Pcb) /\ ToSet(ready) = Ready \cup {requester}
  <2>1. readyQueue \in Seq(Pcb)
    BY <1>1 DEF TypeOK
  <2> QED BY <1>5, <2>1, AppendSet DEF Ready
<1> HIDE DEF ready
<1>11. /\ InService' = InService /\ Ready' \cup Running' = Ready \cup {requester} \cup Running
       /\ sender' = sender /\ Dying' = Dying /\ Coming' = Coming
       /\ step # "receive" => current_process' = current_process
       /\ machine' # "corrupt" /\ (machine' = "halt" => process_count = 1)
       /\ machine' = "panic" => soft = 0 /\ step' = "receive"
  BY <1>1, <1>3, <1>4, <1>8, ResumePeace
<1>12. OnDevice' = OnDevice \ {requester}
  BY <1>2, <1>5, <1>9 DEF OnDevice, requester
<1>13. /\ msgFree > 0 /\ msgFree \in Nat /\ msgFree' = msgFree - 1
       /\ receiveMessageQueue' = receiveMessageQueue
       /\ msg_inbox' = [msg_inbox EXCEPT ![requester] = <<Answer>> \o @]
  BY <1>3, <1>5, <1>6, <1>7, PoolHolds DEF Send, Delivered
<1>14. Letters' /\ Mailed' = Mailed /\ Askers' = Askers /\ Holders' = Holders \cup {requester}
  BY <1>1, <1>5, <1>7, <1>13, MailAnswer
<1>15. OnClock' = OnClock /\ Free' = Free /\ Waiting' = Waiting
  BY <1>3 DEF OnClock, Free, Waiting
<1>16. OneEach'
  BY <1>1, <1>5, <1>7, <1>11, <1>12, <1>14, <1>15 DEF OneEach
<1>17. Places'
  BY <1>1, <1>3, <1>5, <1>11, <1>12, <1>13, <1>14, <1>15 DEF Places, Linked
<1>18. Serving' /\ Requests' /\ Family'
  <2>1. Serving'
    BY <1>1, <1>3, <1>11 DEF Serving, SsiSteps
  <2>2. step # "receive" /\ current_process' = ssi_pcb => Proper(request)
    BY <1>1, <1>11 DEF Requests
  <2> QED BY <1>1, <1>3, <1>14, <1>15, <2>1, <2>2 DEF Requests, Proper, Family
<1>19. Devices'
  <2>1. step = "command" => request.arg \in Device /\ request.arg # d
    <3>1. request.op = "doio" => request.arg \in Device
      BY <1>1 DEF TypeOK, SsiMessage
    <3>2. devState[d] # "idle"
      BY <1>2 DEF Pending
    <3> QED BY <1>1, <3>1, <3>2 DEF Serving, Devices
  <2> QED BY <1>1, <1>3, <1>9, <1>10, <1>11, <2>1 DEF Devices
<1>20. Killed'
  <2>3. ASSUME step = "free" PROVE Dying \notin Linked'
    <3>1. /\ Dying \notin Linked /\ current_process' = current_process /\ Dying \in Pcb
          /\ Dying # ssi_pcb /\ Dying # NULL
          /\ current_process = ssi_pcb => Dying = sender
          /\ current_process # ssi_pcb => Dying = current_process
      BY <1>1, <1>11, <2>3, DyingFacts DEF Killed, KillSteps
    <3>2. CASE current_process = ssi_pcb
      <4>1. Dying # requester
        BY <1>5, <2>3, <3>1, <3>2, ServiceFacts
      <4> QED BY <1>3, <1>11, <1>13, <1>15, <3>1, <3>2, <4>1 DEF Linked, Running
    <3>3. CASE current_process # ssi_pcb
      <4>1. Dying \in Running'
        BY <3>1, <3>3 DEF Running
      <4>2. Running' \cap Linked' = {}
        BY <1>11, NextApart
      <4> QED BY <4>1, <4>2
    <3> QED BY <3>2, <3>3
  <2>4. step \in KillSteps => current_process' = current_process
    BY <1>11 DEF KillSteps
  <2> QED BY <1>1, <1>3, <1>11, <2>3, <2>4 DEF Killed
<1>21. PoolOK'
  <2>1. Askers' \cup Holders' = (Askers \cup Holders) \cup {requester}
    BY <1>14
  <2>2. Askers \cup Holders \subseteq Pcb /\ requester \in Pcb \ (Askers \cup Holders)
    BY <1>1, <1>5, <1>7, PeaceTypes
  <2>3. /\ Cardinality(Askers' \cup Holders') = Cardinality(Askers \cup Holders) + 1
        /\ Cardinality(Askers \cup Holders) \in Nat
    BY <2>1, <2>2, Sizes
  <2> QED BY <1>1, <1>13, <2>3, ConstantTypes DEF PoolOK
<1>22. ProcsOK' /\ CreateOK' /\ Ends'
  <2>1. CreateOK'
    BY <1>3, <1>14, CreateKept
  <2> QED BY <1>1, <1>3, <1>4, <1>11, <2>1 DEF ProcsOK, Ends
<1>23. SoftOK'
  <2>1. /\ Cardinality(OnDevice) \in Nat /\ Cardinality(OnDevice') = Cardinality(OnDevice) - 1
    BY <1>1, <1>5, <1>12, PeaceTypes, Sizes
  <2>3. softBlockCount \in Int /\ loaded \in Int /\ Len(pseudoClockQueue) \in Nat
    BY <1>1, LenProperties DEF TypeOK
  <2>4. Coming \in Int
    BY DEF Coming
  <2>2. Blocked' = Blocked - 1 /\ Blocked \in Int
    BY <1>3, <2>1, <2>3 DEF Blocked
  <2> QED BY <1>1, <1>3, <1>4, <1>11, <2>2, <2>3, <2>4 DEF SoftOK
<1> QED BY <1>14, <1>16, <1>17, <1>18, <1>19, <1>20, <1>21, <1>22, <1>23 DEF PInv, Counting
------------------------------------------------------------------------------

LEMMA PeaceInit ==
  ASSUME Peaceful, Init
  PROVE  PInv
<1>1. WakeInv
  BY InvInit, ConstantTypes DEF Init, WakeInv, NoLostWakeup
<1>2. TypeOK /\ ssi_pcb \in Pcb /\ ssi_pcb # Computing /\ ssi_pcb # NULL
  BY <1>1, ConstantTypes DEF WakeInv, IInv
<1>3. /\ Ready = {root_pcb} /\ Free = ToSet(freeList) /\ OnClock = {} /\ OnDevice = {}
      /\ Running = {ssi_pcb} /\ msg_inbox[ssi_pcb] = <<>>
  BY ConstantTypes DEF Init, Ready, Free, OnClock, OnDevice, Running, ToSet
<1>4. Mailed = {} /\ Askers = {} /\ Holders = {} /\ Waiting = {} /\ InService = {}
  <2>1. Mailed = {}
    BY <1>3 DEF Mailed, ToSet
  <2>2. \A p \in ClientPcb : msg_inbox[p] = <<>> /\ awaiting[p] # ssi_pcb
    BY <1>2, ConstantTypes DEF Init, ClientPcb
  <2>3. InService = {}
    BY DEF Init, InService, Served
  <2> QED BY <2>1, <2>2, <2>3 DEF Askers, Holders, Waiting
<1>5. Letters
  BY <1>3, <1>4 DEF Init, Letters, IsInjective, ClientPcb
<1>6. OneEach /\ Serving /\ Killed /\ Requests /\ Devices
  BY <1>3, <1>4 DEF Init, OneEach, Serving, Killed, KillSteps, Requests, Devices
<1>7. Places
  BY <1>3, <1>4, NucleusAssumption DEF Init, Places, Linked
<1>8. Family
  <2>1. Free \subseteq Pcb
    BY <1>3, NucleusAssumption
  <2> QED BY <2>1 DEF Init, Family
<1>9. ProcsOK
  <2>1. Len(freeList) \in Nat /\ DOMAIN freeList = 1..Len(freeList)
        /\ \A i \in 1..Len(freeList) : freeList[i] \in Pcb
    BY NucleusAssumption, InSet, ElementOfSeq
  <2>2. freeList \in Bijection(1..Len(freeList), ToSet(freeList))
    <3>1. freeList \in [1..Len(freeList) -> ToSet(freeList)]
      BY <2>1, NucleusAssumption DEF ToSet
    <3>2. \A t \in ToSet(freeList) : \E i \in 1..Len(freeList) : freeList[i] = t
      BY <2>1 DEF ToSet
    <3>3. \A i, j \in 1..Len(freeList) : freeList[i] = freeList[j] => i = j
      BY <2>1, NucleusAssumption DEF IsInjective
    <3> QED BY <3>1, <3>2, <3>3 DEF Bijection, Injection, Surjection, IsInjective
  <2>3. IsFiniteSet(1..Len(freeList)) /\ Cardinality(1..Len(freeList)) = Len(freeList)
    BY <2>1, FS_Interval
  <2>4. Cardinality(ToSet(freeList)) = Len(freeList)
    BY <2>2, <2>3, FS_Bijection DEF ExistsBijection
  <2>5. Cardinality(ToSet(freeList) \cup {root_pcb}) = Len(freeList) + 1
    BY <2>4, NucleusAssumption, Sizes
  <2>6. Cardinality(ToSet(freeList) \cup {root_pcb} \cup {ssi_pcb}) = Len(freeList) + 2
    <3> DEFINE S == ToSet(freeList) \cup {root_pcb}
    <3>1. S \subseteq Pcb /\ ssi_pcb \in Pcb \ S /\ Cardinality(S) = Len(freeList) + 1
      BY <2>5, NucleusAssumption
    <3> HIDE DEF S
    <3>2. Cardinality(S \cup {ssi_pcb}) = Len(freeList) + 1 + 1
      BY <3>1, Sizes
    <3> QED BY <2>1, <3>2 DEF S
  <2>7. Pcb = ToSet(freeList) \cup {root_pcb} \cup {ssi_pcb}
    BY NucleusAssumption
  <2> QED BY <2>1, <2>6, <2>7 DEF Init, ProcsOK
<1>10. PoolOK
  <2>1. Cardinality(Askers \cup Holders) = 0
    BY <1>4, FS_EmptySet
  <2> QED BY <2>1, ConstantTypes DEF Init, PoolOK
<1>11. CreateOK
  <2>1. Creators = {}
    BY <1>4 DEF Init, Creators
  <2>2. Cardinality(Creators) = 0
    BY <2>1, FS_EmptySet
  <2>3. Budget["create"] \in Nat
    BY NucleusAssumption DEF ClientOps, SsiServices
  <2> QED BY <2>2, <2>3 DEF Init, CreateOK, Peaceful
<1>12. SoftOK
  <2>1. Len(pseudoClockQueue) = 0 /\ Cardinality(OnDevice) = 0
    BY <1>3, FS_EmptySet DEF Init
  <2> QED BY <2>1 DEF Init, SoftOK, Blocked, Coming
<1>13. Ends
  BY DEF Init, Ends
<1> QED BY <1>1, <1>5, <1>6, <1>7, <1>8, <1>9, <1>10, <1>11, <1>12, <1>13 DEF PInv, Counting

LEMMA PeaceStutter ==
  ASSUME PInv, WakeInv', UNCHANGED vars
  PROVE  PInv'
<1>1. /\ UNCHANGED <<queues, cpu, counts, tree, mail, ssi, devState, budget>>
      /\ TypeOK /\ TypeOK' /\ Letters /\ OneEach /\ Places /\ Serving /\ Killed /\ Requests
      /\ Family /\ Devices /\ ProcsOK /\ PoolOK /\ CreateOK /\ SoftOK /\ Ends
  BY PeaceFacts DEF vars, WakeInv, IInv
<1>2. InService' = InService /\ sender' = sender /\ Dying' = Dying
  BY <1>1, PeaceTypes, PeaceTypesNext DEF sender, Dying
<1>3. /\ Letters' /\ Mailed' = Mailed /\ Askers' = Askers /\ Holders' = Holders
      /\ OneEach' /\ Free' = Free /\ OnDevice' = OnDevice /\ OnClock' = OnClock
      /\ Waiting' = Waiting /\ Blocked' = Blocked
  BY <1>1, <1>2, Unmoved
<1>4. Linked' = Linked /\ Running' = Running
  BY <1>1 DEF Linked, Free, Ready, OnClock, Running
<1>5. Places' /\ Killed' /\ Serving' /\ Requests' /\ Family' /\ Devices'
  BY <1>1, <1>2, <1>3, <1>4 DEF Places, Killed, Serving, Requests, Proper, Family, Devices
<1>6. PoolOK' /\ CreateOK'
  BY <1>1, <1>3, PoolSame, CreateKept
<1>7. ProcsOK' /\ SoftOK' /\ Ends'
  BY <1>1, <1>3 DEF ProcsOK, SoftOK, Coming, Ends
<1> QED BY <1>3, <1>5, <1>6, <1>7 DEF PInv, Counting

LEMMA PeaceStep ==
  ASSUME Peaceful, PInv, [Next]_vars
  PROVE  PInv'
<1>1. WakeInv'
  BY WakeStep DEF PInv
<1>2. ASSUME NEW p \in Pcb, Client(p) PROVE PInv'
  <2>1. ~SendToClient(p)
    BY PeaceSend
  <2> QED BY <1>1, <1>2, <2>1, PeaceRequest, PeaceReceive, PeacePreempt, PeaceTrap DEF Client
<1>3. ASSUME Ssi PROVE PInv'
  <2>1. ~SsiCreateFails /\ ~SsiUnlinkFails
    BY PeaceSsiCreateFails, PeaceSsiUnlinkFails
  <2> QED BY <1>1, <1>3, <2>1, PeaceSsiReceive, PeaceSsiCreate, PeaceSsiReply, PeaceSsiTerminate,
             PeaceSsiCount, PeaceSsiWaitForClock, PeaceSsiBlock, PeaceSsiCommand DEF Ssi
<1>4. ASSUME Interrupts PROVE PInv'
  BY <1>1, <1>4, PeaceIdle, PeaceTimer, PeaceDevice DEF Interrupts
<1>5. ASSUME KillProcess PROVE PInv'
  BY <1>1, <1>5, PeaceKill
<1>6. ASSUME UNCHANGED vars PROVE PInv'
  BY <1>1, <1>6, PeaceStutter
<1> QED BY <1>2, <1>3, <1>4, <1>5, <1>6 DEF Next

\* The invariant of peaceful clients.
THEOREM PeacefulInvariant == ASSUME Peaceful PROVE Spec => []PInv
<1>1. Init => PInv
  BY PeaceInit
<1>2. PInv /\ [Next]_vars => PInv'
  BY PeaceStep
<1> QED BY <1>1, <1>2, PTL DEF Spec
------------------------------------------------------------------------------
(* What it says of the properties of the runs.                              *)

\* A client that awaits the SSI has one thing outstanding there.
LEMMA OneAnswer == PInv => ExactlyOneAnswer
<1> SUFFICES ASSUME PInv, NEW p \in ClientPcb \ Free
             PROVE  Outstanding(p) = IF awaiting[p] = ssi_pcb THEN 1 ELSE 0
  BY DEF ExactlyOneAnswer
<1>1. TypeOK /\ Letters /\ OneEach
  BY PeaceFacts
<1>2. Cardinality(From(p, msg_inbox[ssi_pcb])) = IF p \in Askers THEN 1 ELSE 0
  <2> DEFINE I == From(p, msg_inbox[ssi_pcb])
  <2>1. /\ DOMAIN msg_inbox[ssi_pcb] = 1..Len(msg_inbox[ssi_pcb])
        /\ \A m : m \in Mailed <=> \E i \in 1..Len(msg_inbox[ssi_pcb]) : msg_inbox[ssi_pcb][i] = m
    BY <1>1, InSet DEF TypeOK, Mailed
  <2>2. CASE p \notin Askers
    <3>1. I = {}
      BY <2>1, <2>2 DEF From, Askers
    <3> QED BY <2>2, <3>1, FS_EmptySet
  <2>3. CASE p \in Askers
    <3>1. PICK m \in Mailed : m.from = p
      BY <2>3 DEF Askers
    <3>2. PICK i \in 1..Len(msg_inbox[ssi_pcb]) : msg_inbox[ssi_pcb][i] = m
      BY <2>1, <3>1
    <3>3. \A j \in 1..Len(msg_inbox[ssi_pcb]) : msg_inbox[ssi_pcb][j].from = p => j = i
      BY <1>1, <2>1, <3>1, <3>2 DEF Letters, IsInjective
    <3>4. I = {i}
      BY <2>1, <3>1, <3>2, <3>3 DEF From
    <3> QED BY <2>3, <3>4, FS_Singleton
  <2> QED BY <2>2, <2>3
<1>3. Cardinality(From(ssi_pcb, msg_inbox[p])) = IF p \in Holders THEN 1 ELSE 0
  <2> DEFINE I == From(ssi_pcb, msg_inbox[p])
  <2>1. CASE msg_inbox[p] = <<>>
    <3>1. I = {} /\ p \notin Holders
      BY <2>1 DEF From, Holders
    <3> QED BY <3>1, FS_EmptySet
  <2>2. CASE msg_inbox[p] = <<Answer>>
    <3>1. <<Answer>>[1].from = ssi_pcb /\ DOMAIN <<Answer>> = {1} /\ <<Answer>> # <<>>
      BY DEF Answer, Msg
    <3>2. I = {1} /\ p \in Holders
      BY <2>2, <3>1 DEF From, Holders
    <3> QED BY <3>2, FS_Singleton
  <2> QED BY <1>1, <2>1, <2>2 DEF Letters
<1>4. Served(p) <=> p \in InService
  BY DEF InService
<1>5. awaiting[p] = ssi_pcb <=> p \in Waiting
  BY DEF Waiting
<1>6. Outstanding(p) = (IF p \in Askers THEN 1 ELSE 0) + (IF p \in InService THEN 1 ELSE 0)
                         + (IF p \in OnDevice THEN 1 ELSE 0) + (IF p \in Holders THEN 1 ELSE 0)
  BY <1>2, <1>3, <1>4 DEF Outstanding
<1> QED BY <1>1, <1>5, <1>6 DEF OneEach

\* One process is left, and it is the SSI.
LEMMA LastProcess == PInv => HaltOnlyWhenDone
<1> SUFFICES ASSUME PInv, machine = "halt" PROVE Pcb \ Free = {ssi_pcb}
  BY DEF HaltOnlyWhenDone
<1>1. TypeOK /\ ProcsOK /\ process_count = 1 /\ IsInjective(pcbFree) /\ pcbFree \in Seq(ClientPcb)
  BY PeaceFacts DEF Ends, NoDuplicates, TypeOK
<1>2. /\ Len(pcbFree) \in Nat /\ DOMAIN pcbFree = 1..Len(pcbFree)
      /\ \A i \in 1..Len(pcbFree) : pcbFree[i] \in ClientPcb
  BY <1>1, InSet, ElementOfSeq
<1>3. pcbFree \in Bijection(1..Len(pcbFree), Free)
  <2>1. pcbFree \in [1..Len(pcbFree) -> Free]
    BY <1>1, <1>2 DEF Free, ToSet
  <2>2. \A t \in Free : \E i \in 1..Len(pcbFree) : pcbFree[i] = t
    BY <1>2 DEF Free, ToSet
  <2>3. \A i, j \in 1..Len(pcbFree) : pcbFree[i] = pcbFree[j] => i = j
    BY <1>1, <1>2 DEF IsInjective
  <2> QED BY <2>1, <2>2, <2>3 DEF Bijection, Injection, Surjection, IsInjective
<1>4. IsFiniteSet(1..Len(pcbFree)) /\ Cardinality(1..Len(pcbFree)) = Len(pcbFree)
  BY <1>2, FS_Interval
<1>5. Cardinality(Free) = Len(pcbFree)
  BY <1>3, <1>4, FS_Bijection DEF ExistsBijection
<1>6. Cardinality(Pcb) \in Nat /\ Cardinality(Pcb \ {ssi_pcb}) = Cardinality(Pcb) - 1
  BY ConstantTypes, Sizes
<1>7. IsFiniteSet(ClientPcb) /\ Free \subseteq ClientPcb /\ Cardinality(Free) = Cardinality(ClientPcb)
  BY <1>1, <1>2, <1>5, <1>6, PeaceTypes, Sizes DEF ProcsOK, ClientPcb
<1>8. Free = ClientPcb
  BY <1>7, FS_Subset
<1> QED BY <1>8, ConstantTypes DEF ClientPcb

LEMMA Deadlocked == PInv => PanicOnlyOnDeadlock
<1> SUFFICES ASSUME PInv, machine = "panic" PROVE OnClock = {} /\ OnDevice = {}
  BY DEF PanicOnlyOnDeadlock
<1>1. softBlockCount = 0 /\ Coming = 0 /\ Blocked <= softBlockCount + Coming
  BY PeaceFacts DEF Ends, Coming, SoftOK
<1>2. TypeOK /\ Len(pseudoClockQueue) \in Nat /\ Cardinality(OnDevice) \in Nat
      /\ (Cardinality(OnDevice) = 0 <=> OnDevice = {})
  BY PeaceFacts, PeaceTypes, Sizes, LenProperties DEF TypeOK
<1>3. Len(pseudoClockQueue) = 0 /\ Cardinality(OnDevice) = 0
  BY <1>1, <1>2 DEF Blocked
<1>4. pseudoClockQueue = <<>>
  BY <1>2, <1>3, EmptySeq DEF TypeOK
<1> QED BY <1>2, <1>3, <1>4 DEF OnClock, ToSet

\* Each request to the SSI is answered exactly once.
THEOREM AnsweredOnce == ASSUME Peaceful PROVE Spec => []ExactlyOneAnswer
BY PeacefulInvariant, OneAnswer, PTL

\* No live process drops out of the system.
THEOREM NobodyDropsOut == ASSUME Peaceful PROVE Spec => []NoProcessLost
<1>1. PInv => NoProcessLost
  <2>1. PInv => TypeOK /\ Places
    BY PeaceFacts
  <2>2. TypeOK => Linked \cup OnDevice \cup Running \subseteq Pcb
    <3>1. TypeOK => Free \subseteq Pcb /\ OnClock \subseteq Pcb /\ OnDevice \subseteq Pcb
      BY PeaceTypes
    <3> QED BY <3>1, InSet DEF TypeOK, Linked, Ready, Running
  <2> QED BY <2>1, <2>2 DEF NoProcessLost, Places, KillSteps
<1> QED BY <1>1, PeacefulInvariant, PTL

\* The machine halts when only the SSI is left.
THEOREM HaltsWhenDone == ASSUME Peaceful PROVE Spec => []HaltOnlyWhenDone
BY PeacefulInvariant, LastProcess, PTL

\* The machine panics only when no interrupt could wake anybody: softBlockCount is never
\* too low, whatever interrupt falls between the load and the store of an increment.
THEOREM PanicsOnDeadlock == ASSUME Peaceful PROVE Spec => []PanicOnlyOnDeadlock
BY PeacefulInvariant, Deadlocked, PTL

------------------------------------------------------------------------------
(* RequestReply: each step of the nucleus moves the request of one process, *)
(* or of those the clock wakes, or none.                                    *)

\* What the standing of a process is, by where its request is: one of these, by OneEach.
ByPlace(p) ==
  /\ p \in Free => Standing(p) = <<"dead", NULL>>
  /\ p \notin Free \cup Waiting => Standing(p) = <<"computing", NULL>>
  /\ p \in Waiting \cap OnClock => Standing(p) = <<"waiting", NULL>>
  /\ \A d \in Device :
       devQueue[d] = p => p \in Waiting /\ Standing(p) = <<Progress[devState[d]], d>>
  /\ p \in InService \ OnClock => p \in Waiting /\ Standing(p) = Stage
  /\ \A m \in Mailed : m.from = p => p \in Waiting /\ Standing(p) = <<m.op, m.arg>>
  /\ p \in Holders \ OnClock => p \in Waiting /\ Standing(p) = <<"answered", NULL>>

LEMMA StandingIs == PInv => \A p \in ClientPcb : ByPlace(p)
<1> SUFFICES ASSUME PInv, NEW p \in ClientPcb PROVE ByPlace(p)
  OBVIOUS
<1>1. /\ TypeOK /\ OneEach /\ Places /\ Letters /\ NoDuplicates /\ Apart
  BY PeaceFacts
<1>2. /\ p \in Waiting <=> p \notin Free /\ awaiting[p] = ssi_pcb
      /\ p \in InService <=> Served(p)
      /\ p \in Askers <=> Asks(p)
  BY DEF Waiting, InService, Askers, Mailed, Asks
<1>3. ASSUME NEW d \in Device, devQueue[d] = p
      PROVE  p \in Waiting /\ Standing(p) = <<Progress[devState[d]], d>>
  <2>1. p \in OnDevice /\ p \notin OnClock /\ p \in Waiting
    BY <1>1, <1>3, ConstantTypes DEF OnDevice, Apart, OneEach, ClientPcb
  <2>2. SlotOf(p) \in Device /\ devQueue[SlotOf(p)] = p
    BY <1>3 DEF SlotOf
  <2>3. SlotOf(p) = d
    BY <1>1, <1>3, <2>1, <2>2, ConstantTypes DEF NoDuplicates, ClientPcb
  <2> QED BY <1>2, <2>1, <2>3 DEF Standing
<1>4. ASSUME NEW m \in Mailed, m.from = p
      PROVE  p \in Waiting /\ Standing(p) = <<m.op, m.arg>>
  <2>1. p \in Askers /\ p \in Waiting /\ p \notin OnClock \cup OnDevice \cup InService
    BY <1>1, <1>4 DEF Askers, OneEach, Places
  <2>2. RequestOf(p) \in Mailed /\ RequestOf(p).from = p
    BY <1>4 DEF RequestOf, Mailed
  <2>3. RequestOf(p) = m
    BY <1>1, <1>4, <2>2 DEF Letters
  <2> QED BY <1>2, <2>1, <2>3 DEF Standing
<1>5. p \in InService \ OnClock => p \in Waiting /\ Standing(p) = Stage
  BY <1>1, <1>2 DEF Standing, OneEach
<1>6. p \in Holders \ OnClock => p \in Waiting /\ Standing(p) = <<"answered", NULL>>
  BY <1>1, <1>2 DEF Standing, OneEach
<1> QED BY <1>2, <1>3, <1>4, <1>5, <1>6 DEF Standing, ByPlace

LEMMA StandingIsNext == PInv' => (\A p \in ClientPcb : ByPlace(p))'
BY StandingIs, PTL

\* Nothing happened to the request of q.
LEMMA StandingKept ==
  ASSUME PInv, PInv', NEW q \in ClientPcb,
         q \in Free' <=> q \in Free, q \in Waiting' <=> q \in Waiting,
         q \in Waiting => (q \in OnClock' <=> q \in OnClock),
         \A d \in Device :
           devQueue[d] = q => devQueue'[d] = q /\ Progress[devState'[d]] = Progress[devState[d]],
         q \in InService => q \in InService' /\ Stage' = Stage,
         \A m \in Mailed : m.from = q => m \in Mailed',
         q \in Holders => q \in Holders'
  PROVE  Standing(q)' = Standing(q)
<1>1. OneEach /\ ByPlace(q) /\ ByPlace(q)'
  BY PeaceFacts, StandingIs, StandingIsNext
<1>2. CASE q \in Free
  BY <1>1, <1>2 DEF ByPlace
<1>3. CASE q \notin Free \cup Waiting
  BY <1>1, <1>3 DEF ByPlace
<1>4. CASE q \in Waiting \cap OnClock
  BY <1>1, <1>4 DEF ByPlace
<1>5. CASE q \in Waiting \ OnClock
  <2>1. CASE q \in Askers
    <3>1. PICK m \in Mailed : m.from = q
      BY <2>1 DEF Askers
    <3> QED BY <1>1, <3>1 DEF ByPlace
  <2>2. CASE q \in InService
    BY <1>1, <1>5, <2>2 DEF ByPlace
  <2>3. CASE q \in OnDevice
    <3>1. PICK d \in Device : devQueue[d] = q
      BY <2>3 DEF OnDevice
    <3> QED BY <1>1, <3>1 DEF ByPlace
  <2>4. CASE q \in Holders
    BY <1>1, <1>5, <2>4 DEF ByPlace
  <2> QED BY <1>1, <1>5, <2>1, <2>2, <2>3, <2>4 DEF OneEach
<1> QED BY <1>2, <1>3, <1>4, <1>5

\* Nothing happened to any request.
LEMMA NobodyMoves ==
  ASSUME PInv, PInv', UNCHANGED <<pcbFree, pseudoClockQueue, devQueue, msg_inbox>>,
         \A d \in Device : Progress[devState'[d]] = Progress[devState[d]],
         Waiting' = Waiting, InService' = InService, InService # {} => Stage' = Stage
  PROVE  standing' = standing
<1>1. Free' = Free /\ OnClock' = OnClock /\ Mailed' = Mailed /\ Holders' = Holders
  BY DEF Free, OnClock, Mailed, Holders
<1>2. \A q \in ClientPcb : Standing(q)' = Standing(q)
  BY <1>1, StandingKept
<1> QED BY <1>2 DEF standing

\* One request moves.
LEMMA OneMoves ==
  ASSUME NEW p \in ClientPcb, NEW v, Standing(p)' = v,
         \A q \in ClientPcb \ {p} : Standing(q)' = Standing(q)
  PROVE  standing' = [standing EXCEPT ![p] = v]
<1>1. standing' = [q \in ClientPcb |-> Standing(q)']
  BY DEF standing
<1> QED BY <1>1 DEF standing

\* What a standing tells of where the request is.
LEMMA StandingTells ==
  ASSUME PInv, NEW q \in ClientPcb
  PROVE  /\ Standing(q) = <<"waiting", NULL>> => q \in Waiting \cap OnClock
         /\ \A d \in Device :
              Standing(q) \in {<<"busy", d>>, <<"done", d>>} => devQueue[d] = q
<1>1. TypeOK /\ OneEach /\ ByPlace(q)
  BY PeaceFacts, StandingIs
<1>2. \A m \in SsiMessage : m.op \in {"create", "query", "clock", "invalid", "terminate", "doio"}
  BY DEF SsiMessage
<1>3. CASE q \in Free
  BY <1>1, <1>3 DEF ByPlace
<1>4. CASE q \notin Free \cup Waiting
  BY <1>1, <1>4 DEF ByPlace
<1>5. CASE q \in Waiting \cap OnClock
  BY <1>1, <1>5 DEF ByPlace
<1>6. CASE q \in Waiting \ OnClock
  <2>1. CASE q \in Askers
    <3>1. PICK m \in Mailed : m.from = q
      BY <2>1 DEF Askers
    <3>2. Standing(q) = <<m.op, m.arg>> /\ m \in SsiMessage
      BY <1>1, <3>1, PeaceTypes DEF ByPlace
    <3> QED BY <1>2, <3>2
  <2>2. CASE q \in InService
    <3>1. Standing(q) = Stage /\ request \in SsiMessage
      BY <1>1, <1>6, <2>2 DEF ByPlace, TypeOK
    <3> QED BY <1>2, <3>1 DEF Stage
  <2>3. CASE q \in OnDevice
    <3>1. PICK d \in Device : devQueue[d] = q
      BY <2>3 DEF OnDevice
    <3>2. Standing(q) = <<Progress[devState[d]], d>> /\ devState[d] \in DeviceState
      BY <1>1, <3>1 DEF ByPlace, TypeOK
    <3>3. Progress[devState[d]] # "waiting"
      BY <3>2 DEF Progress, DeviceState
    <3> QED BY <3>1, <3>2, <3>3
  <2>4. CASE q \in Holders
    BY <1>1, <1>6, <2>4 DEF ByPlace
  <2> QED BY <1>1, <1>6, <2>1, <2>2, <2>3, <2>4 DEF OneEach
<1> QED BY <1>3, <1>4, <1>5, <1>6

\* A client asks.
LEMMA RequestMoves ==
  ASSUME Peaceful, PInv, PInv', NEW p \in Pcb, Request(p)
  PROVE  RR!Ask(p)
<1>1. TypeOK /\ TypeOK' /\ Letters /\ OneEach
  BY PeaceFacts DEF PInv, WakeInv, IInv
<1>2. Runs(p) /\ awaiting[p] = Computing
  BY DEF Request
<1>3. /\ p \in ClientPcb /\ step = "receive" /\ InService = {} /\ p \notin Free
      /\ p \notin OnClock /\ p \notin Askers /\ p \notin Holders /\ p \notin Waiting
  BY <1>2, ClientFacts, ConstantTypes
<1>4. PICK k \in SsiServices : \E arg \in Args(p, k) : Send(Msg(p, k, arg), ssi_pcb)
  BY DEF Request
<1>5. PICK arg \in Args(p, k) : Send(Msg(p, k, arg), ssi_pcb)
  BY <1>4
<1> DEFINE m == Msg(p, k, arg)
<1>6. m \in SsiMessage /\ m.from = p /\ m.op = k /\ m.arg = arg
  BY <1>3, <1>5, NucleusAssumption DEF Msg, SsiMessage, SsiServices, Args, ClientPcb
<1>7. <<k, arg>> \in RR!Operations \cup {<<j, NULL>> : j \in RR!Plain}
  BY <1>3, <1>5, NucleusAssumption
     DEF RR!Operations, RR!Plain, Args, SsiServices, Peaceful, ClientPcb
<1> HIDE DEF m
<1>8. /\ UNCHANGED <<cpu, pcbFree, pseudoClockQueue, devQueue, ssi, devState>>
      /\ awaiting' = [awaiting EXCEPT ![p] = ssi_pcb]
  BY DEF Request
<1>9. msg_inbox' = [msg_inbox EXCEPT ![ssi_pcb] = <<m>> \o @]
  BY <1>1, <1>3, <1>5, PoolHolds, PeaceTypes DEF Send, Delivered, m
<1>10. Mailed' = Mailed \cup {m} /\ Holders' = Holders
  BY <1>1, <1>3, <1>6, <1>9, MailAsk
<1>11. /\ Free' = Free /\ OnClock' = OnClock /\ InService' = {} /\ Waiting' = Waiting \cup {p}
  <2>1. Free' = Free /\ OnClock' = OnClock /\ InService' = {}
    BY <1>1, <1>3, <1>8, PeaceTypesNext DEF Free, OnClock
  <2>2. \A q \in ClientPcb : awaiting'[q] = IF q = p THEN ssi_pcb ELSE awaiting[q]
    BY <1>1, <1>8 DEF TypeOK, ClientPcb
  <2>3. Waiting' = Waiting \cup {p}
    BY <1>3, <2>1, <2>2 DEF Waiting
  <2> QED BY <2>1, <2>3
<1>12. \A q \in ClientPcb \ {p} : Standing(q)' = Standing(q)
  BY <1>3, <1>8, <1>10, <1>11, StandingKept
<1>13. Standing(p) = <<"computing", NULL>> /\ Standing(p)' = <<k, arg>>
  BY <1>3, <1>6, <1>10, StandingIs, StandingIsNext DEF ByPlace
<1>14. standing' = [standing EXCEPT ![p] = <<k, arg>>]
  BY <1>3, <1>12, <1>13, OneMoves
<1> QED BY <1>3, <1>7, <1>13, <1>14 DEF RR!Ask, RR!Is, standing

\* A client takes its answer, or blocks.
LEMMA ReceiveMoves ==
  ASSUME Peaceful, PInv, PInv', NEW p \in Pcb, Receive(p)
  PROVE  RR!Resume(p) \/ standing' = standing
<1>1. TypeOK /\ TypeOK' /\ Letters /\ OneEach
  BY PeaceFacts DEF PInv, WakeInv, IInv
<1>2. Runs(p)
  BY DEF Receive
<1>3. /\ p \in ClientPcb /\ step = "receive" /\ InService = {} /\ p \notin Free
      /\ p \notin OnClock
  BY <1>2, ClientFacts
<1>4. UNCHANGED <<pcbFree, pseudoClockQueue, devQueue, ssi, devState>>
  BY DEF Receive
<1>5. /\ Free' = Free /\ OnClock' = OnClock /\ InService' = {}
  BY <1>1, <1>3, <1>4, PeaceTypesNext DEF Free, OnClock
<1> DEFINE i == FirstMatch(p, awaiting[p])
<1>6. i \in 0..Len(msg_inbox[p]) /\ Len(msg_inbox[p]) \in Nat
  BY <1>1, FirstMatchFacts, LenProperties DEF TypeOK
<1>7. CASE i > 0 /\ TakeMessage(p, i) /\ awaiting' = [awaiting EXCEPT ![p] = Computing]
  <2>1. i \in 1..Len(msg_inbox[p])
    BY <1>6, <1>7
  <2> HIDE DEF i
  <2>2. Mailed' = Mailed /\ p \in Holders /\ Holders' = Holders \ {p}
    BY <1>1, <1>3, <1>7, <2>1, MailReceive
  <2>3. Waiting' = Waiting \ {p}
    <3>1. \A q \in ClientPcb : awaiting'[q] = IF q = p THEN Computing ELSE awaiting[q]
      BY <1>1, <1>7 DEF TypeOK, ClientPcb
    <3> QED BY <1>3, <1>5, <3>1, ConstantTypes DEF Waiting
  <2>4. \A q \in ClientPcb \ {p} : Standing(q)' = Standing(q)
    BY <1>3, <1>4, <1>5, <2>2, <2>3, StandingKept
  <2>5. Standing(p) = <<"answered", NULL>> /\ Standing(p)' = <<"computing", NULL>>
    BY <1>3, <1>5, <2>2, <2>3, StandingIs, StandingIsNext DEF ByPlace
  <2>6. standing' = [standing EXCEPT ![p] = <<"computing", NULL>>]
    BY <1>3, <2>4, <2>5, OneMoves
  <2> QED BY <1>3, <2>5, <2>6 DEF RR!Resume, RR!Is, RR!Becomes, standing
<1>8. CASE UNCHANGED mail
  BY <1>3, <1>4, <1>5, <1>8, NobodyMoves DEF Waiting
<1> QED BY <1>7, <1>8 DEF Receive

\* A client is preempted, turns to another sender, or starts to die.
LEMMA ClientQuiet ==
  ASSUME Peaceful, PInv, PInv', NEW p \in Pcb, Preempt(p) \/ StartReceive(p) \/ Trap(p)
  PROVE  standing' = standing
<1>1. TypeOK /\ TypeOK'
  BY PeaceFacts DEF PInv, WakeInv, IInv
<1>2. Runs(p) /\ UNCHANGED <<pcbFree, pseudoClockQueue, devQueue, devState, msg_inbox>>
  BY DEF Preempt, StartReceive, Trap
<1>3. p \in ClientPcb /\ step = "receive" /\ InService = {} /\ current_process = p /\ p # ssi_pcb
  BY <1>2, ClientFacts
<1>4. InService' = {}
  <2>1. step' = "receive" \/ current_process' = p
    BY <1>3 DEF Preempt, StartReceive, Trap
  <2> QED BY <1>1, <1>3, <2>1, PeaceTypesNext
<1>5. Waiting' = Waiting
  <2>1. Free' = Free
    BY <1>2 DEF Free
  <2>2. CASE UNCHANGED awaiting
    BY <2>1, <2>2 DEF Waiting
  <2>3. ASSUME awaiting[p] = Computing, NEW from \in {NULL} \cup (Pcb \ {ssi_pcb, p}),
               awaiting' = [awaiting EXCEPT ![p] = from]
        PROVE  Waiting' = Waiting
    <3>0. from # ssi_pcb
      BY <2>3, ConstantTypes
    <3>1. awaiting \in [Pcb -> Pcb \cup {NULL, Computing}]
      BY <1>1 DEF TypeOK
    <3>2. awaiting'[p] = from /\ \A q \in Pcb \ {p} : awaiting'[q] = awaiting[q]
      BY <2>3, <3>1
    <3> QED BY <2>1, <2>3, <3>0, <3>2, ConstantTypes DEF Waiting, ClientPcb
  <2> QED BY <2>2, <2>3 DEF Preempt, StartReceive, Trap
<1> QED BY <1>2, <1>3, <1>4, <1>5, NobodyMoves

\* The SSI takes a request, whose standing does not change, or blocks.
LEMMA TakeQuiet ==
  ASSUME Peaceful, PInv, PInv', SsiReceive
  PROVE  standing' = standing
<1>1. TypeOK /\ TypeOK' /\ Letters /\ OneEach
  BY PeaceFacts DEF PInv, WakeInv, IInv
<1>2. /\ current_process = ssi_pcb /\ step = "receive" /\ ssi_pcb \in Pcb
      /\ UNCHANGED <<pcbFree, pseudoClockQueue, devQueue, awaiting, devState>>
  BY ConstantTypes DEF SsiReceive, SsiAt
<1>3. Free' = Free /\ OnClock' = OnClock /\ Waiting' = Waiting /\ InService = {}
  BY <1>1, <1>2, PeaceTypes DEF Free, OnClock, Waiting
<1> DEFINE i == FirstMatch(ssi_pcb, NULL)
<1>4. i \in 0..Len(msg_inbox[ssi_pcb]) /\ Len(msg_inbox[ssi_pcb]) \in Nat
  BY <1>1, <1>2, FirstMatchFacts, LenProperties DEF TypeOK
<1>5. CASE /\ i > 0 /\ TakeMessage(ssi_pcb, i) /\ request' = msg_inbox[ssi_pcb][i]
           /\ step' = "serve" /\ UNCHANGED cpu
  <2>1. i \in 1..Len(msg_inbox[ssi_pcb])
    BY <1>4, <1>5
  <2> HIDE DEF i
  <2>2. /\ request' \in Mailed /\ Mailed' = Mailed \ {request'} /\ Holders' = Holders
    BY <1>1, <1>5, <2>1, MailTake
  <2>3. PICK p \in ClientPcb : p = request'.from
    BY <1>1, <2>2, PeaceTypes DEF Askers
  <2>4. InService' = {p} /\ p \in Askers /\ p \notin OnDevice \cup Holders \cup OnClock
    BY <1>1, <1>2, <1>5, <2>2, <2>3, PeaceFacts, PeaceTypesNext
       DEF Askers, sender, OneEach, Places
  <2>5. \A q \in ClientPcb \ {p} : Standing(q)' = Standing(q)
    BY <1>2, <1>3, <2>2, <2>3, StandingKept
  <2>6. Standing(p)' = Standing(p)
    <3>1. Standing(p) = <<request'.op, request'.arg>>
      BY <2>2, <2>3, StandingIs DEF ByPlace
    <3>2. Standing(p)' = Stage'
      BY <1>3, <2>4, StandingIsNext DEF ByPlace
    <3> QED BY <1>5, <3>1, <3>2 DEF Stage
  <2> QED BY <2>5, <2>6 DEF standing
<1>6. CASE UNCHANGED <<msg_inbox, request, step>>
  <2>1. InService' = {}
    BY <1>1, <1>2, <1>6, PeaceTypesNext
  <2> QED BY <1>2, <1>3, <1>6, <2>1, NobodyMoves
<1> QED BY <1>5, <1>6 DEF SsiReceive

\* Steps of a service that only count, or call killProcess().
LEMMA ServiceQuiet ==
  ASSUME Peaceful, PInv, PInv', SsiTerminate \/ SsiLoad \/ SsiStore
  PROVE  standing' = standing
<1>1. TypeOK /\ TypeOK' /\ Serving
  BY PeaceFacts DEF PInv, WakeInv, IInv
<1>2. /\ current_process = ssi_pcb /\ current_process' = ssi_pcb
      /\ step \in {"serve", "inc", "store"}
      /\ UNCHANGED <<pcbFree, pseudoClockQueue, devQueue, msg_inbox, awaiting, devState>>
  BY DEF SsiTerminate, SsiLoad, SsiStore, SsiAt, Serves
<1>3. /\ sender \notin Free /\ sender \in ClientPcb /\ Proper(request)
  BY <1>2, ServiceFacts
<1>4. /\ request' = request /\ step' \in {"kill", "store", "block", "reply"}
      /\ \/ request.op \in {"terminate", "invalid", "doio"}
         \/ request.op = "clock" /\ step # "serve"
  <2>1. CASE SsiTerminate
    <3>1. request.op \in {"terminate", "invalid"} /\ EnterKill(sender)
      BY <1>3, <2>1 DEF SsiTerminate, Proper, Serves
    <3>2. step' = "kill" /\ request' = request
      BY <1>3, <3>1, PeaceEnterKill
    <3> QED BY <3>1, <3>2
  <2>2. CASE SsiLoad
    BY <1>1, <2>2 DEF SsiLoad, Serving, Serves, SsiAt
  <2>3. CASE SsiStore
    BY <1>1, <2>3 DEF SsiStore, Serving, SsiAt
  <2> QED BY <2>1, <2>2, <2>3
<1>5. Stage' = Stage
  BY <1>4 DEF Stage
<1>6. InService' = InService
  BY <1>1, <1>2, <1>4, PeaceTypes, PeaceTypesNext DEF sender
<1> QED BY <1>2, <1>5, <1>6, NobodyMoves DEF Waiting, Free

\* createProcess() makes one process for its sender.
LEMMA CreateMoves ==
  ASSUME Peaceful, PInv, PInv', SsiCreate
  PROVE  \E p, child \in ClientPcb : RR!Create(p, child)
<1>1. TypeOK /\ TypeOK' /\ OneEach /\ Places /\ NoDuplicates
  BY PeaceFacts DEF PInv, WakeInv, IInv
<1>2. PICK child : child = Head(pcbFree)
  OBVIOUS
<1>3. /\ current_process = ssi_pcb /\ step = "serve" /\ request.op = "create"
      /\ pcbFree # <<>> /\ pcbFree' = Tail(pcbFree)
      /\ msg_inbox' = [msg_inbox EXCEPT ![child] = <<>>]
      /\ awaiting' = [awaiting EXCEPT ![child] = Computing] /\ step' = "reply"
      /\ UNCHANGED <<pseudoClockQueue, devQueue, cpu, request, devState>>
  BY <1>2 DEF SsiCreate, Serves, SsiAt, AllocPcb
<1>4. child \in ClientPcb /\ Free = Free' \cup {child} /\ child \notin Free'
  <2>1. pcbFree \in Seq(ClientPcb) /\ IsInjective(pcbFree)
    BY <1>1 DEF TypeOK, NoDuplicates
  <2> QED BY <1>2, <1>3, <2>1, HeadTailSet DEF Free
<1>5. PICK p : p = sender
  OBVIOUS
<1>6. /\ InService = {p} /\ InService' = {p} /\ p \in ClientPcb /\ p \in Waiting /\ p # child
      /\ p \notin OnClock /\ request \in SsiMessage
  BY <1>1, <1>3, <1>4, <1>5, ServiceFacts, PeaceTypesNext DEF Places, sender
<1>7. child \notin Holders /\ child \notin Waiting
  BY <1>1, <1>4 DEF Waiting, OneEach
<1>8. msg_inbox' = msg_inbox
  BY <1>1, <1>3, <1>4, <1>7, ConstantTypes DEF Holders, TypeOK, ClientPcb
<1>9. Mailed' = Mailed /\ Holders' = Holders /\ OnClock' = OnClock
  BY <1>3, <1>8 DEF Mailed, Holders, OnClock
<1>10. Waiting' = Waiting
  <2>1. awaiting'[child] # ssi_pcb /\ \A q \in ClientPcb \ {child} : awaiting'[q] = awaiting[q]
    BY <1>1, <1>3, <1>4, ConstantTypes DEF TypeOK, ClientPcb
  <2> QED BY <1>4, <1>7, <2>1 DEF Waiting
<1>11. \A q \in ClientPcb \ {p, child} : Standing(q)' = Standing(q)
  BY <1>3, <1>4, <1>6, <1>9, <1>10, StandingKept
<1>12. Standing(child) = <<"dead", NULL>> /\ Standing(child)' = <<"computing", NULL>>
  BY <1>4, <1>7, <1>10, StandingIs, StandingIsNext DEF ByPlace
<1>13. Standing(p) = <<"create", NULL>> /\ Standing(p)' = <<"created", NULL>>
  <2>1. Standing(p) = Stage /\ Standing(p)' = Stage'
    BY <1>6, <1>9, StandingIs, StandingIsNext DEF ByPlace
  <2>2. request.arg = NULL
    BY <1>3, <1>6 DEF SsiMessage
  <2> QED BY <1>3, <2>1, <2>2 DEF Stage
<1>14. standing' = [standing EXCEPT ![p] = <<"created", NULL>>, ![child] = <<"computing", NULL>>]
  <2>1. standing' = [q \in ClientPcb |-> Standing(q)']
    BY DEF standing
  <2> QED BY <1>4, <1>6, <1>11, <1>12, <1>13, <2>1 DEF standing
<1>15. RR!Create(p, child)
  BY <1>4, <1>6, <1>12, <1>13, <1>14 DEF RR!Create, RR!Is, standing
<1> QED BY <1>4, <1>6, <1>15

\* An answer of the SSI; that to waitForClock() comes while its sender waits for the tick,
\* or after it.
LEMMA ReplyMoves ==
  ASSUME Peaceful, PInv, PInv', SsiReply
  PROVE  \/ \E p \in ClientPcb : RR!Answer(p)
         \/ standing' = standing
<1>1. TypeOK /\ TypeOK' /\ Letters /\ OneEach /\ Places /\ Serving
  BY PeaceFacts DEF PInv, WakeInv, IInv
<1>2. /\ current_process = ssi_pcb /\ step \in {"reply", "serve"}
      /\ (step = "serve" => request.op = "query")
      /\ Send(Answer, sender) /\ step' = "receive"
      /\ UNCHANGED <<cpu, pcbFree, pseudoClockQueue, devQueue, awaiting, request, devState>>
  BY DEF SsiReply, SsiAt, Serves, Answer
<1>3. PICK p : p = sender
  OBVIOUS
<1>4. /\ InService = {p} /\ p \notin Askers /\ p \in ClientPcb /\ p \in Waiting
      /\ p \notin Free /\ p \notin OnDevice /\ p \notin Holders /\ request \in SsiMessage
      /\ InService' = {}
  BY <1>1, <1>2, <1>3, ServiceFacts, PeaceTypesNext
<1>5. msg_inbox' = [msg_inbox EXCEPT ![p] = <<Answer>> \o @]
  BY <1>2, <1>3, <1>4, PoolHolds DEF Send, Delivered
<1>6. Mailed' = Mailed /\ Holders' = Holders \cup {p}
  BY <1>1, <1>4, <1>5, MailAnswer
<1>7. Free' = Free /\ OnClock' = OnClock /\ Waiting' = Waiting
  BY <1>2 DEF Free, OnClock, Waiting
<1>8. \A q \in ClientPcb \ {p} : Standing(q)' = Standing(q)
  BY <1>2, <1>4, <1>6, <1>7, StandingKept
<1>9. CASE p \in OnClock
  <2>1. Standing(p)' = Standing(p)
    BY <1>4, <1>7, <1>9, StandingIs, StandingIsNext DEF ByPlace
  <2> QED BY <1>8, <2>1 DEF standing
<1>10. CASE p \notin OnClock
  <2>1. Standing(p) = Stage /\ Standing(p)' = <<"answered", NULL>>
    BY <1>4, <1>6, <1>7, <1>10, StandingIs, StandingIsNext DEF ByPlace
  <2>2. standing' = [standing EXCEPT ![p] = <<"answered", NULL>>]
    BY <1>4, <1>8, <2>1, OneMoves
  <2>3. Stage \in {<<"created", NULL>>, <<"query", NULL>>, <<"answered", NULL>>}
    BY <1>1, <1>2, <1>4 DEF Stage, Serving, SsiMessage
  <2>4. standing[p] = Stage
    BY <1>4, <2>1 DEF standing
  <2>5. CASE Stage = <<"answered", NULL>>
    BY <1>4, <1>8, <2>1, <2>5 DEF standing
  <2>6. CASE Stage # <<"answered", NULL>>
    BY <1>4, <2>2, <2>3, <2>4, <2>6 DEF RR!Answer, RR!Is, RR!Becomes
  <2> QED BY <2>5, <2>6
<1> QED BY <1>9, <1>10

\* waitForClock() puts its sender on the clock.
LEMMA ClockMoves ==
  ASSUME Peaceful, PInv, PInv', SsiWaitForClock
  PROVE  \E p \in ClientPcb : RR!Wait(p)
<1>1. TypeOK /\ TypeOK' /\ OneEach /\ Places
  BY PeaceFacts DEF PInv, WakeInv, IInv
<1>2. /\ current_process = ssi_pcb /\ step = "serve" /\ request.op = "clock"
      /\ OutAnyProcQ(sender) /\ step' = "inc"
      /\ pseudoClockQueue' = Append(RemoveFirst(pseudoClockQueue, sender), sender)
      /\ UNCHANGED <<devQueue, cpu, mail, request, devState>>
  BY DEF SsiWaitForClock, SsiAt, Serves
<1>3. PICK p : p = sender
  OBVIOUS
<1>4. /\ InService = {p} /\ p \in ClientPcb /\ p \in Waiting /\ request \in SsiMessage
      /\ p \notin OnClock /\ InService' = {p}
  BY <1>1, <1>2, <1>3, ServiceFacts, PeaceTypesNext DEF Places, sender
<1>5. Free' = Free /\ Waiting' = Waiting /\ Mailed' = Mailed /\ Holders' = Holders
  BY <1>2, OutFacts DEF Free, Waiting, Mailed, Holders
<1>6. OnClock' = OnClock \cup {p}
  <2>1. pseudoClockQueue \in Seq(ClientPcb)
    BY <1>1 DEF TypeOK
  <2>2. pseudoClockQueue' = Append(pseudoClockQueue, p)
    BY <1>2, <1>3, <1>4, <2>1, RemoveFirstSet DEF OnClock
  <2> QED BY <1>4, <2>1, <2>2, AppendSet DEF OnClock
<1>7. \A q \in ClientPcb \ {p} : Standing(q)' = Standing(q)
  BY <1>2, <1>4, <1>5, <1>6, StandingKept
<1>8. Standing(p) = <<"clock", NULL>> /\ Standing(p)' = <<"waiting", NULL>>
  <2>1. Standing(p) = Stage /\ Standing(p)' = <<"waiting", NULL>>
    BY <1>4, <1>5, <1>6, StandingIs, StandingIsNext DEF ByPlace
  <2> QED BY <1>2, <1>4, <2>1 DEF Stage, SsiMessage
<1>9. standing' = [standing EXCEPT ![p] = <<"waiting", NULL>>]
  BY <1>4, <1>7, <1>8, OneMoves
<1> QED BY <1>4, <1>8, <1>9 DEF RR!Wait, RR!Is, RR!Becomes, standing

\* doIO() puts its sender in the slot of a device that is idle: nothing is started yet.
LEMMA BlockQuiet ==
  ASSUME Peaceful, PInv, PInv', SsiBlock
  PROVE  standing' = standing
<1>1. TypeOK /\ TypeOK' /\ OneEach /\ Places /\ Serving /\ Devices'
  BY PeaceFacts DEF PInv, WakeInv, IInv
<1>2. /\ current_process = ssi_pcb /\ step = "block" /\ OutAnyProcQ(sender) /\ step' = "command"
      /\ pseudoClockQueue' = RemoveFirst(pseudoClockQueue, sender)
      /\ devQueue' = [devQueue EXCEPT ![request.arg] = sender]
      /\ UNCHANGED <<cpu, mail, request, devState>>
  BY DEF SsiBlock, SsiAt
<1>3. PICK p : p = sender
  OBVIOUS
<1>4. /\ InService = {p} /\ p \in ClientPcb /\ p \in Waiting /\ p \notin OnDevice
      /\ p \notin OnClock /\ request \in SsiMessage /\ request.op = "doio" /\ Proper(request)
  BY <1>1, <1>2, <1>3, ServiceFacts DEF Places, Serving
<1>5. PICK d : d = request.arg
  OBVIOUS
<1>6. d \in Device
  BY <1>4, <1>5 DEF SsiMessage
<1>7. /\ devQueue'[d] = p /\ devState[d] = "idle" /\ devState' = devState
      /\ \A e \in Device \ {d} : devQueue'[e] = devQueue[e]
  <2>1. devQueue'[request.arg] = sender' /\ devState'[request.arg'] = "idle"
    BY <1>1, <1>2, <1>5, <1>6 DEF Devices, TypeOK, sender
  <2> QED BY <1>1, <1>2, <1>3, <1>5, <1>6, <2>1 DEF sender, TypeOK
<1>8. devQueue[d] = NULL
  <2>1. devQueue[d] = NULL \/ devQueue[d] \in ClientPcb
    BY <1>1, <1>6 DEF TypeOK
  <2>2. ASSUME devQueue[d] \in ClientPcb PROVE FALSE
    <3>1. devQueue[d] \in OnDevice /\ devQueue[d] \in Pcb /\ p \in Pcb
      BY <1>4, <1>6, <2>2, ConstantTypes DEF OnDevice, ClientPcb
    <3>2. d \in drives[devQueue[d]] /\ d \in drives[p]
      BY <1>3, <1>4, <1>5, <1>6, <2>2, <3>1, PeaceFacts, ConstantTypes
         DEF Devices, Proper, sender, ClientPcb
    <3> QED BY <1>4, <3>1, <3>2 DEF Peaceful
  <2> QED BY <2>1, <2>2
<1>9. Free' = Free /\ Waiting' = Waiting /\ Mailed' = Mailed /\ Holders' = Holders
  BY <1>2, OutFacts DEF Free, Waiting, Mailed, Holders
<1>10. OnClock' = OnClock
  BY <1>1, <1>2, <1>3, <1>4, RemoveFirstSet DEF OnClock, TypeOK
<1>11. \A q \in ClientPcb \ {p} : Standing(q)' = Standing(q)
  <2>1. \A q \in ClientPcb : devQueue[d] # q
    BY <1>8, ConstantTypes DEF ClientPcb
  <2> QED BY <1>4, <1>7, <1>9, <1>10, <2>1, StandingKept
<1>12. Standing(p)' = Standing(p)
  <2>1. Standing(p) = Stage /\ Standing(p)' = <<Progress[devState'[d]], d>>
    BY <1>4, <1>6, <1>7, StandingIs, StandingIsNext DEF ByPlace
  <2>2. Progress["idle"] = "doio"
    BY DEF Progress
  <2> QED BY <1>4, <1>5, <1>7, <2>1, <2>2 DEF Stage
<1> QED BY <1>11, <1>12 DEF standing

\* doIO() writes the command.
LEMMA CommandMoves ==
  ASSUME Peaceful, PInv, PInv', SsiCommand
  PROVE  \E p \in ClientPcb : \E d \in Device : RR!Start(p, d)
<1>1. TypeOK /\ TypeOK' /\ Devices /\ Serving /\ NoDuplicates
  BY PeaceFacts DEF PInv, WakeInv, IInv
<1>2. /\ current_process = ssi_pcb /\ step = "command" /\ step' = "receive"
      /\ devState' = [devState EXCEPT ![request.arg] = "busy"]
      /\ UNCHANGED <<queues, cpu, mail, request>>
  BY DEF SsiCommand, SsiAt
<1>3. PICK d : d = request.arg
  OBVIOUS
<1>4. PICK p : p = sender
  OBVIOUS
<1>5. /\ d \in Device /\ p \in ClientPcb /\ devQueue[d] = p /\ devState[d] = "idle"
  <2>1. request.op = "doio" /\ request \in SsiMessage
    BY <1>1, <1>2 DEF Serving, TypeOK
  <2> QED BY <1>1, <1>2, <1>3, <1>4, <2>1, PeaceTypes DEF SsiMessage, Devices
<1>6. devState'[d] = "busy" /\ \A e \in Device \ {d} : devState'[e] = devState[e]
  BY <1>1, <1>2, <1>3, <1>5 DEF TypeOK
<1>7. /\ Free' = Free /\ Waiting' = Waiting /\ Mailed' = Mailed /\ Holders' = Holders
      /\ OnClock' = OnClock /\ InService = {} /\ devQueue' = devQueue
  BY <1>1, <1>2, PeaceTypes DEF Free, Waiting, Mailed, Holders, OnClock
<1>8. \A q \in ClientPcb \ {p} : Standing(q)' = Standing(q)
  BY <1>5, <1>6, <1>7, StandingKept
<1>9. Standing(p) = <<"doio", d>> /\ Standing(p)' = <<"busy", d>>
  <2>1. Progress["idle"] = "doio" /\ Progress["busy"] = "busy"
    BY DEF Progress
  <2> QED BY <1>5, <1>6, <1>7, <2>1, StandingIs, StandingIsNext DEF ByPlace
<1>10. \A q \in ClientPcb : Standing(q) \notin {<<"busy", d>>, <<"done", d>>}
  <2>1. \A q \in ClientPcb : Standing(q) \in {<<"busy", d>>, <<"done", d>>} => q = p
    BY <1>5, StandingTells
  <2> QED BY <1>9, <2>1
<1>11. standing' = [standing EXCEPT ![p] = <<"busy", d>>]
  BY <1>5, <1>8, <1>9, OneMoves
<1>12. RR!Start(p, d)
  BY <1>5, <1>9, <1>10, <1>11 DEF RR!Start, standing
<1> QED BY <1>5, <1>12

\* killProcess() ends its only victim when it frees the PCB.
LEMMA KillMoves ==
  ASSUME Peaceful, PInv, PInv', KillProcess
  PROVE  \/ \E p \in ClientPcb : RR!End(p)
         \/ standing' = standing
<1>1. TypeOK /\ TypeOK' /\ Killed /\ KillSound /\ OneEach /\ Places /\ Killed'
  BY PeaceFacts DEF PInv, WakeInv, IInv
<1>2. step \in KillSteps => step \in {"kill", "free"} /\ p_child[Dying] = {}
  BY <1>1 DEF Killed
<1>3. ~KillChild /\ ~KillSeek /\ ~KillLoad /\ ~KillStore /\ ~KillOutClock /\ ~KillOutDev
  BY <1>2 DEF KillChild, KillSeek, KillLoad, KillStore, KillOutClock, KillOutDev, Killing, KillSteps
<1>5. step \in {"kill", "free"} =>
        /\ Dying \in ClientPcb /\ Dying \notin Free
        /\ current_process = ssi_pcb =>
             Dying = sender /\ request.op \in {"terminate", "invalid"} /\ Proper(request)
        /\ current_process # ssi_pcb => Dying = current_process /\ awaiting[Dying] = Computing
  <2> SUFFICES ASSUME step \in {"kill", "free"}
               PROVE  /\ Dying \in ClientPcb /\ Dying \notin Free
                      /\ current_process = ssi_pcb =>
                           Dying = sender /\ request.op \in {"terminate", "invalid"}
                             /\ Proper(request)
                      /\ current_process # ssi_pcb =>
                           Dying = current_process /\ awaiting[Dying] = Computing
    OBVIOUS
  <2>1. Dying \in ClientPcb
    BY <1>1, DyingFacts DEF KillSteps
  <2>2. CASE current_process = ssi_pcb
    BY <1>1, <2>1, <2>2, ServiceFacts DEF Killed, KillSteps
  <2>3. CASE current_process # ssi_pcb
    <3>1. Dying \in Running
      BY <1>1, <2>1, <2>3, ConstantTypes DEF Killed, KillSteps, Running, ClientPcb
    <3> QED BY <1>1, <2>1, <2>3, <3>1, PeaceFacts DEF Killed, KillSteps, Apart
  <2> QED BY <2>2, <2>3
<1>6. CASE KillUnblocked
  <2>1. /\ step = "kill" /\ step' \in {"free", "seek"}
        /\ UNCHANGED <<pcbFree, pseudoClockQueue, devQueue, cpu, mail, request, devState>>
    BY <1>6 DEF KillUnblocked, Killing
  <2>2. InService' = InService
    BY <1>1, <2>1, PeaceTypes, PeaceTypesNext DEF sender
  <2>3. InService # {} => Stage' = Stage
    <3>1. InService # {} => current_process = ssi_pcb
      BY <1>1, PeaceTypes
    <3> QED BY <1>5, <2>1, <3>1 DEF Stage
  <2> QED BY <2>1, <2>2, <2>3, NobodyMoves DEF Waiting, Free
<1>7. CASE KillFree
  <2>1. /\ step = "free" /\ pcbFree' = Append(pcbFree, Dying)
        /\ UNCHANGED <<pseudoClockQueue, devQueue, mail, request, devState>>
    BY <1>7 DEF KillFree, Killing
  <2>2. PICK p : p = Dying
    OBVIOUS
  <2>3. p \in ClientPcb /\ p \notin Free /\ Free' = Free \cup {p}
    BY <1>1, <1>5, <2>1, <2>2, AppendSet DEF Free, TypeOK
  <2>4. Waiting' = Waiting \ {p} /\ OnClock' = OnClock /\ Mailed' = Mailed /\ Holders' = Holders
    BY <2>1, <2>3 DEF Waiting, OnClock, Mailed, Holders
  <2>5. InService \subseteq {p}
    BY <1>1, <1>5, <2>1, <2>2, PeaceTypes
  <2>6. \A q \in ClientPcb \ {p} : Standing(q)' = Standing(q)
    BY <2>1, <2>3, <2>4, <2>5, StandingKept
  <2>7. Standing(p)' = <<"dead", NULL>>
    BY <2>3, StandingIsNext DEF ByPlace
  <2>8. Standing(p) \in {<<"computing", NULL>>, <<"terminate", NULL>>, <<"invalid", NULL>>}
    <3>1. CASE current_process = ssi_pcb
      <4>1. p \in InService /\ request.op \in {"terminate", "invalid"} /\ request \in SsiMessage
        BY <1>1, <1>5, <2>1, <2>2, <3>1, PeaceTypes DEF TypeOK
      <4>2. p \notin OnClock
        BY <1>1, <2>1, <4>1 DEF Places
      <4>3. Standing(p) = Stage
        BY <2>3, <4>1, <4>2, StandingIs DEF ByPlace
      <4>4. request.arg = NULL
        BY <1>5, <2>1, <3>1, <4>1 DEF Proper, SsiMessage
      <4> QED BY <4>1, <4>3, <4>4 DEF Stage
    <3>2. CASE current_process # ssi_pcb
      <4>1. p \notin Waiting
        BY <1>5, <2>1, <2>2, <3>2, ConstantTypes DEF Waiting
      <4> QED BY <2>3, <4>1, StandingIs DEF ByPlace
    <3> QED BY <3>1, <3>2
  <2>9. standing' = [standing EXCEPT ![p] = <<"dead", NULL>>]
    BY <2>3, <2>6, <2>7, OneMoves
  <2>10. RR!End(p)
    BY <2>3, <2>8, <2>9 DEF RR!End, RR!Is, RR!Becomes, standing
  <2> QED BY <2>3, <2>10
<1> QED BY <1>3, <1>6, <1>7 DEF KillProcess

\* The interval timer wakes everyone on the clock, those included whose answer the SSI has
\* not sent yet.
LEMMA TimerMoves ==
  ASSUME Peaceful, PInv, PInv', IntervalTimer
  PROVE  RR!Tick
<1>1. TypeOK /\ TypeOK' /\ OneEach /\ Places /\ Apart
  BY PeaceFacts DEF PInv, WakeInv, IInv
<1> DEFINE soft == softBlockCount - Len(pseudoClockQueue)
           ready == readyQueue \o pseudoClockQueue
<1>2. /\ InterruptsOn /\ ResumeOrSchedule(ready, soft) /\ pseudoClockQueue' = <<>>
      /\ UNCHANGED <<pcbFree, devQueue, mail, ssi, devState>>
  BY DEF IntervalTimer
<1>3. ready \in Seq(Pcb) /\ soft \in Int
  <2>1. readyQueue \in Seq(Pcb) /\ pseudoClockQueue \in Seq(Pcb) /\ softBlockCount \in Int
    BY <1>1, ConstantTypes, SeqMonotonic DEF TypeOK
  <2> QED BY <2>1, ConcatProperties, LenProperties
<1> HIDE DEF soft, ready
<1>4. InService' = InService
  BY <1>1, <1>2, <1>3, ResumePeace
<1>5. /\ OnClock' = {} /\ Free' = Free /\ Waiting' = Waiting /\ Mailed' = Mailed
      /\ Holders' = Holders
  BY <1>2 DEF OnClock, ToSet, Free, Waiting, Mailed, Holders
<1>6. \A q \in ClientPcb \ (Waiting \cap OnClock) : Standing(q)' = Standing(q)
  <2>1. Stage' = Stage
    BY <1>2 DEF Stage
  <2> QED BY <1>2, <1>4, <1>5, <2>1, StandingKept
<1>7. ASSUME NEW q \in Waiting \cap OnClock PROVE Standing(q)' = <<"answered", NULL>>
  <2>1. q \in ClientPcb /\ q \notin Askers /\ q \notin OnDevice
    BY <1>1, PeaceTypes DEF Places, Apart
  <2>2. CASE q \in InService
    <3>1. request.op = "clock" /\ step # "serve"
      BY <1>1, <2>2 DEF Places
    <3>2. Standing(q)' = Stage'
      BY <1>4, <1>5, <2>1, <2>2, StandingIsNext DEF ByPlace
    <3> QED BY <1>2, <3>1, <3>2 DEF Stage
  <2>3. CASE q \in Holders
    BY <1>5, <2>1, <2>3, StandingIsNext DEF ByPlace
  <2> QED BY <1>1, <2>1, <2>2, <2>3 DEF OneEach
<1>8. \A q \in ClientPcb : Standing(q) = <<"waiting", NULL>> <=> q \in Waiting \cap OnClock
  BY StandingTells, StandingIs DEF ByPlace
<1>9. standing' = [q \in ClientPcb |-> Standing(q)']
  BY DEF standing
<1>10. \A q \in ClientPcb :
         Standing(q)' = IF Standing(q) = <<"waiting", NULL>> THEN <<"answered", NULL>> ELSE Standing(q)
  BY <1>6, <1>7, <1>8
<1> QED BY <1>9, <1>10 DEF RR!Tick, RR!Is, standing

\* A device ends its operation.
LEMMA FinishMoves ==
  ASSUME Peaceful, PInv, PInv', NEW d \in Device, DeviceCompletes(d)
  PROVE  \E p \in ClientPcb : RR!Finish(p, d)
<1>1. TypeOK /\ TypeOK' /\ Devices /\ NoDuplicates
  BY PeaceFacts DEF PInv, WakeInv, IInv
<1>2. devState[d] = "busy" /\ UNCHANGED <<queues, cpu, mail, ssi>>
  BY DEF DeviceCompletes
<1>3. /\ devState'[d] \in {"done", "failed"}
      /\ \A e \in Device \ {d} : devState'[e] = devState[e]
  BY <1>1 DEF DeviceCompletes, TypeOK
<1>4. devQueue[d] \in ClientPcb
  BY <1>1, <1>2 DEF Devices, TypeOK
<1>5. PICK p \in ClientPcb : p = devQueue[d]
  BY <1>4
<1>6. /\ Free' = Free /\ Waiting' = Waiting /\ Mailed' = Mailed /\ Holders' = Holders
      /\ OnClock' = OnClock /\ InService' = InService /\ Stage' = Stage /\ devQueue' = devQueue
  BY <1>1, <1>2, PeaceTypes, PeaceTypesNext
     DEF Free, Waiting, Mailed, Holders, OnClock, Stage, sender
<1>7. \A q \in ClientPcb \ {p} : Standing(q)' = Standing(q)
  BY <1>3, <1>5, <1>6, StandingKept
<1>8. Standing(p) = <<"busy", d>> /\ Standing(p)' = <<"done", d>>
  <2>1. Progress["busy"] = "busy" /\ Progress["done"] = "done" /\ Progress["failed"] = "done"
    BY DEF Progress
  <2> QED BY <1>2, <1>3, <1>5, <1>6, <2>1, StandingIs, StandingIsNext DEF ByPlace
<1>9. standing' = [standing EXCEPT ![p] = <<"done", d>>]
  BY <1>7, <1>8, OneMoves
<1> QED BY <1>8, <1>9 DEF RR!Finish, standing

\* deviceInterrupt() answers the user of the device that has finished.
LEMMA DeviceMoves ==
  ASSUME Peaceful, PInv, PInv', DeviceInterrupt
  PROVE  \E p \in ClientPcb : \E d \in Device : RR!Deliver(p, d)
<1>1. TypeOK /\ TypeOK' /\ OneEach /\ Letters /\ Devices /\ NoDuplicates /\ Apart
  BY PeaceFacts DEF PInv, WakeInv, IInv
<1>2. PICK d : d = Interrupting
  OBVIOUS
<1>3. d \in Pending /\ d \in Device /\ devQueue[d] \in ClientPcb
  BY <1>1, <1>2, PeaceInterrupting DEF DeviceInterrupt, TypeOK
<1>4. PICK p \in ClientPcb : p = devQueue[d]
  BY <1>3
<1> DEFINE soft == softBlockCount - 1
           ready == Append(readyQueue, p)
<1>5. /\ InterruptsOn /\ devState' = Acknowledged(d)
      /\ devQueue' = [devQueue EXCEPT ![d] = NULL] /\ Send(Answer, p)
      /\ ResumeOrSchedule(ready, soft)
      /\ UNCHANGED <<pcbFree, pseudoClockQueue, awaiting, ssi>>
  BY <1>2, <1>4, ConstantTypes DEF DeviceInterrupt, Answer, ClientPcb
<1>6. ready \in Seq(Pcb) /\ soft \in Int
  <2>1. readyQueue \in Seq(Pcb) /\ softBlockCount \in Int
    BY <1>1 DEF TypeOK
  <2> QED BY <1>4, <2>1, AppendProperties DEF ClientPcb
<1> HIDE DEF soft, ready
<1>7. InService' = InService /\ Stage' = Stage
  BY <1>1, <1>5, <1>6, ResumePeace DEF Stage
<1>8. /\ p \in OnDevice /\ p \notin OnClock /\ p \notin Free /\ p \notin Askers
      /\ p \notin InService /\ p \notin Holders
  BY <1>1, <1>3, <1>4, ConstantTypes DEF OnDevice, Apart, OneEach, ClientPcb
<1>9. msg_inbox' = [msg_inbox EXCEPT ![p] = <<Answer>> \o @]
  BY <1>5, <1>8, PoolHolds DEF Send, Delivered
<1>10. Mailed' = Mailed /\ Holders' = Holders \cup {p}
  BY <1>1, <1>8, <1>9, MailAnswer
<1>11. Free' = Free /\ OnClock' = OnClock /\ Waiting' = Waiting
  BY <1>5 DEF Free, OnClock, Waiting
<1>12. \A e \in Device \ {d} : devQueue'[e] = devQueue[e] /\ devState'[e] = devState[e]
  BY <1>1, <1>3, <1>5 DEF TypeOK, Acknowledged
<1>13. \A q \in ClientPcb \ {p} : Standing(q)' = Standing(q)
  BY <1>4, <1>7, <1>10, <1>11, <1>12, StandingKept
<1>14. Standing(p) = <<"done", d>> /\ Standing(p)' = <<"answered", NULL>>
  <2>1. Progress["done"] = "done" /\ Progress["failed"] = "done"
    BY DEF Progress
  <2>2. devState[d] \in {"done", "failed"}
    BY <1>3 DEF Pending
  <2> QED BY <1>3, <1>4, <1>8, <1>10, <1>11, <2>1, <2>2, StandingIs, StandingIsNext DEF ByPlace
<1>15. standing' = [standing EXCEPT ![p] = <<"answered", NULL>>]
  BY <1>13, <1>14, OneMoves
<1>16. RR!Deliver(p, d)
  BY <1>14, <1>15 DEF RR!Deliver, RR!Becomes, standing
<1> QED BY <1>3, <1>16

\* The local timer in the wait state, which crashes the machine, and stuttering.
LEMMA RestQuiet ==
  ASSUME PInv, PInv', LocalTimerIdle \/ UNCHANGED vars
  PROVE  standing' = standing
<1>1. TypeOK /\ TypeOK'
  BY PeaceFacts DEF PInv, WakeInv, IInv
<1>2. UNCHANGED <<queues, current_process, mail, ssi, devState>>
  BY DEF LocalTimerIdle, vars
<1>3. InService' = InService /\ Stage' = Stage /\ Waiting' = Waiting
  BY <1>1, <1>2, PeaceTypes, PeaceTypesNext DEF sender, Stage, Waiting, Free
<1> QED BY <1>2, <1>3, NobodyMoves

LEMMA StandingInit == Peaceful /\ Init => RR!Init
<1> SUFFICES ASSUME Peaceful, Init PROVE RR!Init
  OBVIOUS
<1>1. PInv /\ ToSet(freeList) = Pcb \ {ssi_pcb, root_pcb} /\ Computing # ssi_pcb
  BY PeaceInit, ConstantTypes, NucleusAssumption
<1>2. /\ Free = ClientPcb \ {root_pcb} /\ root_pcb \in ClientPcb /\ root_pcb # ssi_pcb
      /\ awaiting[root_pcb] = Computing
  BY <1>1, NucleusAssumption DEF Init, Free, ClientPcb
<1>3. \A p \in ClientPcb :
        Standing(p) = IF p = root_pcb THEN <<"computing", NULL>> ELSE <<"dead", NULL>>
  BY <1>1, <1>2 DEF Standing
<1> QED BY <1>3 DEF RR!Init, standing

LEMMA StandingStep == Peaceful /\ PInv /\ PInv' /\ [Next]_vars => [RR!Next]_standing
<1> SUFFICES ASSUME Peaceful, PInv, PInv', [Next]_vars PROVE RR!Next \/ standing' = standing
  OBVIOUS
<1>1. ASSUME NEW p \in Pcb, Client(p) PROVE RR!Next \/ standing' = standing
  <2>1. ~SendToClient(p)
    BY PeaceSend
  <2>2. p \in ClientPcb
    <3>1. Runs(p)
      BY <1>1 DEF Client, Request, SendToClient, StartReceive, Receive, Preempt, Trap
    <3> QED BY <3>1, ClientFacts
  <2> QED BY <1>1, <2>1, <2>2, RequestMoves, ReceiveMoves, ClientQuiet DEF Client, RR!Next
<1>2. ASSUME Ssi PROVE RR!Next \/ standing' = standing
  <2>1. ~SsiCreateFails /\ ~SsiUnlinkFails
    BY PeaceSsiCreateFails, PeaceSsiUnlinkFails
  <2> QED BY <1>2, <2>1, TakeQuiet, ServiceQuiet, CreateMoves, ReplyMoves, ClockMoves, BlockQuiet,
             CommandMoves DEF Ssi, RR!Next
<1>3. ASSUME KillProcess PROVE RR!Next \/ standing' = standing
  BY <1>3, KillMoves DEF RR!Next
<1>4. ASSUME Interrupts PROVE RR!Next \/ standing' = standing
  BY <1>4, RestQuiet, TimerMoves, FinishMoves, DeviceMoves DEF Interrupts, RR!Next
<1>5. ASSUME UNCHANGED vars PROVE RR!Next \/ standing' = standing
  BY <1>5, RestQuiet
<1> QED BY <1>1, <1>2, <1>3, <1>4, <1>5 DEF Next

\* What a process asks of the SSI is done for it, once, before it goes on: the nucleus
\* implements RequestReply.
THEOREM ImplementsRequestReply == ASSUME Peaceful PROVE Spec => RequestsAnswered
<1>1. Init => RR!Init
  BY StandingInit
<1>2. PInv /\ PInv' /\ [Next]_vars => [RR!Next]_standing
  BY StandingStep
<1> QED BY <1>1, <1>2, PeacefulInvariant, PTL DEF Spec, RR!Spec, RequestsAnswered
==============================================================================
