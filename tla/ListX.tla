--------------------------------- MODULE ListX ---------------------------------
(****************************************************************************)
(* The circular lists of listx.h, pointer by pointer, as pcb.c uses them    *)
(* through the field p_list of a PCB.                                       *)
(*                                                                          *)
(* A handler runs with interrupts off, so that its list operations are one  *)
(* step.  The SSI runs with interrupts on: each store of its list_add_tail, *)
(* list_del and INIT_LIST_HEAD is a step, and a device or the interval      *)
(* timer may interrupt it between any two, and change any list: the code    *)
(* masks nothing.  Nucleus makes each of these operations one step; this    *)
(* module says when that is right.                                          *)
(****************************************************************************)
EXTENDS Integers, FiniteSets, SequencesExt

CONSTANTS
  Pcb,
  ssi_pcb,
  NULL

ListHead == {"pcbFree_h", "readyQueue", "receiveMessageQueue", "pseudoClockQueue"}
Node == Pcb \cup ListHead
Place == ListHead \cup {"device", "nowhere"}

ASSUME ListAssumption ==
  /\ ssi_pcb \in Pcb /\ IsFiniteSet(Pcb) /\ NULL \notin Node /\ Pcb \cap Place = {}

VARIABLES
  next, prev,  \* the fields of the list heads and of p_list of each PCB
  where,       \* where[p]: the list p is in, "device" (devQueue) or "nowhere"
  current_process,
  calls,       \* the list operations the SSI has still to call
  stores,      \* the stores left of the operation it is in
  change,      \* that operation: of which PCB, in which list, and where it goes
  timer,       \* intervalTimer() is in its loop
  clashed      \* a handler has changed a list in the middle of the SSI's operation on it

links == <<next, prev, where>>
ssi == <<calls, stores, change>>
vars == <<links, current_process, ssi, timer, clashed>>
------------------------------------------------------------------------------
(* listx.h: what a function stores, in order, each [field, at, to].         *)

Store(f, n, v) == [field |-> f, at |-> n, to |-> v]

InitStores(list) == <<Store("next", list, list), Store("prev", list, list)>>

\* Mutant: new->prev is not set.
AddNoPrev(new, prv, nxt) ==
  <<Store("prev", nxt, new), Store("next", new, nxt), Store("next", prv, new)>>

\* __list_add(), __list_del().
AddStores(new, prv, nxt) ==
  <<Store("prev", nxt, new), Store("next", new, nxt), Store("prev", new, prv),
    Store("next", prv, new)>>
DelStores(prv, nxt) == <<Store("prev", nxt, prv), Store("next", prv, nxt)>>

\* The field f after the stores s: a later store to a node overwrites an earlier one.
After(f, field, s) ==
  [n \in Node |-> LET writes == {i \in DOMAIN s : s[i].field = f /\ s[i].at = n}
                  IN IF writes = {} THEN field[n] ELSE s[Max(writes)].to]

Empty(head) == next[head] = head

\* Mutant: list_add() in place of list_add_tail().
AddHead(nx, pv, new, head) == AddStores(new, head, nx[head])

\* list_del() and list_add_tail(), given the fields.
Del(nx, pv, entry) == DelStores(pv[entry], nx[entry])
AddTail(nx, pv, new, head) == AddStores(new, pv[head], head)
------------------------------------------------------------------------------
(* pcb.c, in a handler: removeProcQ() and outAnyProcQ(), insertProcQ() and  *)
(* freePcb(), and both.                                                     *)

Out(p) ==
  /\ next' = After("next", next, Del(next, prev, p))
  /\ prev' = After("prev", prev, Del(next, prev, p))
  /\ where' = [where EXCEPT ![p] = "nowhere"]

Insert(p, head) ==
  /\ next' = After("next", next, AddTail(next, prev, p, head))
  /\ prev' = After("prev", prev, AddTail(next, prev, p, head))
  /\ where' = [where EXCEPT ![p] = head]

Move(p, head) ==
  LET nx == After("next", next, Del(next, prev, p))
      pv == After("prev", prev, Del(next, prev, p))
  IN /\ next' = After("next", nx, AddTail(nx, pv, p, head))
     /\ prev' = After("prev", pv, AddTail(nx, pv, p, head))
     /\ where' = [where EXCEPT ![p] = head]
------------------------------------------------------------------------------
\* After main(): the SSI runs, test() is ready and the other PCBs are free.
Init ==
  \E root \in Pcb \ {ssi_pcb} :
    LET k == Cardinality(Pcb) - 2
        At(order, n) == CHOOSE i \in 1..k : order[i] = n
    IN \E order \in Bijection(1..k, Pcb \ {ssi_pcb, root}) :
       /\ next = [n \in Node |->
            CASE n = "readyQueue" -> root
              [] n = root -> "readyQueue"
              [] n = "pcbFree_h" /\ k > 0 -> order[1]
              [] n \in Pcb \ {ssi_pcb, root} ->
                   IF At(order, n) = k THEN "pcbFree_h" ELSE order[At(order, n) + 1]
              [] OTHER -> n]
       /\ prev = [n \in Node |->
            CASE n = "readyQueue" -> root
              [] n = root -> "readyQueue"
              [] n = "pcbFree_h" /\ k > 0 -> order[k]
              [] n \in Pcb \ {ssi_pcb, root} ->
                   IF At(order, n) = 1 THEN "pcbFree_h" ELSE order[At(order, n) - 1]
              [] OTHER -> n]
       /\ where = [p \in Pcb |-> CASE p = ssi_pcb -> "nowhere" [] p = root -> "readyQueue"
                                    [] OTHER -> "pcbFree_h"]
       /\ current_process = ssi_pcb
       /\ calls = <<>> /\ stores = <<>>
       /\ change = [pcb |-> ssi_pcb, list |-> "nowhere", to |-> "nowhere"]
       /\ timer = FALSE /\ clashed = FALSE
------------------------------------------------------------------------------
(* The SSI, once it has a request.                                          *)

Idle == calls = <<>> /\ stores = <<>>
SsiRuns == current_process = ssi_pcb /\ ~timer

Call(op, p, to) == [op |-> op, pcb |-> p, to |-> to]

\* Mutant: the sender is not taken out of its queue.
WaitForClockTwice(p) ==
  /\ where[p] \in {"readyQueue", "receiveMessageQueue"}
  /\ calls' = <<Call("add", p, "pseudoClockQueue")>>
  /\ UNCHANGED where

\* createProcess(), after allocPcb() has found a PCB.
CreateProcess(p) ==
  /\ ~Empty("pcbFree_h") /\ p = next["pcbFree_h"]
  /\ calls' = <<Call("del", p, "nowhere"), Call("init", p, "nowhere"),
                Call("add", p, "readyQueue")>>
  /\ UNCHANGED where
WaitForClock(p) ==
  /\ where[p] \in {"readyQueue", "receiveMessageQueue"}
  /\ calls' = <<Call("del", p, "nowhere"), Call("add", p, "pseudoClockQueue")>>
  /\ UNCHANGED where
\* The device starts after the sender is in its slot.
DoIO(p) ==
  /\ where[p] \in {"readyQueue", "receiveMessageQueue"}
  /\ calls' = <<Call("del", p, "device")>>
  /\ UNCHANGED where
\* killProcess(): the search and, for a process in a slot, outDevQ() (Nucleus has
\* what an interrupt does between the two).
KillProcess(p) ==
  \/ /\ where[p] \in ListHead \ {"pcbFree_h"}
     /\ calls' = <<Call("del", p, "nowhere"), Call("add", p, "pcbFree_h")>>
     /\ UNCHANGED where
  \/ /\ where[p] = "device" /\ where' = [where EXCEPT ![p] = "nowhere"]
     /\ calls' = <<Call("add", p, "pcbFree_h")>>

SsiServe(p) ==
  /\ SsiRuns /\ Idle /\ ~clashed
  /\ CreateProcess(p) \/ WaitForClock(p) \/ DoIO(p) \/ KillProcess(p)
  /\ UNCHANGED <<next, prev, current_process, stores, change, timer, clashed>>

\* It calls the next operation: the pointers it needs are loaded.
SsiCall ==
  /\ SsiRuns /\ stores = <<>> /\ calls # <<>>
  /\ LET c == calls[1] IN
       \/ /\ c.op = "del" /\ stores' = Del(next, prev, c.pcb)
          /\ change' = [pcb |-> c.pcb, list |-> where[c.pcb], to |-> c.to]
       \/ /\ c.op = "add" /\ stores' = AddTail(next, prev, c.pcb, c.to)
          /\ change' = [pcb |-> c.pcb, list |-> c.to, to |-> c.to]
       \/ /\ c.op = "init" /\ stores' = InitStores(c.pcb)
          /\ change' = [pcb |-> c.pcb, list |-> "nowhere", to |-> c.to]
  /\ calls' = Tail(calls)
  /\ UNCHANGED <<links, current_process, timer, clashed>>

SsiStore ==
  /\ SsiRuns /\ stores # <<>>
  /\ next' = After("next", next, <<stores[1]>>)
  /\ prev' = After("prev", prev, <<stores[1]>>)
  /\ where' = IF Len(stores) = 1 THEN [where EXCEPT ![change.pcb] = change.to] ELSE where
  /\ stores' = Tail(stores)
  /\ UNCHANGED <<current_process, calls, change, timer, clashed>>
------------------------------------------------------------------------------
(* Interrupts, which come at any time.  After a clash the operation under   *)
(* way and the handlers follow the pointers on; the searches of the SSI and *)
(* of sendMessage() are not modelled any more.                              *)

\* A handler changes these lists, whatever the SSI is doing.
Changes(lists) ==
  clashed' = (clashed \/ (stores # <<>> /\ change.list \in lists))

DeviceInterrupt(p) ==
  /\ ~timer /\ where[p] = "device"
  /\ Insert(p, "readyQueue") /\ Changes({"readyQueue"})
  /\ UNCHANGED <<current_process, ssi, timer>>

IntervalTimer ==
  /\ ~timer /\ timer' = TRUE
  /\ UNCHANGED <<links, current_process, ssi, clashed>>
WakeOne(p) ==
  /\ timer /\ ~Empty("pseudoClockQueue") /\ p = next["pseudoClockQueue"]
  /\ Move(p, "readyQueue") /\ Changes({"pseudoClockQueue", "readyQueue"})
  /\ UNCHANGED <<current_process, ssi, timer>>
WakeEnd ==
  /\ timer /\ Empty("pseudoClockQueue") /\ timer' = FALSE
  /\ UNCHANGED <<links, current_process, ssi, clashed>>
------------------------------------------------------------------------------
(* The scheduler and the system calls of the process that runs.             *)

\* Mutant: the ready queue is not tested.
DispatchAnyway(p) ==
  /\ current_process = NULL /\ ~timer
  /\ current_process' = next["readyQueue"]
  /\ UNCHANGED <<links, ssi, timer, clashed>>

Dispatch(p) ==
  /\ current_process = NULL /\ ~timer /\ ~Empty("readyQueue") /\ p = next["readyQueue"]
  /\ Out(p) /\ current_process' = p
  /\ UNCHANGED <<ssi, timer, clashed>>

\* The running process is put into a list and the scheduler called: it blocks in
\* RECEIVEMESSAGE, its time slice ends, or it traps and dies.
PutAway(head) ==
  /\ current_process # NULL /\ ~timer /\ Idle
  /\ head # "receiveMessageQueue" => current_process # ssi_pcb
  /\ Insert(current_process, head) /\ current_process' = NULL
  /\ UNCHANGED <<ssi, timer, clashed>>
ReceiveMessage == PutAway("receiveMessageQueue")
ProcessorLocalTimer == PutAway("readyQueue")
Die == PutAway("pcbFree_h")

\* sendMessage() to a process that waits.
SendMessage(dest) ==
  /\ current_process # NULL /\ ~timer /\ Idle /\ ~clashed
  /\ where[dest] = "receiveMessageQueue" /\ Move(dest, "readyQueue")
  /\ UNCHANGED <<current_process, ssi, timer, clashed>>
------------------------------------------------------------------------------
Next ==
  \/ SsiCall \/ SsiStore \/ IntervalTimer \/ WakeEnd
  \/ ReceiveMessage \/ ProcessorLocalTimer \/ Die
  \/ \E p \in Pcb : SsiServe(p) \/ DeviceInterrupt(p) \/ WakeOne(p) \/ Dispatch(p)
       \/ SendMessage(p)

Spec == Init /\ [][Next]_vars
------------------------------------------------------------------------------
TypeOK ==
  /\ next \in [Node -> Node] /\ prev \in [Node -> Node] /\ where \in [Pcb -> Place]
  /\ current_process \in Pcb \cup {NULL}
  /\ calls \in Seq([op : {"del", "add", "init"}, pcb : Pcb, to : Place])
  /\ stores \in Seq([field : {"next", "prev"}, at : Node, to : Node])
  /\ change \in [pcb : Pcb, list : Place, to : Place]
  /\ timer \in BOOLEAN /\ clashed \in BOOLEAN

\* The nodes of a list: its head and its PCBs.
In(list) == {list} \cup {p \in Pcb : where[p] = list}

\* Only a clash breaks a list: without one, every list that the SSI is not changing is
\* closed and doubly linked, next and prev lead to nodes of the list and back (listx.h),
\* though handlers change the other lists between any two of its stores.
DoublyLinked ==
  ~clashed =>
    \A list \in ListHead : (stores # <<>> => change.list # list) =>
      \A n \in In(list) : /\ next[n] \in In(list) /\ prev[next[n]] = n
                          /\ prev[n] \in In(list) /\ next[prev[n]] = n

\* What list_for_each() has come to after i steps from the head, and all of it, if it
\* comes back to the head.
Trail(list) ==
  LET trail[i \in 0..Cardinality(Pcb)] ==
        IF i = 0 THEN <<list>>
        ELSE LET t == trail[i - 1]
             IN IF next[Last(t)] = list THEN t ELSE Append(t, next[Last(t)])
  IN trail
Walk(list) ==
  LET whole == Trail(list)[Cardinality(Pcb)]
  IN IF next[Last(whole)] = list THEN Tail(whole) ELSE <<>>

\* From the head, next leads to exactly the PCBs that were put into the list.
Complete(list) == ToSet(Walk(list)) = {p \in Pcb : where[p] = list}

\* Only a clash loses a process: without one every list is complete at every moment,
\* even half way through an operation of the SSI, when an interrupt handler or the
\* search of sendMessage() may walk it.
NobodyLost == ~clashed => \A list \in ListHead : Complete(list)

\* list_add_tail() puts its argument into the list, list_del() takes it out: between
\* two operations of the SSI every list is complete.
DoneIsDone == stores = <<>> => \A list \in ListHead : Complete(list)

Q == INSTANCE Queues WITH queue <-
       [pcbFree_h |-> Walk("pcbFree_h"), readyQueue |-> Walk("readyQueue"),
        receiveMessageQueue |-> Walk("receiveMessageQueue"),
        pseudoClockQueue |-> Walk("pseudoClockQueue")]
\* Without a clash the lists are queues: every operation, however it is interrupted, takes
\* effect at one moment, and what is inserted comes last (insertProcQ, removeProcQ,
\* outAnyProcQ).
AreQueues ==
  /\ Q!Init
  /\ [][Q!Next \/ clashed']_<<Walk("pcbFree_h"), Walk("readyQueue"),
                              Walk("receiveMessageQueue"), Walk("pseudoClockQueue")>>
==============================================================================
