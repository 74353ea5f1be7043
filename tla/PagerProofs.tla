----------------------------- MODULE PagerProofs -----------------------------
(****************************************************************************)
(* Theorems about Pager, for any number of processes, pages and frames and  *)
(* any choice of where a time slice may end: types, mutual exclusion, the   *)
(* return of frames, the agreement of the TLB, page tables and swap table,  *)
(* and that every step is a step of VirtualMemory.                          *)
(*                                                                          *)
(* All assume flash devices that report no error: after an error the handler*)
(* releases the mutex and goes on as if nothing had happened, so that mutual*)
(* exclusion is lost, and what rests on it.                                 *)
(****************************************************************************)
EXTENDS Pager, QueueLemmas

\* The tuples of variables, expanded in most leaves.
USE DEF nucleus, handler, ending, tables, store, locals

\* The messages of an inbox, and which ones may reach process p while no flash
\* device fails.
Mail(p) == ToSet(msg_inbox[p])
Note(p, op) == [from |-> p, op |-> op]
Letters(p) ==
  {m \in Message :
    /\ p = swap_pcb => m.from \in ASID /\ m.op \in {"get", "release"}
    /\ p = ssi_pcb => \/ m.from \in ASID /\ m.op \in {"support", "doio"}
                      \/ m.from \in Sst /\ m.op = "kill"
    /\ p \in ASID => \/ m.from = swap_pcb /\ m.op = "grant"
                     \/ m.from = ssi_pcb /\ m.op \in {"answer", "ok"}
    /\ p \in Sst => m.from \in ASID /\ sst_pcb[m.from] = p /\ m.op = "terminate"}

UserPc == UserSteps \ {"trapRelease", "trapAsk", "trapGet", "trapTell"}
FlashWait == {"getWrite", "getRead"}

Scheduling ==
  /\ current_process \in Proc \cup {NULL} /\ readyQueue \in Seq(Proc)
  /\ receiving \subseteq Proc /\ pcbFree_h \subseteq Proc
Mailing ==
  /\ msg_inbox \in [Proc -> Seq(Message)]
  /\ \A p \in Proc : Mail(p) \subseteq Letters(p)
Control ==
  /\ pc \in [Proc -> UserSteps \cup MutexSteps \cup SstSteps \cup {"ssi"}]
  /\ \A a \in ASID : pc[a] \in UserPc /\ pc[sst_pcb[a]] \in SstSteps
  /\ pc[swap_pcb] \in MutexSteps /\ pc[ssi_pcb] = "ssi"
  /\ client \in Proc \cup {NULL} /\ (pc[swap_pcb] # "any" => client \in ASID)
Handling ==
  /\ missing \in [ASID -> Page \cup {NULL}]
  /\ \A a \in ASID : pc[a] # "user" => missing[a] \in Page
  /\ frame \in [ASID -> Frame] /\ nextFrame \in Frame
  /\ do_io \in [ASID -> [asid : ASID \cup {NOPROC}, cmd : {"none", "read", "write"},
                         page : Page \cup {NULL}]]
  /\ quitting \subseteq ASID /\ scan \in [ASID -> 0..POOLSIZE]
  /\ \A a \in ASID : pc[sst_pcb[a]] = "clear" => scan[a] < POOLSIZE
Translation ==
  /\ swap_table \in [Frame -> [asid : ASID \cup {NOPROC}, owner : ASID \cup {NULL},
                               page : Page \cup {NULL}]]
  /\ privatePgTbl \in [ASID -> [Page -> Frame \cup {INVALID}]]
  /\ tlb \in [ASID -> [Page -> Frame \cup {INVALID, ABSENT}]]
Devices ==
  device \in [ASID -> [cmd : {"none", "read", "write"}, page : Page \cup {NULL},
                       frame : Frame, who : ASID \cup {NULL}]]
Shape == Scheduling /\ Mailing /\ Control /\ Handling /\ Translation /\ Devices

\* The conversation of a user process with swapMutex(): who is between the grant
\* and the release is the client swapMutex() waits for, and has sent it nothing.
Waited(a) == pc[swap_pcb] = "wait" /\ client = a
Silent(a) == Note(a, "get") \notin Mail(swap_pcb) /\ Note(a, "release") \notin Mail(swap_pcb)
Granted(a) == Note(swap_pcb, "grant") \in Mail(a)
Locking ==
  /\ IsInjective(msg_inbox[swap_pcb])
  /\ \A a \in ASID :
       /\ pc[a] \in Critical \/ Granted(a) => Waited(a) /\ Silent(a)
       /\ Granted(a) => pc[a] = "getMutex"
       /\ Note(a, "get") \in Mail(swap_pcb) => pc[a] = "getMutex"
       /\ pc[swap_pcb] = "give" /\ client = a => pc[a] = "getMutex" /\ Silent(a)
       /\ Note(a, "release") \in Mail(swap_pcb) /\ ~Waited(a) =>
            pc[a] = "getMutex" /\ Note(a, "get") \notin Mail(swap_pcb)

\* The conversation with the SSI and the flash devices: one request at a time,
\* which is in the SSI's inbox, or in a device, or answered.
Asking ==
  /\ IsInjective(msg_inbox[ssi_pcb]) /\ \A a \in ASID : IsInjective(msg_inbox[a])
  /\ \A a \in ASID :
       /\ Note(a, "support") \in Mail(ssi_pcb) =>
            pc[a] = "getSupport" /\ Note(ssi_pcb, "answer") \notin Mail(a)
       /\ Note(ssi_pcb, "answer") \in Mail(a) => pc[a] = "getSupport"
       /\ Note(sst_pcb[a], "kill") \in Mail(ssi_pcb) => pc[sst_pcb[a]] = "dying"
Flashing ==
  \A a \in ASID :
    /\ pc[a] = "getWrite" => do_io[a].cmd = "write"
    /\ pc[a] = "getRead" => do_io[a] = [asid |-> a, cmd |-> "read", page |-> missing[a]]
    /\ Note(a, "doio") \in Mail(ssi_pcb) => pc[a] \in FlashWait
    /\ Note(ssi_pcb, "ok") \in Mail(a) =>
         pc[a] \in FlashWait /\ Note(a, "doio") \notin Mail(ssi_pcb)
    /\ \A d \in ASID : device[d].who = a =>
         /\ pc[a] \in FlashWait /\ Note(a, "doio") \notin Mail(ssi_pcb)
         /\ Note(ssi_pcb, "ok") \notin Mail(a)
         /\ d = do_io[a].asid /\ device[d].cmd = do_io[a].cmd
         /\ device[d].page = do_io[a].page /\ device[d].frame = frame[a]

\* What is written to a flash device was read from one, or stored by a program.
Stored ==
  /\ ram \in [Frame -> Value \cup {NULL}] /\ flash \in [ASID -> [Page -> Value]]
  /\ \A f \in Frame : swap_table[f].asid # NOPROC => ram[f] \in Value
  /\ \A a \in ASID :
       /\ pc[a] \in {"invalidate", "askWrite", "getWrite", "claim"} => ram[frame[a]] \in Value
       /\ Note(ssi_pcb, "ok") \in Mail(a) /\ pc[a] = "getRead" => ram[frame[a]] \in Value
       /\ device[a].cmd = "write" => ram[device[a].frame] \in Value
       /\ device[a].cmd = "read" => device[a].page \in Page

\* The end of a user process that stays in user mode once it asked for it.
Ending ==
  \A a \in ASID :
    /\ Mail(sst_pcb[a]) # {} \/ pc[sst_pcb[a]] # "serve" => a \in quitting
    /\ a \in quitting => pc[a] = "user"
    /\ pc[sst_pcb[a]] = "serve" => scan[a] = 0
    /\ pc[sst_pcb[a]] \in {"scan", "clear"} =>
         \A f \in Frame : f < scan[a] => swap_table[f].asid # a
    /\ pc[sst_pcb[a]] \in {"suicide", "dying"} => \A f \in Frame : swap_table[f].asid # a

\* Nobody asks to terminate.
Computing ==
  /\ quitting = {}
  /\ \A a \in ASID : pc[sst_pcb[a]] = "serve" /\ Mail(sst_pcb[a]) = {}
  /\ \A a \in ASID : Note(sst_pcb[a], "kill") \notin Mail(ssi_pcb)

Entry(a, x) == [asid |-> a, owner |-> a, page |-> x]
Evicting == {"askWrite", "getWrite", "askRead", "getRead", "claim"}
Mapped(f) == \E b \in ASID, y \in Page : privatePgTbl[b][y] = f
Consistent ==
  /\ \A a \in ASID, x \in Page :
       /\ tlb[a][x] \in {ABSENT, privatePgTbl[a][x]}
       /\ privatePgTbl[a][x] \in Frame => swap_table[privatePgTbl[a][x]] = Entry(a, x)
  /\ \A f \in Frame : swap_table[f].asid # NOPROC =>
       /\ swap_table[f].asid \in ASID /\ swap_table[f].page \in Page
       /\ swap_table[f] = Entry(swap_table[f].asid, swap_table[f].page)
       /\ \/ privatePgTbl[swap_table[f].asid][swap_table[f].page] = f
          \/ \E u \in ASID : pc[u] \in Evicting \cup {"map"} /\ frame[u] = f
  /\ \A a \in ASID :
       /\ pc[a] \in Evicting \cup {"map"} => ~Mapped(frame[a])
       /\ pc[a] = "map" => swap_table[frame[a]] = Entry(a, missing[a])
       /\ pc[a] \notin {"user", "release"} => privatePgTbl[a][missing[a]] = INVALID
       /\ pc[a] \in {"invalidate", "askWrite", "getWrite"} => swap_table[frame[a]].asid # NOPROC
       
\* The flash block and the frame while a page moves between them.
Moved ==
  /\ \A d \in ASID : device[d].cmd # "none" => device[d].who # NULL
  /\ \A a \in ASID :
       /\ pc[a] = "getWrite" => do_io[a] = [asid |-> swap_table[frame[a]].asid, cmd |-> "write",
                                           page |-> swap_table[frame[a]].page]
       /\ pc[a] = "getWrite" /\ Note(ssi_pcb, "ok") \in Mail(a) =>
            flash[swap_table[frame[a]].owner][swap_table[frame[a]].page] = ram[frame[a]]
       /\ pc[a] = "getRead" /\ Note(ssi_pcb, "ok") \in Mail(a) =>
            ram[frame[a]] = flash[a][missing[a]]
       /\ pc[a] \in {"claim", "map"} => ram[frame[a]] = flash[a][missing[a]]
------------------------------------------------------------------------------
(* The operations on inboxes and queues.                                    *)

LEMMA ConstantFacts ==
  /\ ASID \subseteq Proc /\ Sst \subseteq Proc /\ swap_pcb \in Proc /\ ssi_pcb \in Proc
  /\ \A a \in ASID : sst_pcb[a] \in Sst /\ sst_pcb[a] \in Proc /\ sst_pcb[a] \notin ASID
  /\ \A p \in Sst : \E a \in ASID : p = sst_pcb[a]
  /\ \A a, b \in ASID : sst_pcb[a] = sst_pcb[b] => a = b
  /\ Sst \cap ASID = {} /\ swap_pcb \notin ASID \cup Sst /\ ssi_pcb \notin ASID \cup Sst
  /\ swap_pcb # ssi_pcb /\ NULL \notin Proc /\ NOPROC \notin ASID /\ NULL \notin ASID
  /\ POOLSIZE \in Nat \ {0} /\ 0 \in Frame /\ INVALID \notin Frame /\ ABSENT \notin Frame
  /\ INVALID # ABSENT /\ Frame \subseteq Nat
<1>1. 0 \in Frame /\ INVALID \notin Frame /\ ABSENT \notin Frame /\ INVALID # ABSENT
      /\ Frame \subseteq Nat
  BY PagerAssumption DEF Frame, INVALID, ABSENT
<1>2. \A a \in ASID : sst_pcb[a] \in Sst
  BY DEF Sst
<1>3. \A p \in Sst : \E a \in ASID : p = sst_pcb[a]
  BY DEF Sst
<1>4. /\ ASID \subseteq Proc /\ Sst \subseteq Proc /\ swap_pcb \in Proc /\ ssi_pcb \in Proc
      /\ NULL \notin Proc
  BY PagerAssumption DEF Proc
<1>5. /\ \A a, b \in ASID : sst_pcb[a] = sst_pcb[b] => a = b
      /\ Sst \cap ASID = {} /\ swap_pcb \notin ASID \cup Sst /\ ssi_pcb \notin ASID \cup Sst
      /\ swap_pcb # ssi_pcb /\ NOPROC \notin ASID /\ POOLSIZE \in Nat \ {0}
  BY PagerAssumption
<1> QED BY <1>1, <1>2, <1>3, <1>4, <1>5

LEMMA DispatchFacts ==
  ASSUME NEW ready \in Seq(Proc), Dispatch(ready)
  PROVE  current_process' \in Proc \cup {NULL} /\ readyQueue' \in Seq(Proc)
<1>1. CASE ready = <<>> /\ current_process' = NULL /\ readyQueue' = <<>>
  BY <1>1
<1>2. CASE ready # <<>> /\ current_process' = Head(ready) /\ readyQueue' = Tail(ready)
  BY <1>2, HeadTailSet
<1> QED BY <1>1, <1>2 DEF Dispatch

\* sendMessage() adds one message to one inbox, or none to a free PCB's.
LEMMA SendFacts ==
  ASSUME Scheduling, NEW inboxes \in [Proc -> Seq(Message)], NEW from, NEW op,
         NEW dest \in Proc, Note(from, op) \in Message,
         Send(inboxes, from, op, dest)
  PROVE  /\ Scheduling' /\ msg_inbox' \in [Proc -> Seq(Message)]
         /\ \A p \in Proc \ {dest} : msg_inbox'[p] = inboxes[p]
         /\ Mail(dest)' \subseteq ToSet(inboxes[dest]) \cup {Note(from, op)}
         /\ ToSet(inboxes[dest]) \subseteq Mail(dest)'
         /\ IsInjective(inboxes[dest]) /\ Note(from, op) \notin ToSet(inboxes[dest])
            => IsInjective(msg_inbox'[dest])
<1> DEFINE new == <<Note(from, op)>> \o inboxes[dest]
<1>1. /\ new \in Seq(Message) /\ ToSet(new) = ToSet(inboxes[dest]) \cup {Note(from, op)}
      /\ IsInjective(inboxes[dest]) /\ Note(from, op) \notin ToSet(inboxes[dest])
         => IsInjective(new)
  BY ConsSet
<1>2. msg_inbox' = IF dest \in pcbFree_h THEN inboxes ELSE [inboxes EXCEPT ![dest] = new]
  BY DEF Send, Note
<1> HIDE DEF new
<1>3. Scheduling'
  <2>1. readyQueue' = readyQueue \/ readyQueue' = Append(readyQueue, dest)
    BY DEF Send
  <2>2. readyQueue' \in Seq(Proc)
    <3>1. readyQueue \in Seq(Proc)
      BY DEF Scheduling
    <3>2. Append(readyQueue, dest) \in Seq(Proc)
      BY <3>1, AppendSet
    <3> QED BY <2>1, <3>1, <3>2
  <2> QED BY <2>2 DEF Scheduling, Send
<1> QED BY <1>1, <1>2, <1>3 DEF Mail

\* receiveMessage() of a message takes one out of one inbox.
LEMMA TakeFacts ==
  ASSUME Scheduling, msg_inbox \in [Proc -> Seq(Message)], NEW p \in Proc, NEW from,
         Take(p, from)
  PROVE  /\ Scheduling' /\ msg_inbox' \in [Proc -> Seq(Message)]
         /\ \A q \in Proc \ {p} : msg_inbox'[q] = msg_inbox[q]
         /\ Taken(p, from) \in Mail(p) /\ (from = NULL \/ Taken(p, from).from = from)
         /\ Mail(p)' \subseteq Mail(p) /\ Mail(p) \subseteq Mail(p)' \cup {Taken(p, from)}
         /\ IsInjective(msg_inbox[p]) => IsInjective(msg_inbox'[p]) /\ Taken(p, from) \notin Mail(p)'
<1> DEFINE s == msg_inbox[p]
           k == Match(p, from)
           I == {i \in 1..Len(s) : from = NULL \/ s[i].from = from}
<1>1. s \in Seq(Message) /\ Len(s) \in Nat
  BY LenProperties
<1>0. I \subseteq Nat
  BY <1>1
<1>2. k > 0 /\ k = IF I # {} THEN Min(I) ELSE 0
  BY DEF Take, Match, SelectInSeq
<1>3. I # {} => Min(I) \in I
  BY <1>0, MinNat
<1>4. k \in 1..Len(s) /\ (from = NULL \/ s[k].from = from)
  BY <1>1, <1>2, <1>3
<1>5. msg_inbox' = [msg_inbox EXCEPT ![p] = RemoveAt(s, k)] /\ Taken(p, from) = s[k]
  BY DEF Take, Taken
<1> HIDE DEF s, k
<1>6. /\ RemoveAt(s, k) \in Seq(Message)
      /\ ToSet(RemoveAt(s, k)) \subseteq ToSet(s)
      /\ ToSet(s) \subseteq ToSet(RemoveAt(s, k)) \cup {s[k]}
      /\ IsInjective(s) => IsInjective(RemoveAt(s, k)) /\ s[k] \notin ToSet(RemoveAt(s, k))
  BY <1>1, <1>4, RemoveAtSeq, RemoveAtSet
<1>7. s[k] \in ToSet(s)
  BY <1>1, <1>4, InSet
<1>8. Scheduling'
  BY DEF Scheduling, Take
<1> QED BY <1>1, <1>4, <1>5, <1>6, <1>7, <1>8 DEF Mail, s

\* Without a message that fits, it leaves the inboxes alone.
LEMMA BlockFacts ==
  ASSUME Scheduling, NEW p \in Proc, NEW from, Block(p, from)
  PROVE  Scheduling' /\ UNCHANGED <<msg_inbox, pc>>
<1>1. current_process' \in Proc \cup {NULL} /\ readyQueue' \in Seq(Proc)
  BY DispatchFacts DEF Block, Scheduling
<1> QED BY <1>1 DEF Block, Scheduling

\* The SSI takes the head of its inbox.
LEMMA ServedFacts ==
  ASSUME msg_inbox \in [Proc -> Seq(Message)], NEW op, Serving(op)
  PROVE  /\ Served \in [Proc -> Seq(Message)]
         /\ \A p \in Proc \ {ssi_pcb} : Served[p] = msg_inbox[p]
         /\ Note(sender, op) \in Mail(ssi_pcb)
         /\ ToSet(Served[ssi_pcb]) \subseteq Mail(ssi_pcb)
         /\ Mail(ssi_pcb) \subseteq ToSet(Served[ssi_pcb]) \cup {Note(sender, op)}
         /\ IsInjective(msg_inbox[ssi_pcb]) => /\ IsInjective(Served[ssi_pcb])
                                               /\ Note(sender, op) \notin ToSet(Served[ssi_pcb])
<1> DEFINE s == msg_inbox[ssi_pcb]
<1>1. s \in Seq(Message) /\ s # <<>> /\ Served = [msg_inbox EXCEPT ![ssi_pcb] = Tail(s)]
  BY ConstantFacts DEF Serving, Served
<1>2. Head(s) = Note(sender, op)
  <2>1. Head(s) \in Message
    BY <1>1, HeadTailSet
  <2>2. Head(s).from = sender /\ Head(s).op = op
    BY DEF Serving, sender
  <2> QED BY <2>1, <2>2 DEF Message, Note
<1> HIDE DEF s
<1>3. /\ Tail(s) \in Seq(Message) /\ ToSet(s) = ToSet(Tail(s)) \cup {Head(s)}
      /\ IsInjective(s) => IsInjective(Tail(s)) /\ Head(s) \notin ToSet(Tail(s))
  BY <1>1, HeadTailSet
<1> QED BY <1>1, <1>2, <1>3, ConstantFacts DEF s, Mail
------------------------------------------------------------------------------
(* Every variable keeps its type, and every message its reader.             *)

LEMMA LettersAreMessages == \A p : Letters(p) \subseteq Message
BY DEF Letters

LEMMA SendShape ==
  ASSUME Shape, NEW inboxes \in [Proc -> Seq(Message)],
         \A p \in Proc : ToSet(inboxes[p]) \subseteq Mail(p),
         NEW from, NEW op, NEW dest \in Proc, Note(from, op) \in Letters(dest),
         Send(inboxes, from, op, dest)
  PROVE  Scheduling' /\ Mailing'
<1>1. Scheduling /\ \A p \in Proc : Mail(p) \subseteq Letters(p)
  BY DEF Shape, Mailing
<1>2. Note(from, op) \in Message
  BY LettersAreMessages
<1>3. /\ Scheduling' /\ msg_inbox' \in [Proc -> Seq(Message)]
      /\ \A p \in Proc \ {dest} : msg_inbox'[p] = inboxes[p]
      /\ Mail(dest)' \subseteq ToSet(inboxes[dest]) \cup {Note(from, op)}
  BY <1>1, <1>2, SendFacts
<1>4. \A p \in Proc \ {dest} : Mail(p)' = ToSet(inboxes[p])
  BY <1>3 DEF Mail
<1>5. \A p \in Proc : Mail(p)' \subseteq Letters(p)
  BY <1>1, <1>3, <1>4
<1>6. \A p \in Proc : Letters(p)' = Letters(p)
  BY DEF Letters, Message
<1> QED BY <1>3, <1>5, <1>6 DEF Mailing

LEMMA TakeShape ==
  ASSUME Shape, NEW p \in Proc, NEW from, Take(p, from)
  PROVE  Scheduling' /\ Mailing' /\ Taken(p, from) \in Letters(p)
<1>1. Scheduling /\ msg_inbox \in [Proc -> Seq(Message)] /\ \A q \in Proc : Mail(q) \subseteq Letters(q)
  BY DEF Shape, Mailing
<1>2. /\ Scheduling' /\ msg_inbox' \in [Proc -> Seq(Message)]
      /\ \A q \in Proc \ {p} : msg_inbox'[q] = msg_inbox[q]
      /\ Taken(p, from) \in Mail(p) /\ Mail(p)' \subseteq Mail(p)
  BY <1>1, TakeFacts
<1>3. \A q \in Proc : Mail(q)' \subseteq Letters(q)
  BY <1>1, <1>2 DEF Mail
<1>4. \A q \in Proc : Letters(q)' = Letters(q)
  BY DEF Letters, Message
<1> QED BY <1>1, <1>2, <1>3, <1>4 DEF Mailing

LEMMA SameMail ==
  ASSUME Mailing, UNCHANGED msg_inbox
  PROVE  Mailing' /\ \A p \in Proc : Mail(p)' = Mail(p)
<1>1. \A p \in Proc : Mail(p)' = Mail(p) /\ Letters(p)' = Letters(p)
  BY DEF Mail, Letters, Message
<1> QED BY <1>1 DEF Mailing

LEMMA BlockShape ==
  ASSUME Shape, NEW p \in Proc, NEW from, Block(p, from)
  PROVE  Scheduling' /\ Mailing'
<1>1. Scheduling' /\ UNCHANGED msg_inbox
  BY BlockFacts DEF Shape
<1> QED BY <1>1, SameMail DEF Shape

\* A process goes on with its own program.
LEMMA GotoShape ==
  ASSUME Shape, NEW p \in Proc, NEW l, Goto(p, l)
  PROVE  /\ p \in ASID /\ l \in UserPc /\ UNCHANGED client => Control'
         /\ p \in Sst /\ l \in SstSteps /\ UNCHANGED client => Control'
         /\ p = swap_pcb /\ l \in MutexSteps /\ client' \in Proc \cup {NULL}
            /\ (l # "any" => client' \in ASID) => Control'
         /\ \A q \in Proc \ {p} : pc'[q] = pc[q]
         /\ pc'[p] = l
<1>1. /\ pc \in [Proc -> UserSteps \cup MutexSteps \cup SstSteps \cup {"ssi"}]
      /\ \A a \in ASID : pc[a] \in UserPc /\ pc[sst_pcb[a]] \in SstSteps
      /\ pc[swap_pcb] \in MutexSteps /\ pc[ssi_pcb] = "ssi"
      /\ client \in Proc \cup {NULL} /\ (pc[swap_pcb] # "any" => client \in ASID)
  BY DEF Shape, Control
<1>2. pc' = [pc EXCEPT ![p] = l]
  BY DEF Goto
<1>3. pc'[p] = l /\ \A q \in Proc \ {p} : pc'[q] = pc[q]
  BY <1>1, <1>2
<1>4. UserPc \subseteq UserSteps
  BY DEF UserPc
<1>5. ASSUME l \in UserSteps \cup MutexSteps \cup SstSteps
      PROVE  pc' \in [Proc -> UserSteps \cup MutexSteps \cup SstSteps \cup {"ssi"}]
  BY <1>1, <1>2, <1>5
<1>6. ASSUME p \in ASID, l \in UserPc, UNCHANGED client PROVE Control'
  BY <1>1, <1>3, <1>4, <1>5, <1>6, ConstantFacts DEF Control
<1>7. ASSUME p \in Sst, l \in SstSteps, UNCHANGED client PROVE Control'
  BY <1>1, <1>3, <1>5, <1>7, ConstantFacts DEF Control
<1>8. ASSUME p = swap_pcb, l \in MutexSteps, client' \in Proc \cup {NULL},
             l # "any" => client' \in ASID
      PROVE  Control'
  BY <1>1, <1>3, <1>5, <1>8, ConstantFacts DEF Control
<1> QED BY <1>3, <1>6, <1>7, <1>8

\* What depends on the steps of processes, when nothing else of it changes.
LEMMA HandlingKept ==
  ASSUME Handling, UNCHANGED <<missing, frame, nextFrame, do_io, quitting, scan>>,
         \A a \in ASID : pc'[a] # "user" => pc[a] # "user",
         \A a \in ASID : pc'[sst_pcb[a]] = "clear" => pc[sst_pcb[a]] = "clear"
  PROVE  Handling'
BY DEF Handling

LEMMA UserTell ==
  ASSUME Shape, NEW a \in ASID, NEW l, l # "user", NEW op, NEW dest \in Proc, NEW l2 \in UserPc,
         Note(a, op) \in Letters(dest), Tell(a, l, op, dest, l2)
  PROVE  Shape'
<1>1. Scheduling' /\ Mailing'
  <2>1. Send(msg_inbox, a, op, dest) /\ msg_inbox \in [Proc -> Seq(Message)]
        /\ \A p \in Proc : ToSet(msg_inbox[p]) \subseteq Mail(p)
    BY DEF Tell, Shape, Mailing, Mail
  <2> QED BY <2>1, SendShape
<1>2. Control' /\ pc[a] = l /\ \A q \in Proc \ {a} : pc'[q] = pc[q]
  BY GotoShape, ConstantFacts DEF Tell, At
<1>3. Handling'
  BY <1>2, HandlingKept, ConstantFacts DEF Tell, Shape
<1> QED BY <1>1, <1>2, <1>3 DEF Tell, Shape, Translation, Devices

LEMMA UserReceive ==
  ASSUME Shape, NEW a \in ASID, NEW l, NEW from, NEW l2 \in UserPc, l # "user" \/ l2 = "user",
         Receive(a, l, from, l2)
  PROVE  Shape'
<1>1. CASE Block(a, from)
  <2>1. Scheduling' /\ Mailing' /\ UNCHANGED pc
    BY <1>1, BlockShape, ConstantFacts DEF Block
  <2> QED BY <2>1 DEF Receive, Shape, Control, Handling, Translation, Devices
<1>2. CASE Take(a, from) /\ Goto(a, l2)
  <2>1. Scheduling' /\ Mailing'
    BY <1>2, TakeShape, ConstantFacts
  <2>2. Control' /\ pc[a] = l /\ pc'[a] = l2 /\ \A q \in Proc \ {a} : pc'[q] = pc[q]
    BY <1>2, GotoShape, ConstantFacts DEF Receive, At
  <2>3. Handling'
    BY <2>2, HandlingKept, ConstantFacts DEF Receive, Shape
  <2> QED BY <2>1, <2>2, <2>3 DEF Receive, Shape, Translation, Devices
<1> QED BY <1>1, <1>2 DEF Receive

LEMMA UserInternal ==
  ASSUME Shape, NEW a \in ASID, NEW l, l # "user", NEW l2 \in UserPc, Internal(a, l, l2)
  PROVE  /\ Scheduling' /\ Mailing' /\ Control' /\ Devices'
         /\ pc[a] = l /\ pc'[a] = l2 /\ \A q \in Proc \ {a} : pc'[q] = pc[q]
         /\ frame' \in [ASID -> Frame] /\ nextFrame' \in Frame => Handling'
<1>1. Scheduling' /\ Mailing' /\ Devices'
  BY SameMail DEF Internal, Shape, Scheduling, Devices
<1>2. Control' /\ pc[a] = l /\ pc'[a] = l2 /\ \A q \in Proc \ {a} : pc'[q] = pc[q]
  BY GotoShape, ConstantFacts DEF Internal, At
<1>3. ASSUME frame' \in [ASID -> Frame], nextFrame' \in Frame PROVE Handling'
  <2>1. \A b \in ASID : pc'[b] # "user" => pc[b] # "user"
    BY <1>2, ConstantFacts
  <2>2. \A b \in ASID : pc'[sst_pcb[b]] = pc[sst_pcb[b]]
    BY <1>2, ConstantFacts
  <2> QED BY <1>3, <2>1, <2>2 DEF Internal, Shape, Handling
<1> QED BY <1>1, <1>2, <1>3
LEMMA ShapeInit == Init => Shape
<1> SUFFICES ASSUME Init PROVE Shape
  OBVIOUS
<1>1. Scheduling
  <2>1. uProcs \in Seq(Proc)
    <3>1. \A i \in 1..Len(uProcs) : uProcs[i] \in Proc
      BY PagerAssumption, ConstantFacts, InSet
    <3> QED BY <3>1, PagerAssumption, LenProperties, SeqDef
  <2>2. Head(uProcs) \in Proc /\ Tail(uProcs) \in Seq(Proc)
    BY <2>1, PagerAssumption, HeadTailSet
  <2> QED BY <2>2, ConstantFacts DEF Init, Scheduling
<1>2. Mailing
  <2>1. \A p \in Proc : msg_inbox[p] = <<>>
    BY DEF Init
  <2>2. ToSet(<<>>) = {}
    BY DEF ToSet
  <2>3. <<>> \in Seq(Message)
    OBVIOUS
  <2> QED BY <2>1, <2>2, <2>3 DEF Init, Mailing, Mail
<1>3. Control
  BY ConstantFacts DEF Init, Control, UserPc, UserSteps, MutexSteps, SstSteps, Critical
<1>4. Handling
  <2>1. /\ missing \in [ASID -> Page \cup {NULL}] /\ frame \in [ASID -> Frame] /\ nextFrame \in Frame
        /\ quitting \subseteq ASID /\ scan \in [ASID -> 0..POOLSIZE]
    BY ConstantFacts DEF Init
  <2>2. do_io \in [ASID -> [asid : ASID \cup {NOPROC}, cmd : {"none", "read", "write"},
                            page : Page \cup {NULL}]]
    BY DEF Init, NoCommand
  <2>3. \A a \in ASID : pc[a] = "user" /\ pc[sst_pcb[a]] = "serve"
    BY ConstantFacts DEF Init
  <2> QED BY <2>1, <2>2, <2>3 DEF Handling
<1>5. Translation
  BY ConstantFacts DEF Init, Translation
<1>6. Devices
  BY ConstantFacts DEF Init, Devices, Idle
<1> QED BY <1>1, <1>2, <1>3, <1>4, <1>5, <1>6 DEF Shape

LEMMA ShapePreempt ==
  ASSUME Shape, NEW p \in Proc, Preempt(p)
  PROVE  Shape'
<1>1. Append(readyQueue, p) \in Seq(Proc)
  BY AppendSet DEF Shape, Scheduling
<1>2. Scheduling'
  BY <1>1, DispatchFacts DEF Preempt, Shape, Scheduling
<1> QED BY <1>2, SameMail DEF Preempt, Shape, Control, Handling, Translation, Devices

LEMMA ShapeUser ==
  ASSUME Shape, NEW a \in ASID, User(a)
  PROVE  Shape'
<1>1. CASE Write(a)
  <2> QED BY <1>1, SameMail
          DEF Write, Shape, Scheduling, Control, Handling, Translation, Devices
<1>2. CASE Refill(a)
  <2>1. tlb' \in [ASID -> [Page -> Frame \cup {INVALID, ABSENT}]]
    <3>1. PICK x \in touched[a], b \in ASID, y \in Page :
            tlb' = [[tlb EXCEPT ![b][y] = ABSENT] EXCEPT ![a][x] = privatePgTbl[a][x]]
      BY <1>2 DEF Refill
    <3>2. x \in Page
      BY PagerAssumption
    <3>3. /\ tlb \in [ASID -> [Page -> Frame \cup {INVALID, ABSENT}]]
          /\ privatePgTbl[a][x] \in Frame \cup {INVALID}
      BY <3>2 DEF Shape, Translation
    <3>4. [tlb EXCEPT ![b][y] = ABSENT] \in [ASID -> [Page -> Frame \cup {INVALID, ABSENT}]]
      BY <3>3
    <3> QED BY <3>1, <3>3, <3>4
  <2> QED BY <1>2, <2>1, SameMail
          DEF Refill, Shape, Scheduling, Control, Handling, Translation, Devices
<1>3. CASE Fault(a)
  <2>1. PICK x \in touched[a] : missing' = [missing EXCEPT ![a] = x]
    BY <1>3 DEF Fault
  <2>2. x \in Page
    BY PagerAssumption
  <2>3. "askSupport" \in UserPc
    BY DEF UserPc, UserSteps
  <2>4. Control' /\ \A q \in Proc \ {a} : pc'[q] = pc[q]
    BY <1>3, <2>3, GotoShape, ConstantFacts DEF Fault
  <2>5. Handling'
    <3>1. /\ missing' \in [ASID -> Page \cup {NULL}] /\ missing'[a] = x
          /\ \A b \in ASID \ {a} : missing'[b] = missing[b]
      BY <2>1, <2>2 DEF Shape, Handling
    <3>2. /\ \A b \in ASID \ {a} : pc'[b] = pc[b]
          /\ \A b \in ASID : pc'[sst_pcb[b]] = pc[sst_pcb[b]]
      BY <2>4, ConstantFacts
    <3>3. UNCHANGED <<frame, nextFrame, do_io, quitting, scan>>
      BY <1>3 DEF Fault
    <3> QED BY <2>2, <3>1, <3>2, <3>3 DEF Shape, Handling
  <2> QED BY <1>3, <2>4, <2>5, SameMail DEF Fault, Shape, Scheduling, Translation, Devices
<1>4. CASE Quit(a)
  <2>1. Note(a, "terminate") \in Letters(sst_pcb[a]) /\ sst_pcb[a] \in Proc
    BY ConstantFacts DEF Note, Letters, Message
  <2>2. Scheduling' /\ Mailing'
    <3>1. /\ Send(msg_inbox, a, "terminate", sst_pcb[a]) /\ msg_inbox \in [Proc -> Seq(Message)]
          /\ \A p \in Proc : ToSet(msg_inbox[p]) \subseteq Mail(p)
      BY <1>4 DEF Quit, Shape, Mailing, Mail
    <3> QED BY <2>1, <3>1, SendShape
  <2> QED BY <1>4, <2>2 DEF Quit, Shape, Control, Handling, Translation, Devices
<1>5. CASE AwaitEnd(a)
  <2>1. "user" \in UserPc
    BY DEF UserPc, UserSteps
  <2> QED BY <1>5, <2>1, UserReceive DEF AwaitEnd
<1> QED BY <1>1, <1>2, <1>3, <1>4, <1>5 DEF User

LEMMA UserSteppers ==
  {"user", "askSupport", "getSupport", "askMutex", "getMutex", "select", "check", "invalidate",
   "askWrite", "getWrite", "askRead", "getRead", "claim", "map", "release"} = UserPc
BY DEF UserPc, UserSteps, Critical

LEMMA UserLetters ==
  ASSUME NEW a \in ASID
  PROVE  /\ Note(a, "support") \in Letters(ssi_pcb) /\ Note(a, "doio") \in Letters(ssi_pcb)
         /\ Note(a, "get") \in Letters(swap_pcb) /\ Note(a, "release") \in Letters(swap_pcb)
         /\ Note(ssi_pcb, "answer") \in Letters(a) /\ Note(ssi_pcb, "ok") \in Letters(a)
         /\ Note(swap_pcb, "grant") \in Letters(a)
         /\ Note(sst_pcb[a], "kill") \in Letters(ssi_pcb)
BY ConstantFacts DEF Note, Letters, Message

LEMMA ShapeFlashDev ==
  ASSUME Shape, NEW a \in ASID, NEW l, l # "user", NEW cmd \in {"read", "write"},
         NEW page \in Page \cup {NULL}, NEW asid \in ASID \cup {NOPROC}, NEW l2 \in UserPc,
         FlashDev(a, l, cmd, page, asid, l2)
  PROVE  Shape'
<1>1. Scheduling' /\ Mailing'
  <2>1. /\ Send(msg_inbox, a, "doio", ssi_pcb) /\ msg_inbox \in [Proc -> Seq(Message)]
        /\ \A p \in Proc : ToSet(msg_inbox[p]) \subseteq Mail(p)
    BY DEF FlashDev, Shape, Mailing, Mail
  <2> QED BY <2>1, SendShape, UserLetters, ConstantFacts
<1>2. Control' /\ pc[a] = l /\ \A q \in Proc \ {a} : pc'[q] = pc[q]
  BY GotoShape, ConstantFacts DEF FlashDev, At
<1>3. do_io' \in [ASID -> [asid : ASID \cup {NOPROC}, cmd : {"none", "read", "write"},
                           page : Page \cup {NULL}]]
  BY DEF FlashDev, Shape, Handling
<1>4. Handling'
  <2>1. /\ \A b \in ASID : pc'[b] # "user" => pc[b] # "user"
        /\ \A b \in ASID : pc'[sst_pcb[b]] = pc[sst_pcb[b]]
    BY <1>2, ConstantFacts
  <2> QED BY <1>3, <2>1 DEF FlashDev, Shape, Handling
<1> QED BY <1>1, <1>2, <1>4 DEF FlashDev, Shape, Translation, Devices

LEMMA SelectFrameFacts ==
  ASSUME Shape, NEW a \in ASID, SelectFrame(a)
  PROVE  /\ frame' \in [ASID -> Frame] /\ nextFrame' \in Frame
         /\ \A b \in ASID \ {a} : frame'[b] = frame[b]
<1>1. frame \in [ASID -> Frame] /\ nextFrame \in Frame
  BY DEF Shape, Handling
<1>2. CASE /\ Unoccupied # {} /\ frame' = [frame EXCEPT ![a] = Min(Unoccupied)]
           /\ UNCHANGED nextFrame
  <2>1. Unoccupied \subseteq Frame /\ Unoccupied \subseteq Nat
    BY ConstantFacts DEF Unoccupied
  <2>2. Min(Unoccupied) \in Frame
    BY <1>2, <2>1, MinNat
  <2> QED BY <1>1, <1>2, <2>2
<1>3. CASE frame' = [frame EXCEPT ![a] = nextFrame] /\ nextFrame' = (nextFrame + 1) % POOLSIZE
  <2>1. (nextFrame + 1) % POOLSIZE \in Frame
    BY <1>1, ConstantFacts DEF Frame
  <2> QED BY <1>1, <1>3, <2>1
<1> QED BY <1>2, <1>3 DEF SelectFrame

LEMMA ShapeHandler ==
  ASSUME Shape, NEW a \in ASID, Handler(a)
  PROVE  Shape'
<1> USE UserSteppers, UserLetters, ConstantFacts
<1>1. CASE AskSupport(a)
  BY <1>1, UserTell DEF AskSupport
<1>2. CASE GetSupport(a)
  BY <1>2, UserReceive DEF GetSupport
<1>3. CASE AskMutex(a)
  BY <1>3, UserTell DEF AskMutex
<1>4. CASE GetMutex(a)
  BY <1>4, UserReceive DEF GetMutex
<1>5. CASE SelectFrame(a)
  <2>1. frame' \in [ASID -> Frame] /\ nextFrame' \in Frame
    BY <1>5, SelectFrameFacts
  <2>2. Scheduling' /\ Mailing' /\ Control' /\ Devices' /\ Handling'
    BY <1>5, <2>1, UserInternal DEF SelectFrame
  <2> QED BY <1>5, <2>2 DEF SelectFrame, Shape, Translation
<1>6. CASE CheckFrame(a)
  <2> DEFINE l2 == IF frame[a] \in Unoccupied THEN "askRead" ELSE "invalidate"
  <2>1. l2 \in UserPc /\ Internal(a, "check", l2) /\ UNCHANGED <<frame, tables>>
    BY <1>6 DEF CheckFrame
  <2> HIDE DEF l2
  <2>2. Scheduling' /\ Mailing' /\ Control' /\ Devices' /\ Handling'
    BY <2>1, UserInternal DEF Shape, Handling
  <2> QED BY <2>1, <2>2 DEF Shape, Translation
<1>7. CASE Invalidate(a)
  <2>1. /\ UNCHANGED <<frame, nextFrame, swap_table>>
        /\ frame' \in [ASID -> Frame] /\ nextFrame' \in Frame
    BY <1>7 DEF Invalidate, Shape, Handling
  <2>2. Scheduling' /\ Mailing' /\ Control' /\ Devices' /\ Handling'
    BY <1>7, <2>1, UserInternal DEF Invalidate
  <2>3. privatePgTbl' \in [ASID -> [Page -> Frame \cup {INVALID}]]
    BY <1>7 DEF Invalidate, Shape, Translation
  <2>4. tlb' \in [ASID -> [Page -> Frame \cup {INVALID, ABSENT}]]
    BY <1>7 DEF Invalidate, Shape, Translation
  <2> QED BY <2>1, <2>2, <2>3, <2>4 DEF Shape, Translation
<1>8. CASE AskWrite(a)
  <2>1. swap_table[frame[a]].page \in Page \cup {NULL} /\ swap_table[frame[a]].asid \in ASID \cup {NOPROC}
    BY DEF Shape, Handling, Translation
  <2> QED BY <1>8, <2>1, ShapeFlashDev DEF AskWrite
<1>9. CASE AskRead(a)
  <2>1. missing[a] \in Page \cup {NULL}
    BY DEF Shape, Handling
  <2> QED BY <1>9, <2>1, ShapeFlashDev DEF AskRead
<1>10. CASE FlashDone(a)
  <2> DEFINE l == pc[a]
  <2>1. l # "user"
    BY <1>10 DEF FlashDone, At
  <2>2. CASE Block(a, ssi_pcb)
    <3>1. Receive(a, l, ssi_pcb, "claim")
      BY <1>10, <2>2 DEF FlashDone, At, Receive
    <3> QED BY <2>1, <3>1, UserReceive
  <2>3. CASE /\ Take(a, ssi_pcb)
             /\ Goto(a, IF Taken(a, ssi_pcb).op = "error" THEN "trapRelease" ELSE AfterFlash(a))
    <3>1. Taken(a, ssi_pcb) \in Letters(a)
      BY <2>3, TakeShape
    <3>2. Taken(a, ssi_pcb).op # "error"
      BY <3>1 DEF Letters
    <3>3. AfterFlash(a) \in UserPc
      BY DEF AfterFlash
    <3>4. Receive(a, l, ssi_pcb, AfterFlash(a))
      BY <1>10, <2>3, <3>2 DEF FlashDone, At, Receive
    <3> QED BY <2>1, <3>3, <3>4, UserReceive
  <2> QED BY <1>10, <2>2, <2>3 DEF FlashDone
<1>11. CASE TrapRelease(a) \/ TrapAsk(a) \/ TrapGet(a) \/ TrapTell(a)
  <2>1. pc[a] \in UserPc
    BY DEF Shape, Control
  <2> QED BY <1>11, <2>1 DEF TrapRelease, TrapAsk, TrapGet, TrapTell, Tell, Receive, At
<1>12. CASE Claim(a)
  <2>1. /\ UNCHANGED <<frame, nextFrame, privatePgTbl, tlb>>
        /\ frame' \in [ASID -> Frame] /\ nextFrame' \in Frame
    BY <1>12 DEF Claim, Shape, Handling
  <2>2. Scheduling' /\ Mailing' /\ Control' /\ Devices' /\ Handling'
    BY <1>12, <2>1, UserInternal DEF Claim
  <2>3. swap_table' \in [Frame -> [asid : ASID \cup {NOPROC}, owner : ASID \cup {NULL},
                                   page : Page \cup {NULL}]]
    <3>1. missing[a] \in Page \cup {NULL}
      BY DEF Shape, Handling
    <3> QED BY <1>12, <3>1 DEF Claim, Shape, Translation
  <2> QED BY <2>1, <2>2, <2>3 DEF Shape, Translation
<1>13. CASE Map(a)
  <2>1. /\ UNCHANGED <<frame, nextFrame, swap_table>> /\ frame[a] \in Frame
        /\ frame' \in [ASID -> Frame] /\ nextFrame' \in Frame
    BY <1>13 DEF Map, Shape, Handling
  <2>2. Scheduling' /\ Mailing' /\ Control' /\ Devices' /\ Handling'
    BY <1>13, <2>1, UserInternal DEF Map
  <2>3. privatePgTbl' \in [ASID -> [Page -> Frame \cup {INVALID}]]
    BY <1>13, <2>1 DEF Map, Shape, Translation
  <2>4. tlb' \in [ASID -> [Page -> Frame \cup {INVALID, ABSENT}]]
    BY <1>13, <2>1 DEF Map, Shape, Translation
  <2> QED BY <2>1, <2>2, <2>3, <2>4 DEF Shape, Translation
<1>14. CASE Release(a)
  BY <1>14, UserTell DEF Release
<1> QED BY <1>1, <1>2, <1>3, <1>4, <1>5, <1>6, <1>7, <1>8, <1>9, <1>10, <1>11, <1>12, <1>13,
           <1>14 DEF Handler
LEMMA ShapeMutex ==
  ASSUME Shape, SwapMutex
  PROVE  Shape'
<1> USE ConstantFacts
<1>1. CASE MutexAny
  <2>1. CASE Block(swap_pcb, NULL) /\ UNCHANGED client
    <3>1. Scheduling' /\ Mailing' /\ UNCHANGED pc
      BY <2>1, BlockShape DEF Block
    <3> QED BY <1>1, <2>1, <3>1 DEF MutexAny, Shape, Control, Handling, Translation, Devices
  <2>2. CASE /\ Take(swap_pcb, NULL)
             /\ client' = Taken(swap_pcb, NULL).from
             /\ Goto(swap_pcb, IF Taken(swap_pcb, NULL).op = "release" THEN "any" ELSE "give")
    <3>1. Scheduling' /\ Mailing' /\ Taken(swap_pcb, NULL) \in Letters(swap_pcb)
      BY <2>2, TakeShape
    <3>2. client' \in ASID
      BY <2>2, <3>1 DEF Letters
    <3>3. Control' /\ \A q \in Proc \ {swap_pcb} : pc'[q] = pc[q]
      BY <2>2, <3>2, GotoShape DEF MutexSteps
    <3>4. Handling'
      BY <1>1, <3>3, HandlingKept DEF MutexAny, Shape
    <3> QED BY <1>1, <3>1, <3>3, <3>4 DEF MutexAny, Shape, Translation, Devices
  <2> QED BY <1>1, <2>1, <2>2 DEF MutexAny
<1>2. CASE MutexGive
  <2>1. client \in ASID
    BY <1>2 DEF MutexGive, Tell, At, Shape, Control
  <2>2. Scheduling' /\ Mailing'
    <3>1. /\ Send(msg_inbox, swap_pcb, "grant", client) /\ msg_inbox \in [Proc -> Seq(Message)]
          /\ \A p \in Proc : ToSet(msg_inbox[p]) \subseteq Mail(p)
      BY <1>2 DEF MutexGive, Tell, Shape, Mailing, Mail
    <3> QED BY <2>1, <3>1, SendShape, UserLetters
  <2>3. Control' /\ \A q \in Proc \ {swap_pcb} : pc'[q] = pc[q]
    BY <1>2, <2>1, GotoShape DEF MutexGive, Tell, MutexSteps
  <2>4. Handling'
    BY <1>2, <2>3, HandlingKept DEF MutexGive, Tell, Shape
  <2> QED BY <1>2, <2>2, <2>3, <2>4 DEF MutexGive, Tell, Shape, Translation, Devices
<1>3. CASE MutexWait
  <2>1. CASE Block(swap_pcb, client)
    <3>1. Scheduling' /\ Mailing' /\ UNCHANGED pc
      BY <2>1, BlockShape DEF Block
    <3> QED BY <1>3, <3>1
            DEF MutexWait, Receive, Shape, Control, Handling, Translation, Devices
  <2>2. CASE Take(swap_pcb, client) /\ Goto(swap_pcb, "any")
    <3>1. Scheduling' /\ Mailing'
      BY <2>2, TakeShape
    <3>2. client' \in Proc \cup {NULL}
      BY <1>3 DEF MutexWait, Receive, Shape, Control
    <3>3. Control' /\ \A q \in Proc \ {swap_pcb} : pc'[q] = pc[q]
      BY <2>2, <3>2, GotoShape DEF MutexSteps
    <3>4. Handling'
      BY <1>3, <3>3, HandlingKept DEF MutexWait, Receive, Shape
    <3> QED BY <1>3, <3>1, <3>3, <3>4 DEF MutexWait, Receive, Shape, Translation, Devices
  <2> QED BY <1>3, <2>1, <2>2 DEF MutexWait, Receive
<1> QED BY <1>1, <1>2, <1>3 DEF SwapMutex

LEMMA SstReceive ==
  ASSUME Shape, NEW a \in ASID, NEW l, NEW from, NEW l2 \in SstSteps \ {"clear"},
         Receive(sst_pcb[a], l, from, l2)
  PROVE  Shape'
<1> USE ConstantFacts
<1>1. CASE Block(sst_pcb[a], from)
  <2>1. Scheduling' /\ Mailing' /\ UNCHANGED pc
    BY <1>1, BlockShape DEF Block
  <2> QED BY <2>1 DEF Receive, Shape, Control, Handling, Translation, Devices
<1>2. CASE Take(sst_pcb[a], from) /\ Goto(sst_pcb[a], l2)
  <2>1. Scheduling' /\ Mailing'
    BY <1>2, TakeShape
  <2>2. /\ Control' /\ pc'[sst_pcb[a]] = l2
        /\ \A q \in Proc \ {sst_pcb[a]} : pc'[q] = pc[q]
    BY <1>2, GotoShape DEF Receive
  <2>3. Handling'
    BY <2>2, HandlingKept DEF Receive, Shape
  <2> QED BY <2>1, <2>2, <2>3 DEF Receive, Shape, Translation, Devices
<1> QED BY <1>1, <1>2 DEF Receive

LEMMA ScanShape ==
  ASSUME Shape, NEW a \in ASID, Scan(a)
  PROVE  Shape'
<1> USE ConstantFacts
<1>1. scan \in [ASID -> 0..POOLSIZE] /\ scan[a] \in 0..POOLSIZE
  BY DEF Shape, Handling
<1>2. Scheduling' /\ Mailing' /\ Translation' /\ Devices'
  BY SameMail DEF Scan, Shape, Scheduling, Translation, Devices
<1>3. CASE Goto(sst_pcb[a], "suicide") /\ UNCHANGED scan
  <2>1. /\ Control' /\ pc'[sst_pcb[a]] = "suicide"
        /\ \A q \in Proc \ {sst_pcb[a]} : pc'[q] = pc[q]
    BY <1>3, GotoShape DEF Scan, SstSteps
  <2>2. Handling'
    BY <1>3, <2>1, HandlingKept DEF Scan, Shape
  <2> QED BY <1>2, <2>1, <2>2 DEF Shape
<1>4. CASE scan[a] < POOLSIZE /\ Goto(sst_pcb[a], "clear") /\ UNCHANGED scan
  <2>1. Control' /\ \A q \in Proc \ {sst_pcb[a]} : pc'[q] = pc[q]
    BY <1>4, GotoShape DEF Scan, SstSteps
  <2>2. \A b \in ASID : pc'[sst_pcb[b]] = "clear" => scan[b] < POOLSIZE
    <3> SUFFICES ASSUME NEW b \in ASID, pc'[sst_pcb[b]] = "clear" PROVE scan[b] < POOLSIZE
      OBVIOUS
    <3>1. CASE b = a
      BY <1>4, <3>1
    <3>2. CASE b # a
      <4>1. pc'[sst_pcb[b]] = pc[sst_pcb[b]]
        BY <2>1, <3>2
      <4> QED BY <4>1 DEF Shape, Handling
    <3> QED BY <3>1, <3>2
  <2>3. \A b \in ASID : pc'[b] = pc[b]
    BY <2>1
  <2>4. Handling'
    BY <1>4, <2>2, <2>3 DEF Scan, Shape, Handling
  <2> QED BY <1>2, <2>1, <2>4 DEF Shape
<1>5. CASE scan[a] < POOLSIZE /\ At(sst_pcb[a], "scan") /\ scan' = [scan EXCEPT ![a] = @ + 1]
           /\ UNCHANGED pc
  <2>1. scan[a] + 1 \in 0..POOLSIZE
    BY <1>1, <1>5
  <2>2. scan' \in [ASID -> 0..POOLSIZE] /\ \A b \in ASID \ {a} : scan'[b] = scan[b]
    BY <1>1, <1>5, <2>1
  <2>3. \A b \in ASID : pc'[sst_pcb[b]] = "clear" => b # a
    BY <1>5 DEF At
  <2>4. Handling'
    BY <1>5, <2>2, <2>3 DEF Scan, Shape, Handling
  <2> QED BY <1>2, <1>5, <2>4 DEF Scan, Shape, Control
<1> QED BY <1>3, <1>4, <1>5 DEF Scan

LEMMA ClearShape ==
  ASSUME Shape, NEW a \in ASID, Clear(a)
  PROVE  Shape'
<1> USE ConstantFacts
<1>1. /\ scan \in [ASID -> 0..POOLSIZE] /\ scan[a] \in 0..POOLSIZE /\ scan[a] < POOLSIZE
  BY DEF Clear, At, Shape, Handling
<1>2. Scheduling' /\ Mailing' /\ Devices'
  BY SameMail DEF Clear, Shape, Scheduling, Devices
<1>3. Translation'
  <2>1. swap_table' \in [Frame -> [asid : ASID \cup {NOPROC}, owner : ASID \cup {NULL},
                                   page : Page \cup {NULL}]]
    <3> DEFINE e == [swap_table[scan[a]] EXCEPT !.asid = NOPROC]
    <3>1. /\ swap_table \in [Frame -> [asid : ASID \cup {NOPROC}, owner : ASID \cup {NULL},
                                       page : Page \cup {NULL}]]
          /\ scan[a] \in Frame
      BY <1>1 DEF Shape, Translation, Frame
    <3>2. e \in [asid : ASID \cup {NOPROC}, owner : ASID \cup {NULL}, page : Page \cup {NULL}]
      BY <3>1
    <3>3. swap_table' = [swap_table EXCEPT ![scan[a]] = e]
      BY DEF Clear
    <3> HIDE DEF e
    <3> QED BY <3>1, <3>2, <3>3
  <2> QED BY <2>1 DEF Clear, Shape, Translation
<1>4. /\ Control' /\ pc'[sst_pcb[a]] = "scan"
      /\ \A q \in Proc \ {sst_pcb[a]} : pc'[q] = pc[q]
  BY GotoShape DEF Clear, SstSteps
<1>5. Handling'
  <2>1. scan[a] + 1 \in 0..POOLSIZE
    BY <1>1
  <2>2. scan' \in [ASID -> 0..POOLSIZE] /\ \A b \in ASID \ {a} : scan'[b] = scan[b]
    BY <1>1, <2>1 DEF Clear
  <2>3. \A b \in ASID : pc'[sst_pcb[b]] = "clear" => b # a /\ pc[sst_pcb[b]] = "clear"
    BY <1>4
  <2>4. \A b \in ASID : pc'[b] = pc[b]
    BY <1>4
  <2> QED BY <2>2, <2>3, <2>4 DEF Clear, Shape, Handling
<1> QED BY <1>2, <1>3, <1>4, <1>5 DEF Shape

LEMMA ShapeSst ==
  ASSUME Shape, NEW a \in ASID, SstStep(a)
  PROVE  Shape'
<1> USE ConstantFacts
<1>1. CASE Serve(a)
  BY <1>1, SstReceive DEF Serve, SstSteps
<1>2. CASE Tell(sst_pcb[a], "suicide", "kill", ssi_pcb, "dying")
  <2>1. Scheduling' /\ Mailing'
    <3>1. /\ Send(msg_inbox, sst_pcb[a], "kill", ssi_pcb) /\ msg_inbox \in [Proc -> Seq(Message)]
          /\ \A p \in Proc : ToSet(msg_inbox[p]) \subseteq Mail(p)
      BY <1>2 DEF Tell, Shape, Mailing, Mail
    <3> QED BY <3>1, SendShape, UserLetters
  <2>2. /\ Control' /\ pc'[sst_pcb[a]] = "dying"
        /\ \A q \in Proc \ {sst_pcb[a]} : pc'[q] = pc[q]
    BY <1>2, GotoShape DEF Tell, SstSteps
  <2>3. Handling'
    BY <1>2, <2>2, HandlingKept DEF Tell, Shape
  <2> QED BY <1>2, <2>1, <2>2, <2>3 DEF Tell, Shape, Translation, Devices
<1>3. CASE Receive(sst_pcb[a], "dying", ssi_pcb, "dying")
  BY <1>3, SstReceive DEF SstSteps
<1> QED BY <1>1, <1>2, <1>3, ScanShape, ClearShape DEF SstStep, Suicide

\* The sender of the request that the SSI serves.
LEMMA SenderFacts ==
  ASSUME Shape, NEW op, Serving(op)
  PROVE  /\ op \in {"support", "doio"} => sender \in ASID
         /\ op = "kill" => sender \in Sst
         /\ Note(sender, op) \in Mail(ssi_pcb)
<1>1. Note(sender, op) \in Mail(ssi_pcb)
  BY ServedFacts DEF Shape, Mailing
<1>2. Note(sender, op) \in Letters(ssi_pcb)
  BY <1>1, ConstantFacts DEF Shape, Mailing
<1> QED BY <1>1, <1>2 DEF Letters, Note

LEMMA ShapeSsi ==
  ASSUME Shape, Ssi
  PROVE  Shape'
<1> USE ConstantFacts
<1>0. msg_inbox \in [Proc -> Seq(Message)] /\ \A p \in Proc : Mail(p) \subseteq Letters(p)
  BY DEF Shape, Mailing
<1>1. CASE SsiBlock
  <2>1. Scheduling' /\ Mailing' /\ UNCHANGED pc
    BY <1>1, BlockShape DEF SsiBlock, Block
  <2> QED BY <1>1, <2>1 DEF SsiBlock, Shape, Control, Handling, Translation, Devices
<1>2. CASE SsiSupport
  <2>1. sender \in ASID
    BY <1>2, SenderFacts DEF SsiSupport
  <2>2. Served \in [Proc -> Seq(Message)] /\ \A p \in Proc : ToSet(Served[p]) \subseteq Mail(p)
    BY <1>0, <1>2, ServedFacts DEF SsiSupport, Mail
  <2>3. Scheduling' /\ Mailing'
    BY <1>2, <2>1, <2>2, SendShape, UserLetters DEF SsiSupport
  <2> QED BY <1>2, <2>3 DEF SsiSupport, Shape, Control, Handling, Translation, Devices
<1>3. CASE SsiDoIO
  <2>1. sender \in ASID
    BY <1>3, SenderFacts DEF SsiDoIO
  <2>2. Served \in [Proc -> Seq(Message)] /\ \A p \in Proc : ToSet(Served[p]) \subseteq Mail(p)
    BY <1>0, <1>3, ServedFacts DEF SsiDoIO, Mail
  <2>3. Mailing'
    <3>1. \A p \in Proc : Mail(p)' \subseteq Letters(p) /\ Letters(p)' = Letters(p)
      BY <1>0, <1>3, <2>2 DEF SsiDoIO, Mail, Letters, Message
    <3> QED BY <1>3, <2>2, <3>1 DEF SsiDoIO, Mailing
  <2>4. Scheduling'
    <3>1. readyQueue \in Seq(Proc)
      BY DEF Shape, Scheduling
    <3>2. RemoveFirst(readyQueue, sender) \in Seq(Proc)
      BY <3>1, RemoveFirstSet
    <3> QED BY <1>3, <3>2 DEF SsiDoIO, Shape, Scheduling
  <2>5. Devices'
    <3>1. /\ do_io[sender] \in [asid : ASID \cup {NOPROC}, cmd : {"none", "read", "write"},
                                page : Page \cup {NULL}]
          /\ frame[sender] \in Frame
      BY <2>1 DEF Shape, Handling
    <3> QED BY <1>3, <2>1, <3>1 DEF SsiDoIO, Shape, Devices
  <2> QED BY <1>3, <2>3, <2>4, <2>5 DEF SsiDoIO, Shape, Control, Handling, Translation
<1>4. CASE SsiKill
  <2>1. PICK a \in ASID : sst_pcb[a] = sender /\ Kill(a)
    BY <1>4 DEF SsiKill
  <2>2. sender \in Proc /\ Serving("kill")
    BY <2>1 DEF Kill
  <2>3. Served \in [Proc -> Seq(Message)] /\ \A p \in Proc : ToSet(Served[p]) \subseteq Mail(p)
    BY <1>0, <2>2, ServedFacts DEF Mail
  <2>4. Mailing'
    <3>1. msg_inbox' = Served
      BY <2>1 DEF Kill
    <3>2. msg_inbox' \in [Proc -> Seq(Message)]
      BY <2>3, <3>1
    <3>3. \A p \in Proc : Mail(p)' \subseteq Mail(p)
      BY <2>3, <3>1 DEF Mail
    <3>4. \A p \in Proc : Letters(p)' = Letters(p)
      BY DEF Letters, Message
    <3> QED BY <1>0, <3>2, <3>3, <3>4 DEF Mailing
  <2>5. Scheduling'
    <3>1. readyQueue \in Seq(Proc)
      BY DEF Shape, Scheduling
    <3>2. RemoveFirst(readyQueue, a) \in Seq(Proc)
      BY <3>1, RemoveFirstSet
    <3>3. RemoveFirst(RemoveFirst(readyQueue, a), sender) \in Seq(Proc)
      BY <3>2, RemoveFirstSet
    <3> QED BY <2>1, <2>2, <3>3 DEF Kill, Shape, Scheduling
  <2>6. Devices'
    <3>1. device' = [b \in ASID |-> IF device[b].who \in {a, sender}
                                    THEN [device[b] EXCEPT !.who = NULL] ELSE device[b]]
      BY <2>1 DEF Kill
    <3> QED BY <2>1, <3>1 DEF Kill, Shape, Devices
  <2> QED BY <2>1, <2>4, <2>5, <2>6 DEF Kill, Shape, Control, Handling, Translation
<1> QED BY <1>1, <1>2, <1>3, <1>4 DEF Ssi
LEMMA ShapeFlash ==
  ASSUME Shape, Faulty = {}, NEW a \in ASID, FlashInterrupt(a)
  PROVE  Shape'
<1> USE ConstantFacts
<1> DEFINE d == device[a]
           woken == IF d.who = NULL THEN readyQueue ELSE Append(readyQueue, d.who)
<1>1. d \in [cmd : {"none", "read", "write"}, page : Page \cup {NULL}, frame : Frame,
             who : ASID \cup {NULL}]
  BY DEF Shape, Devices
<1>2. woken \in Seq(Proc)
  <2>1. readyQueue \in Seq(Proc)
    BY DEF Shape, Scheduling
  <2>2. d.who # NULL => Append(readyQueue, d.who) \in Seq(Proc)
    BY <1>1, <2>1, AppendSet
  <2> QED BY <2>1, <2>2
<1>3. Scheduling'
  <2>1. \/ Dispatch(woken)
        \/ readyQueue' = woken /\ UNCHANGED current_process
    BY DEF FlashInterrupt
  <2>2. current_process' \in Proc \cup {NULL} /\ readyQueue' \in Seq(Proc)
    <3> HIDE DEF woken
    <3> QED BY <1>2, <2>1, DispatchFacts DEF Shape, Scheduling
  <2>3. UNCHANGED <<receiving, pcbFree_h>>
    BY DEF FlashInterrupt
  <2> QED BY <2>2, <2>3 DEF Shape, Scheduling
<1>4. Mailing'
  <2>1. msg_inbox' = IF d.who = NULL THEN msg_inbox
                     ELSE [msg_inbox EXCEPT ![d.who] = <<Note(ssi_pcb, "ok")>> \o @]
    BY DEF FlashInterrupt, Note
  <2>2. CASE d.who = NULL
    BY <2>1, <2>2, SameMail DEF Shape
  <2>3. CASE d.who # NULL
    <3>0. PICK w \in ASID : w = d.who
      BY <1>1, <2>3
    <3> DEFINE new == <<Note(ssi_pcb, "ok")>> \o msg_inbox[w]
    <3>1. w \in ASID /\ w \in Proc
      OBVIOUS
    <3>2. msg_inbox \in [Proc -> Seq(Message)] /\ \A p \in Proc : Mail(p) \subseteq Letters(p)
      BY DEF Shape, Mailing
    <3>3. Note(ssi_pcb, "ok") \in Letters(w) /\ Note(ssi_pcb, "ok") \in Message
      BY <3>1, UserLetters, LettersAreMessages
    <3>4. new \in Seq(Message) /\ ToSet(new) = Mail(w) \cup {Note(ssi_pcb, "ok")}
      BY <3>1, <3>2, <3>3, ConsSet DEF Mail
    <3>5. msg_inbox' = [msg_inbox EXCEPT ![w] = new]
      BY <2>1, <2>3, <3>0
    <3> HIDE DEF new
    <3>6. \A p \in Proc : Letters(p)' = Letters(p)
      BY DEF Letters, Message
    <3>7. Mail(w)' = ToSet(new) /\ \A p \in Proc \ {w} : Mail(p)' = Mail(p)
      BY <3>1, <3>2, <3>4, <3>5 DEF Mail
    <3>8. \A p \in Proc : Mail(p)' \subseteq Letters(p)
      <4> SUFFICES ASSUME NEW p \in Proc PROVE Mail(p)' \subseteq Letters(p)
        OBVIOUS
      <4>1. CASE p = w
        BY <3>2, <3>3, <3>4, <3>7, <4>1 DEF Mail
      <4>2. CASE p # w
        BY <3>2, <3>7, <4>2
      <4> QED BY <4>1, <4>2
    <3> QED BY <3>1, <3>2, <3>4, <3>5, <3>6, <3>8 DEF Mailing
  <2> QED BY <2>2, <2>3
<1>5. Devices'
  BY DEF FlashInterrupt, Idle, Shape, Devices
<1> QED BY <1>3, <1>4, <1>5 DEF FlashInterrupt, Shape, Control, Handling, Translation

LEMMA ShapeNext == Shape /\ Faulty = {} /\ [Next]_vars => Shape'
<1> SUFFICES ASSUME Shape, Faulty = {}, [Next]_vars PROVE Shape'
  OBVIOUS
<1>1. CASE \E a \in ASID : User(a) \/ Handler(a) \/ SstStep(a) \/ FlashInterrupt(a)
  BY <1>1, ShapeUser, ShapeHandler, ShapeSst, ShapeFlash
<1>2. CASE SwapMutex \/ Ssi \/ \E p \in Proc : Preempt(p)
  BY <1>2, ShapeMutex, ShapeSsi, ShapePreempt
<1>3. CASE UNCHANGED vars
  BY <1>3, SameMail DEF vars, Shape, Scheduling, Control, Handling, Translation, Devices
<1> QED BY <1>1, <1>2, <1>3 DEF Next
------------------------------------------------------------------------------
(* What each kind of step does to the inboxes, as sets.                     *)

LEMMA TellMail ==
  ASSUME Shape, NEW p, NEW op, NEW dest \in Proc, Note(p, op) \in Letters(dest),
         Send(msg_inbox, p, op, dest)
  PROVE  /\ \A q \in Proc \ {dest} : msg_inbox'[q] = msg_inbox[q] /\ Mail(q)' = Mail(q)
         /\ Mail(dest)' \subseteq Mail(dest) \cup {Note(p, op)}
         /\ Mail(dest) \subseteq Mail(dest)'
         /\ IsInjective(msg_inbox[dest]) /\ Note(p, op) \notin Mail(dest)
            => IsInjective(msg_inbox'[dest])
<1>1. Scheduling /\ msg_inbox \in [Proc -> Seq(Message)] /\ Note(p, op) \in Message
  BY LettersAreMessages DEF Shape, Mailing
<1>2. /\ \A q \in Proc \ {dest} : msg_inbox'[q] = msg_inbox[q]
      /\ Mail(dest)' \subseteq Mail(dest) \cup {Note(p, op)}
      /\ Mail(dest) \subseteq Mail(dest)'
      /\ IsInjective(msg_inbox[dest]) /\ Note(p, op) \notin Mail(dest)
         => IsInjective(msg_inbox'[dest])
  BY <1>1, SendFacts DEF Mail
<1> QED BY <1>2 DEF Mail

LEMMA TakeMail ==
  ASSUME Shape, NEW p \in Proc, NEW from, Take(p, from)
  PROVE  /\ \A q \in Proc \ {p} : msg_inbox'[q] = msg_inbox[q] /\ Mail(q)' = Mail(q)
         /\ Taken(p, from) \in Mail(p) /\ Taken(p, from) \in Letters(p)
         /\ from = NULL \/ Taken(p, from).from = from
         /\ Taken(p, from) = Note(Taken(p, from).from, Taken(p, from).op)
         /\ Mail(p)' \subseteq Mail(p) /\ Mail(p) \subseteq Mail(p)' \cup {Taken(p, from)}
         /\ IsInjective(msg_inbox[p]) => IsInjective(msg_inbox'[p]) /\ Taken(p, from) \notin Mail(p)'
<1>1. Scheduling /\ msg_inbox \in [Proc -> Seq(Message)] /\ Mail(p) \subseteq Letters(p)
  BY DEF Shape, Mailing
<1>2. /\ \A q \in Proc \ {p} : msg_inbox'[q] = msg_inbox[q]
      /\ Taken(p, from) \in Mail(p) /\ (from = NULL \/ Taken(p, from).from = from)
      /\ Mail(p)' \subseteq Mail(p) /\ Mail(p) \subseteq Mail(p)' \cup {Taken(p, from)}
      /\ IsInjective(msg_inbox[p]) => IsInjective(msg_inbox'[p]) /\ Taken(p, from) \notin Mail(p)'
  BY <1>1, TakeFacts
<1>3. Taken(p, from) \in Letters(p) /\ Taken(p, from) \in Message
  BY <1>1, <1>2, LettersAreMessages
<1>4. Taken(p, from) = Note(Taken(p, from).from, Taken(p, from).op)
  BY <1>3 DEF Message, Note
<1> QED BY <1>2, <1>3, <1>4 DEF Mail

\* The answer to getSupportStruct().
LEMMA SupportMail ==
  ASSUME Shape, SsiSupport
  PROVE  \E a \in ASID :
           /\ Note(a, "support") \in Mail(ssi_pcb)
           /\ \A q \in Proc \ {a, ssi_pcb} : msg_inbox'[q] = msg_inbox[q] /\ Mail(q)' = Mail(q)
           /\ Mail(ssi_pcb)' \subseteq Mail(ssi_pcb)
           /\ IsInjective(msg_inbox[ssi_pcb]) =>
                IsInjective(msg_inbox'[ssi_pcb]) /\ Note(a, "support") \notin Mail(ssi_pcb)'
           /\ Mail(a)' \subseteq Mail(a) \cup {Note(ssi_pcb, "answer")}
           /\ IsInjective(msg_inbox[a]) /\ Note(ssi_pcb, "answer") \notin Mail(a)
              => IsInjective(msg_inbox'[a])
<1>1. Serving("support") /\ Send(Served, ssi_pcb, "answer", sender)
  BY DEF SsiSupport
<1>2. PICK a \in ASID : a = sender
  BY <1>1, SenderFacts
<1>3. /\ Served \in [Proc -> Seq(Message)]
      /\ \A p \in Proc \ {ssi_pcb} : Served[p] = msg_inbox[p]
      /\ Note(a, "support") \in Mail(ssi_pcb)
      /\ ToSet(Served[ssi_pcb]) \subseteq Mail(ssi_pcb)
      /\ IsInjective(msg_inbox[ssi_pcb]) => /\ IsInjective(Served[ssi_pcb])
                                            /\ Note(a, "support") \notin ToSet(Served[ssi_pcb])
  BY <1>1, <1>2, ServedFacts DEF Shape, Mailing
<1>4. a \in Proc /\ a # ssi_pcb /\ Note(ssi_pcb, "answer") \in Message
  BY ConstantFacts, UserLetters, LettersAreMessages
<1>5. Scheduling /\ Send(Served, ssi_pcb, "answer", a) /\ a \in Proc
      /\ Served \in [Proc -> Seq(Message)] /\ Note(ssi_pcb, "answer") \in Message
  BY <1>1, <1>2, <1>3, <1>4 DEF Shape
<1>6. /\ \A q \in Proc \ {a} : msg_inbox'[q] = Served[q]
      /\ Mail(a)' \subseteq ToSet(Served[a]) \cup {Note(ssi_pcb, "answer")}
      /\ IsInjective(Served[a]) /\ Note(ssi_pcb, "answer") \notin ToSet(Served[a])
         => IsInjective(msg_inbox'[a])
  <2> HIDE DEF Served
  <2> QED BY <1>5, SendFacts
<1>7. Mail(a)' \subseteq Mail(a) \cup {Note(ssi_pcb, "answer")}
      /\ (IsInjective(msg_inbox[a]) /\ Note(ssi_pcb, "answer") \notin Mail(a)
          => IsInjective(msg_inbox'[a]))
  BY <1>3, <1>4, <1>6 DEF Mail
<1>8. msg_inbox'[ssi_pcb] = Served[ssi_pcb]
  BY <1>4, <1>6, ConstantFacts
<1>9. \A q \in Proc \ {a, ssi_pcb} : msg_inbox'[q] = msg_inbox[q] /\ Mail(q)' = Mail(q)
  BY <1>3, <1>6 DEF Mail
<1> QED BY <1>3, <1>7, <1>8, <1>9 DEF Mail

\* doIO() takes the request and answers nothing.
LEMMA DoIOMail ==
  ASSUME Shape, SsiDoIO
  PROVE  \E a \in ASID :
           /\ a = sender /\ Note(a, "doio") \in Mail(ssi_pcb)
           /\ \A q \in Proc \ {ssi_pcb} : msg_inbox'[q] = msg_inbox[q] /\ Mail(q)' = Mail(q)
           /\ Mail(ssi_pcb)' \subseteq Mail(ssi_pcb)
           /\ IsInjective(msg_inbox[ssi_pcb]) =>
                IsInjective(msg_inbox'[ssi_pcb]) /\ Note(a, "doio") \notin Mail(ssi_pcb)'
<1>1. Serving("doio") /\ msg_inbox' = Served
  BY DEF SsiDoIO
<1>2. PICK a \in ASID : a = sender
  BY <1>1, SenderFacts
<1>3. /\ \A p \in Proc \ {ssi_pcb} : Served[p] = msg_inbox[p]
      /\ Note(a, "doio") \in Mail(ssi_pcb)
      /\ ToSet(Served[ssi_pcb]) \subseteq Mail(ssi_pcb)
      /\ IsInjective(msg_inbox[ssi_pcb]) => /\ IsInjective(Served[ssi_pcb])
                                            /\ Note(a, "doio") \notin ToSet(Served[ssi_pcb])
  BY <1>1, <1>2, ServedFacts DEF Shape, Mailing
<1> QED BY <1>1, <1>2, <1>3 DEF Mail

\* killProcess() takes one message from the SSI's inbox and leaves the others alone.
LEMMA KillMail ==
  ASSUME Shape, SsiKill
  PROVE  /\ \E a \in ASID : Note(sst_pcb[a], "kill") \in Mail(ssi_pcb)
         /\ \A q \in Proc \ {ssi_pcb} : msg_inbox'[q] = msg_inbox[q] /\ Mail(q)' = Mail(q)
         /\ \A q \in Proc : Mail(q)' \subseteq Mail(q)
         /\ \A q \in Proc : IsInjective(msg_inbox[q]) => IsInjective(msg_inbox'[q])
<1>1. PICK a \in ASID : sst_pcb[a] = sender /\ Kill(a)
  BY DEF SsiKill
<1>2. Serving("kill") /\ msg_inbox' = Served
  BY <1>1 DEF Kill
<1>3. /\ \A p \in Proc \ {ssi_pcb} : Served[p] = msg_inbox[p]
      /\ Note(sst_pcb[a], "kill") \in Mail(ssi_pcb)
      /\ ToSet(Served[ssi_pcb]) \subseteq Mail(ssi_pcb)
      /\ IsInjective(msg_inbox[ssi_pcb]) => IsInjective(Served[ssi_pcb])
  BY <1>1, <1>2, ServedFacts DEF Shape, Mailing
<1> QED BY <1>2, <1>3 DEF Mail

\* deviceInterrupt() answers who waits for the device.
LEMMA FlashMail ==
  ASSUME Shape, Faulty = {}, NEW a \in ASID, FlashInterrupt(a)
  PROVE  \/ device[a].who = NULL /\ UNCHANGED msg_inbox
         \/ \E w \in ASID :
              /\ device[a].who = w
              /\ \A q \in Proc \ {w} : msg_inbox'[q] = msg_inbox[q] /\ Mail(q)' = Mail(q)
              /\ Mail(w)' = Mail(w) \cup {Note(ssi_pcb, "ok")}
              /\ IsInjective(msg_inbox[w]) /\ Note(ssi_pcb, "ok") \notin Mail(w)
                 => IsInjective(msg_inbox'[w])
<1>1. msg_inbox' = IF device[a].who = NULL THEN msg_inbox
                   ELSE [msg_inbox EXCEPT ![device[a].who] = <<Note(ssi_pcb, "ok")>> \o @]
  BY DEF FlashInterrupt, Note
<1>2. CASE device[a].who = NULL
  BY <1>1, <1>2
<1>3. CASE device[a].who # NULL
  <2>1. PICK w \in ASID : device[a].who = w
    BY <1>3 DEF Shape, Devices
  <2> DEFINE new == <<Note(ssi_pcb, "ok")>> \o msg_inbox[w]
  <2>2. msg_inbox \in [Proc -> Seq(Message)] /\ w \in Proc /\ Note(ssi_pcb, "ok") \in Message
    BY UserLetters, LettersAreMessages, ConstantFacts DEF Shape, Mailing
  <2>3. /\ ToSet(new) = Mail(w) \cup {Note(ssi_pcb, "ok")}
        /\ IsInjective(msg_inbox[w]) /\ Note(ssi_pcb, "ok") \notin Mail(w) => IsInjective(new)
    BY <2>2, ConsSet DEF Mail
  <2>4. msg_inbox' = [msg_inbox EXCEPT ![w] = new]
    BY <1>1, <1>3, <2>1
  <2> HIDE DEF new
  <2>5. /\ \A q \in Proc \ {w} : msg_inbox'[q] = msg_inbox[q] /\ Mail(q)' = Mail(q)
        /\ Mail(w)' = ToSet(new) /\ msg_inbox'[w] = new
    BY <2>2, <2>4 DEF Mail
  <2> QED BY <2>1, <2>3, <2>5
<1> QED BY <1>2, <1>3
------------------------------------------------------------------------------
(* The mutex over the swap table.                                           *)

LEMMA Notes ==
  /\ \A p, q, o, r : Note(p, o) = Note(q, r) <=> p = q /\ o = r
  /\ \A p, o : Note(p, o).from = p /\ Note(p, o).op = o
BY DEF Note

LEMMA LockingInit == Init => Locking
<1> SUFFICES ASSUME Init PROVE Locking
  OBVIOUS
<1>1. \A p \in Proc : msg_inbox[p] = <<>> /\ Mail(p) = {}
  BY DEF Init, Mail, ToSet
<1>2. IsInjective(<<>>)
  BY DEF IsInjective
<1>3. pc[swap_pcb] = "any" /\ \A a \in ASID : pc[a] = "user"
  BY ConstantFacts DEF Init
<1> QED BY <1>1, <1>2, <1>3, ConstantFacts DEF Locking, Granted, Critical

\* A step that says nothing to swapMutex(), grants nothing and enters nothing.
LEMMA LockingQuiet ==
  ASSUME Locking, UNCHANGED client, msg_inbox'[swap_pcb] = msg_inbox[swap_pcb],
         \A a \in ASID : Mail(a)' \subseteq
           Mail(a) \cup {Note(ssi_pcb, "answer"), Note(ssi_pcb, "ok")},
         pc'[swap_pcb] = pc[swap_pcb],
         \A a \in ASID : /\ pc'[a] \in Critical => pc[a] \in Critical
                         /\ pc[a] = "getMutex" => pc'[a] = "getMutex"
  PROVE  Locking'
<1>1. Mail(swap_pcb)' = Mail(swap_pcb)
  BY DEF Mail
<1>2. \A a \in ASID : Granted(a)' => Granted(a)
  BY Notes, ConstantFacts DEF Granted
<1>3. \A a \in ASID : (Silent(a)' <=> Silent(a)) /\ (Waited(a)' <=> Waited(a))
  BY <1>1 DEF Silent, Waited
<1> QED BY <1>1, <1>2, <1>3 DEF Locking

\* Steps of a user process that are no business of the mutex.
LEMMA LockingTell ==
  ASSUME Shape, Locking, NEW a \in ASID, NEW l, l # "getMutex", NEW l2,
         l2 \in Critical => l \in Critical, NEW op, NEW dest \in Proc \ {swap_pcb},
         Note(a, op) \in Letters(dest), dest \notin ASID,
         At(a, l), Send(msg_inbox, a, op, dest), pc' = [pc EXCEPT ![a] = l2], UNCHANGED client
  PROVE  Locking'
<1> USE ConstantFacts
<1>1. \A q \in Proc \ {dest} : msg_inbox'[q] = msg_inbox[q] /\ Mail(q)' = Mail(q)
  BY TellMail
<1>2. pc[a] = l /\ pc'[a] = l2 /\ \A q \in Proc \ {a} : pc'[q] = pc[q]
  BY DEF At, Shape, Control
<1> QED BY <1>1, <1>2, LockingQuiet

LEMMA LockingReceive ==
  ASSUME Shape, Locking, NEW a \in ASID, NEW l, l # "getMutex", NEW l2,
         l2 \in Critical => l \in Critical, NEW from, Receive(a, l, from, l2)
  PROVE  Locking'
<1> USE ConstantFacts
<1>1. pc[a] = l /\ UNCHANGED client
  BY DEF Receive, At
<1>2. CASE Block(a, from)
  <2>1. UNCHANGED <<msg_inbox, pc>>
    BY <1>2 DEF Block
  <2> QED BY <1>1, <2>1, SameMail, LockingQuiet DEF Shape
<1>3. CASE Take(a, from) /\ Goto(a, l2)
  <2>1. /\ \A q \in Proc \ {a} : msg_inbox'[q] = msg_inbox[q] /\ Mail(q)' = Mail(q)
        /\ Mail(a)' \subseteq Mail(a)
    BY <1>3, TakeMail
  <2>2. pc'[a] = l2 /\ \A q \in Proc \ {a} : pc'[q] = pc[q]
    BY <1>3 DEF Goto, Shape, Control
  <2> QED BY <1>1, <2>1, <2>2, LockingQuiet
<1> QED BY <1>2, <1>3 DEF Receive

\* The processes outside the user processes and swapMutex().
LEMMA LockingOther ==
  ASSUME Shape, Locking, UNCHANGED <<msg_inbox, client>>,
         \A p \in Proc : p \notin Sst => pc'[p] = pc[p]
  PROVE  Locking'
BY SameMail, LockingQuiet, ConstantFacts DEF Shape

LEMMA LockingAskMutex ==
  ASSUME Shape, Locking, NEW a \in ASID, AskMutex(a)
  PROVE  Locking'
<1> USE ConstantFacts
<1>1. /\ pc[a] = "askMutex" /\ pc'[a] = "getMutex" /\ \A q \in Proc \ {a} : pc'[q] = pc[q]
      /\ UNCHANGED client /\ Send(msg_inbox, a, "get", swap_pcb)
  BY DEF AskMutex, Tell, At, Goto, Shape, Control
<1>2. /\ \A q \in Proc \ {swap_pcb} : Mail(q)' = Mail(q)
      /\ Mail(swap_pcb)' \subseteq Mail(swap_pcb) \cup {Note(a, "get")}
      /\ Mail(swap_pcb) \subseteq Mail(swap_pcb)'
      /\ IsInjective(msg_inbox[swap_pcb]) /\ Note(a, "get") \notin Mail(swap_pcb)
         => IsInjective(msg_inbox'[swap_pcb])
  BY <1>1, TellMail, UserLetters
<1>3. Note(a, "get") \notin Mail(swap_pcb) /\ ~Granted(a) /\ pc[a] \notin Critical
  BY <1>1 DEF Locking, Critical
<1>4. ~(pc[swap_pcb] = "give" /\ client = a)
  BY <1>1 DEF Locking
<1>5. \A b \in ASID : Granted(b)' = Granted(b) /\ Waited(b)' = Waited(b)
  BY <1>1, <1>2 DEF Granted, Waited
<1>6. \A b \in ASID \ {a} : /\ Silent(b)' <=> Silent(b)
                            /\ Note(b, "get") \in Mail(swap_pcb)' => Note(b, "get") \in Mail(swap_pcb)
                            /\ Note(b, "release") \in Mail(swap_pcb)' => Note(b, "release") \in Mail(swap_pcb)
  BY <1>2, Notes DEF Silent
<1>7. Note(a, "release") \in Mail(swap_pcb)' => Waited(a)
  BY <1>1, <1>2, Notes DEF Locking
<1> QED BY <1>1, <1>2, <1>3, <1>4, <1>5, <1>6, <1>7 DEF Locking, Critical

LEMMA LockingGetMutex ==
  ASSUME Shape, Locking, NEW a \in ASID, IsInjective(msg_inbox[a]), GetMutex(a)
  PROVE  Locking'
<1> USE ConstantFacts
<1>1. pc[a] = "getMutex" /\ UNCHANGED client
  BY DEF GetMutex, Receive, At
<1>2. CASE Block(a, swap_pcb)
  <2>1. UNCHANGED <<msg_inbox, pc>>
    BY <1>2 DEF Block
  <2> QED BY <1>1, <2>1, LockingOther
<1>3. CASE Take(a, swap_pcb) /\ Goto(a, "select")
  <2> DEFINE m == Taken(a, swap_pcb)
  <2>1. /\ \A q \in Proc \ {a} : msg_inbox'[q] = msg_inbox[q] /\ Mail(q)' = Mail(q)
        /\ m \in Mail(a) /\ m \in Letters(a) /\ m.from = swap_pcb /\ m = Note(m.from, m.op)
        /\ Mail(a)' \subseteq Mail(a) /\ m \notin Mail(a)'
    BY <1>3, TakeMail
  <2> HIDE DEF m
  <2>2. m = Note(swap_pcb, "grant")
    BY <2>1 DEF Letters
  <2>3. Granted(a) /\ ~Granted(a)'
    BY <2>1, <2>2 DEF Granted
  <2>4. Waited(a) /\ Silent(a)
    BY <2>3 DEF Locking
  <2>5. pc'[a] = "select" /\ pc'[swap_pcb] = pc[swap_pcb] /\ \A q \in ASID \ {a} : pc'[q] = pc[q]
    BY <1>3 DEF Goto, Shape, Control
  <2>6. Mail(swap_pcb)' = Mail(swap_pcb) /\ msg_inbox'[swap_pcb] = msg_inbox[swap_pcb]
    BY <2>1
  <2>7. \A b \in ASID : Silent(b)' = Silent(b) /\ Waited(b)' = Waited(b)
    BY <1>1, <2>5, <2>6 DEF Silent, Waited
  <2>8. \A b \in ASID : Granted(b)' => Granted(b) /\ b # a
    BY <2>1, <2>3 DEF Granted
  <2>9. \A b \in ASID : pc'[b] = "getMutex" <=> pc[b] = "getMutex" /\ b # a
    BY <2>5
  <2>10. ~(pc[swap_pcb] = "give") /\ Note(a, "get") \notin Mail(swap_pcb)
         /\ Note(a, "release") \notin Mail(swap_pcb)
    BY <2>4 DEF Waited, Silent
  <2> QED BY <1>1, <2>4, <2>5, <2>6, <2>7, <2>8, <2>9, <2>10 DEF Locking
<1> QED BY <1>2, <1>3 DEF GetMutex, Receive

LEMMA LockingRelease ==
  ASSUME Shape, Locking, NEW a \in ASID, Release(a)
  PROVE  Locking'
<1> USE ConstantFacts
<1>1. /\ pc[a] = "release" /\ pc'[a] = "user" /\ \A q \in Proc \ {a} : pc'[q] = pc[q]
      /\ UNCHANGED client /\ Send(msg_inbox, a, "release", swap_pcb)
  BY DEF Release, Tell, At, Goto, Shape, Control
<1>2. /\ \A q \in Proc \ {swap_pcb} : Mail(q)' = Mail(q)
      /\ Mail(swap_pcb)' \subseteq Mail(swap_pcb) \cup {Note(a, "release")}
      /\ Mail(swap_pcb) \subseteq Mail(swap_pcb)'
      /\ IsInjective(msg_inbox[swap_pcb]) /\ Note(a, "release") \notin Mail(swap_pcb)
         => IsInjective(msg_inbox'[swap_pcb])
  BY <1>1, TellMail, UserLetters
<1>3. Waited(a) /\ Silent(a) /\ ~Granted(a)
  BY <1>1 DEF Locking, Critical
<1>4. \A b \in ASID : Granted(b)' = Granted(b) /\ Waited(b)' = Waited(b)
  BY <1>1, <1>2 DEF Granted, Waited
<1>5. \A b \in ASID \ {a} : ~Waited(b)
  BY <1>3 DEF Waited
<1>6. \A b \in ASID \ {a} : /\ Silent(b)' <=> Silent(b)
                            /\ Note(b, "release") \in Mail(swap_pcb)' => Note(b, "release") \in Mail(swap_pcb)
  BY <1>2, Notes DEF Silent
<1>7. \A b \in ASID : Note(b, "get") \in Mail(swap_pcb)' => Note(b, "get") \in Mail(swap_pcb)
  BY <1>2, Notes
<1>8. pc'[swap_pcb] = "wait" /\ pc'[a] \notin Critical /\ Note(a, "get") \notin Mail(swap_pcb)'
      /\ IsInjective(msg_inbox'[swap_pcb])
  BY <1>1, <1>2, <1>3, <1>7 DEF Waited, Silent, Critical, Locking
<1> QED BY <1>1, <1>3, <1>4, <1>5, <1>6, <1>7, <1>8 DEF Locking

LEMMA LockingMutex ==
  ASSUME Shape, Locking, Asking, SwapMutex
  PROVE  Locking'
<1> USE ConstantFacts
<1>1. CASE \/ Block(swap_pcb, NULL) /\ UNCHANGED client
           \/ MutexWait /\ Block(swap_pcb, client)
  <2>1. UNCHANGED <<msg_inbox, pc, client>>
    BY <1>1 DEF Block, MutexWait, Receive
  <2> QED BY <2>1, LockingOther
<1>2. CASE /\ MutexAny /\ Take(swap_pcb, NULL)
           /\ client' = Taken(swap_pcb, NULL).from
           /\ Goto(swap_pcb, IF Taken(swap_pcb, NULL).op = "release" THEN "any" ELSE "give")
  <2>1. PICK m : m = Taken(swap_pcb, NULL)
    OBVIOUS
  <2>2. /\ \A q \in Proc \ {swap_pcb} : Mail(q)' = Mail(q)
        /\ m \in Mail(swap_pcb) /\ m \in Letters(swap_pcb) /\ m = Note(m.from, m.op)
        /\ Mail(swap_pcb)' \subseteq Mail(swap_pcb) /\ IsInjective(msg_inbox'[swap_pcb])
        /\ m \notin Mail(swap_pcb)'
    BY <1>2, <2>1, TakeMail DEF Locking
  <2>3. m.from \in ASID /\ m.op \in {"get", "release"} /\ client' = m.from
    BY <1>2, <2>1, <2>2 DEF Letters
  <2>4. /\ pc[swap_pcb] = "any" /\ \A q \in Proc \ {swap_pcb} : pc'[q] = pc[q]
        /\ pc'[swap_pcb] = IF m.op = "release" THEN "any" ELSE "give"
    BY <1>2, <2>1 DEF MutexAny, At, Goto, Shape, Control
  <2>5. \A b \in ASID : ~Waited(b) /\ ~Waited(b)' /\ Granted(b)' = Granted(b) /\ pc'[b] = pc[b]
    BY <2>2, <2>4 DEF Waited, Granted
  <2>6. \A b \in ASID : pc[b] \notin Critical /\ ~Granted(b)
    BY <2>5 DEF Locking
  <2>7. ASSUME m.op = "get" PROVE pc[m.from] = "getMutex" /\ Silent(m.from)'
    <3>1. Note(m.from, "get") \in Mail(swap_pcb) /\ Note(m.from, "get") \notin Mail(swap_pcb)'
      BY <2>2, <2>7
    <3>2. Note(m.from, "release") \notin Mail(swap_pcb)
      BY <2>3, <2>5, <3>1 DEF Locking
    <3>3. PICK b \in ASID : b = m.from
      BY <2>3
    <3>4. Silent(b)' /\ pc[b] = "getMutex"
      BY <2>2, <3>1, <3>2, <3>3 DEF Silent, Locking
    <3> QED BY <3>3, <3>4 DEF Silent
  <2>8. \A b \in ASID : pc'[swap_pcb] = "give" /\ client' = b => pc'[b] = "getMutex" /\ Silent(b)'
    BY <2>3, <2>4, <2>5, <2>7
  <2>9. \A b \in ASID : Note(b, "get") \in Mail(swap_pcb)' => pc'[b] = "getMutex"
    BY <2>2, <2>5 DEF Locking
  <2>10. \A b \in ASID : Note(b, "release") \in Mail(swap_pcb)' =>
           pc'[b] = "getMutex" /\ Note(b, "get") \notin Mail(swap_pcb)'
    BY <2>2, <2>5 DEF Locking
  <2> QED BY <2>2, <2>5, <2>6, <2>8, <2>9, <2>10 DEF Locking
<1>3. CASE MutexGive
  <2>1. PICK c \in ASID : c = client
    BY <1>3 DEF MutexGive, Tell, At, Shape, Control
  <2>2. /\ pc[swap_pcb] = "give" /\ pc'[swap_pcb] = "wait"
        /\ \A q \in Proc \ {swap_pcb} : pc'[q] = pc[q]
        /\ client' = c /\ Send(msg_inbox, swap_pcb, "grant", c)
    BY <1>3, <2>1 DEF MutexGive, Tell, At, Goto, Shape, Control
  <2>3. /\ \A q \in Proc \ {c} : Mail(q)' = Mail(q) /\ msg_inbox'[q] = msg_inbox[q]
        /\ Mail(c)' \subseteq Mail(c) \cup {Note(swap_pcb, "grant")}
    BY <2>2, TellMail, UserLetters
  <2>4. pc[c] = "getMutex" /\ Silent(c)
    BY <2>1, <2>2 DEF Locking
  <2>5. Mail(swap_pcb)' = Mail(swap_pcb) /\ msg_inbox'[swap_pcb] = msg_inbox[swap_pcb]
    BY <2>3
  <2>6. \A b \in ASID : ~Waited(b) /\ Silent(b)' = Silent(b) /\ (Waited(b)' <=> b = c)
    BY <2>1, <2>2, <2>5 DEF Waited, Silent
  <2>7. \A b \in ASID : pc[b] \notin Critical /\ ~Granted(b) /\ pc'[b] = pc[b]
    BY <2>2, <2>6 DEF Locking
  <2>8. \A b \in ASID \ {c} : ~Granted(b)'
    BY <2>3, <2>7 DEF Granted
  <2> QED BY <2>2, <2>4, <2>5, <2>6, <2>7, <2>8 DEF Locking
<1>4. CASE MutexWait /\ Take(swap_pcb, client) /\ Goto(swap_pcb, "any")
  <2>1. PICK c \in ASID : c = client
    BY <1>4 DEF MutexWait, Receive, At, Shape, Control
  <2>2. PICK m : m = Taken(swap_pcb, c)
    OBVIOUS
  <2>3. /\ pc[swap_pcb] = "wait" /\ pc'[swap_pcb] = "any" /\ client' = c
        /\ \A q \in Proc \ {swap_pcb} : pc'[q] = pc[q]
        /\ Take(swap_pcb, c) /\ c # NULL
    BY <1>4, <2>1 DEF MutexWait, Receive, At, Goto, Shape, Control
  <2>4. /\ \A q \in Proc \ {swap_pcb} : Mail(q)' = Mail(q)
        /\ m \in Mail(swap_pcb) /\ m \in Letters(swap_pcb) /\ m.from = c /\ m = Note(m.from, m.op)
        /\ Mail(swap_pcb)' \subseteq Mail(swap_pcb) /\ IsInjective(msg_inbox'[swap_pcb])
        /\ m \notin Mail(swap_pcb)'
    BY <2>2, <2>3, TakeMail DEF Locking
  <2>5. m = Note(c, "get") \/ m = Note(c, "release")
    BY <2>4 DEF Letters
  <2>6. ~Silent(c) /\ Waited(c) /\ \A b \in ASID : Waited(b) => b = c
    BY <2>1, <2>3, <2>4, <2>5 DEF Silent, Waited
  <2>7. \A b \in ASID : pc[b] \notin Critical /\ ~Granted(b) /\ ~Waited(b)' /\ ~Granted(b)'
                       /\ pc'[b] = pc[b]
    BY <2>3, <2>4, <2>6 DEF Locking, Waited, Granted
  <2>8. Note(c, "release") \in Mail(swap_pcb)' =>
          pc[c] = "getMutex" /\ Note(c, "get") \notin Mail(swap_pcb)'
    BY <2>4, <2>5 DEF Locking
  <2>9. \A b \in ASID : Note(b, "get") \in Mail(swap_pcb)' => pc'[b] = "getMutex"
    BY <2>4, <2>7 DEF Locking
  <2>10. \A b \in ASID \ {c} : Note(b, "release") \in Mail(swap_pcb)' =>
           pc'[b] = "getMutex" /\ Note(b, "get") \notin Mail(swap_pcb)'
    BY <2>4, <2>6, <2>7 DEF Locking
  <2>11. \A b \in ASID : Note(b, "release") \in Mail(swap_pcb)' =>
           pc'[b] = "getMutex" /\ Note(b, "get") \notin Mail(swap_pcb)'
    BY <2>7, <2>8, <2>10
  <2> QED BY <2>3, <2>4, <2>7, <2>9, <2>11 DEF Locking
<1>5. CASE MutexAny
  <2>1. \/ Block(swap_pcb, NULL) /\ UNCHANGED client
        \/ /\ Take(swap_pcb, NULL)
           /\ client' = Taken(swap_pcb, NULL).from
           /\ Goto(swap_pcb, IF Taken(swap_pcb, NULL).op = "release" THEN "any" ELSE "give")
    BY <1>5 DEF MutexAny
  <2> QED BY <1>1, <1>2, <1>5, <2>1
<1>6. CASE MutexWait
  <2>1. Block(swap_pcb, client) \/ (Take(swap_pcb, client) /\ Goto(swap_pcb, "any"))
    BY <1>6 DEF MutexWait, Receive
  <2> QED BY <1>1, <1>4, <1>6, <2>1
<1> QED BY <1>3, <1>5, <1>6 DEF SwapMutex

LEMMA LockingUser ==
  ASSUME Shape, Locking, NEW a \in ASID, User(a)
  PROVE  Locking'
<1> USE ConstantFacts
<1>1. CASE Write(a) \/ Refill(a)
  BY <1>1, LockingOther DEF Write, Refill
<1>2. CASE Fault(a)
  <2>1. pc[a] = "user" /\ pc'[a] = "askSupport" /\ \A q \in Proc \ {a} : pc'[q] = pc[q]
    BY <1>2 DEF Fault, MayTouch, At, Goto, Shape, Control
  <2>2. pc'[a] \notin Critical
    BY <2>1 DEF Critical
  <2> QED BY <1>2, <2>1, <2>2, SameMail, LockingQuiet DEF Fault, Shape
<1>3. CASE Quit(a)
  <2>1. Note(a, "terminate") \in Letters(sst_pcb[a]) /\ sst_pcb[a] \in Proc \ {swap_pcb}
    BY DEF Note, Letters, Message
  <2>2. \A q \in Proc \ {sst_pcb[a]} : msg_inbox'[q] = msg_inbox[q] /\ Mail(q)' = Mail(q)
    BY <1>3, <2>1, TellMail DEF Quit
  <2> QED BY <1>3, <2>1, <2>2, LockingQuiet DEF Quit
<1>4. CASE AwaitEnd(a)
  BY <1>4, LockingReceive DEF AwaitEnd, Critical
<1> QED BY <1>1, <1>2, <1>3, <1>4 DEF User

LEMMA LockingInternal ==
  ASSUME Shape, Locking, NEW a \in ASID, NEW l \in Critical, NEW l2 \in UserPc, Internal(a, l, l2)
  PROVE  Locking'
<1> USE ConstantFacts
<1>1. l # "getMutex"
  BY DEF Critical
<1>2. pc[a] = l /\ pc'[a] = l2 /\ \A q \in Proc \ {a} : pc'[q] = pc[q]
  BY DEF Internal, At, Goto, Shape, Control
<1> QED BY <1>1, <1>2, SameMail, LockingQuiet DEF Internal, Shape

LEMMA LockingHandler ==
  ASSUME Shape, Locking, Asking, NEW a \in ASID, Handler(a)
  PROVE  Locking'
<1> USE ConstantFacts, UserLetters
<1>0. /\ {"select", "check", "invalidate", "askWrite", "getWrite", "askRead", "getRead", "claim",
          "map", "release"} \subseteq Critical
      /\ {"user", "askSupport", "getSupport", "askMutex", "getMutex"} \cap Critical = {}
  BY DEF Critical
<1>1. CASE AskSupport(a)
  BY <1>0, <1>1, LockingTell DEF AskSupport, Tell, Goto
<1>2. CASE GetSupport(a)
  BY <1>0, <1>2, LockingReceive DEF GetSupport
<1>3. CASE AskMutex(a) \/ GetMutex(a) \/ Release(a)
  BY <1>3, LockingAskMutex, LockingGetMutex, LockingRelease DEF Asking
<1>4. CASE SelectFrame(a) \/ CheckFrame(a) \/ Invalidate(a) \/ Claim(a) \/ Map(a)
  <2>1. \E l \in Critical, l2 \in UserPc : Internal(a, l, l2)
    BY <1>0, <1>4, UserSteppers DEF SelectFrame, CheckFrame, Invalidate, Claim, Map
  <2> QED BY <2>1, LockingInternal
<1>5. CASE AskWrite(a) \/ AskRead(a)
  BY <1>0, <1>5, LockingTell DEF AskWrite, AskRead, FlashDev, Goto
<1>6. CASE FlashDone(a)
  <2>1. PICK l \in {"getWrite", "getRead"} : l = pc[a]
    BY <1>6 DEF FlashDone, At
  <2>2. PICK l2 \in Critical \cup {"trapRelease"} :
          Block(a, ssi_pcb) \/ (Take(a, ssi_pcb) /\ Goto(a, l2))
    BY <1>0, <1>6 DEF FlashDone, AfterFlash
  <2>3. Receive(a, l, ssi_pcb, l2)
    BY <1>6, <2>1, <2>2 DEF FlashDone, Receive, At
  <2> QED BY ZenonT(30), <1>0, <2>1, <2>3, LockingReceive
<1>7. CASE TrapRelease(a) \/ TrapAsk(a) \/ TrapGet(a) \/ TrapTell(a)
  <2>1. pc[a] \in UserPc
    BY DEF Shape, Control
  <2> QED BY <1>7, <2>1 DEF TrapRelease, TrapAsk, TrapGet, TrapTell, Tell, Receive, At, UserPc
<1> QED BY <1>1, <1>2, <1>3, <1>4, <1>5, <1>6, <1>7 DEF Handler

LEMMA LockingSst ==
  ASSUME Shape, Locking, NEW a \in ASID, SstStep(a)
  PROVE  Locking'
<1> USE ConstantFacts
<1>1. /\ UNCHANGED client
      /\ \A q \in Proc \ {sst_pcb[a]} : pc'[q] = pc[q]
  BY DEF SstStep, Serve, Scan, Clear, Suicide, Tell, Receive, Block, Goto, Shape, Control
<1>2. \A q \in Proc \ {sst_pcb[a], ssi_pcb} : msg_inbox'[q] = msg_inbox[q] /\ Mail(q)' = Mail(q)
  <2>1. CASE Scan(a) \/ Clear(a)
    BY <2>1 DEF Scan, Clear, Mail
  <2>2. CASE Tell(sst_pcb[a], "suicide", "kill", ssi_pcb, "dying")
    BY <2>2, TellMail, UserLetters DEF Tell
  <2>3. CASE Serve(a) \/ Receive(sst_pcb[a], "dying", ssi_pcb, "dying")
    <3>1. (\E p : Block(sst_pcb[a], p)) \/ (\E p : Take(sst_pcb[a], p))
      BY <2>3 DEF Serve, Receive
    <3>2. CASE \E p : Block(sst_pcb[a], p)
      BY <3>2 DEF Block, Mail
    <3>3. CASE \E p : Take(sst_pcb[a], p)
      BY <3>3, TakeMail
    <3> QED BY <3>1, <3>2, <3>3
  <2> QED BY <2>1, <2>2, <2>3 DEF SstStep, Suicide
<1> QED BY <1>1, <1>2, LockingQuiet

LEMMA LockingSsi ==
  ASSUME Shape, Locking, Ssi
  PROVE  Locking'
<1> USE ConstantFacts
<1>1. CASE SsiBlock
  BY <1>1, LockingOther DEF SsiBlock, Block
<1>2. CASE SsiSupport
  <2>1. \A b \in ASID : Mail(b)' \subseteq Mail(b) \cup {Note(ssi_pcb, "answer")}
    <3>1. PICK a \in ASID :
            /\ \A q \in Proc \ {a, ssi_pcb} : Mail(q)' = Mail(q)
            /\ Mail(a)' \subseteq Mail(a) \cup {Note(ssi_pcb, "answer")}
      BY <1>2, SupportMail
    <3> QED BY <3>1
  <2>2. msg_inbox'[swap_pcb] = msg_inbox[swap_pcb]
    BY <1>2, SupportMail
  <2> QED BY <1>2, <2>1, <2>2, LockingQuiet DEF SsiSupport
<1>3. CASE SsiDoIO
  BY <1>3, DoIOMail, LockingQuiet DEF SsiDoIO
<1>4. CASE SsiKill
  <2>1. msg_inbox'[swap_pcb] = msg_inbox[swap_pcb] /\ \A q \in Proc : Mail(q)' \subseteq Mail(q)
    BY <1>4, KillMail
  <2> QED BY <1>4, <2>1, LockingQuiet DEF SsiKill, Kill
<1> QED BY <1>1, <1>2, <1>3, <1>4 DEF Ssi

LEMMA LockingFlash ==
  ASSUME Shape, Faulty = {}, Locking, NEW a \in ASID, FlashInterrupt(a)
  PROVE  Locking'
<1> USE ConstantFacts
<1>1. /\ msg_inbox'[swap_pcb] = msg_inbox[swap_pcb]
      /\ \A b \in ASID : Mail(b)' \subseteq Mail(b) \cup {Note(ssi_pcb, "ok")}
  <2>1. CASE UNCHANGED msg_inbox
    BY <2>1, SameMail DEF Shape
  <2>2. CASE ~(UNCHANGED msg_inbox)
    <3>1. PICK w \in ASID :
            /\ \A q \in Proc \ {w} : msg_inbox'[q] = msg_inbox[q] /\ Mail(q)' = Mail(q)
            /\ Mail(w)' = Mail(w) \cup {Note(ssi_pcb, "ok")}
      BY <2>2, FlashMail
    <3> QED BY <3>1
  <2> QED BY <2>1, <2>2
<1> QED BY <1>1, LockingQuiet DEF FlashInterrupt

LEMMA LockingNext == Shape /\ Locking /\ Asking /\ Faulty = {} /\ [Next]_vars => Locking'
<1> SUFFICES ASSUME Shape, Locking, Asking, Faulty = {}, [Next]_vars PROVE Locking'
  OBVIOUS
<1>1. CASE \E a \in ASID : User(a) \/ Handler(a) \/ SstStep(a) \/ FlashInterrupt(a)
  BY <1>1, LockingUser, LockingHandler, LockingSst, LockingFlash
<1>2. CASE SwapMutex \/ Ssi
  BY <1>2, LockingMutex, LockingSsi
<1>3. CASE (\E p \in Proc : Preempt(p)) \/ UNCHANGED vars
  BY <1>3, LockingOther DEF Preempt, vars
<1> QED BY <1>1, <1>2, <1>3 DEF Next
------------------------------------------------------------------------------
(* Requests to the SSI and operations of the flash devices.                 *)

LEMMA AskingInit == Init => Asking /\ Flashing
<1> SUFFICES ASSUME Init PROVE Asking /\ Flashing
  OBVIOUS
<1>1. \A p \in Proc : msg_inbox[p] = <<>> /\ Mail(p) = {}
  BY DEF Init, Mail, ToSet
<1>2. IsInjective(<<>>)
  BY DEF IsInjective
<1>3. \A a \in ASID : pc[a] = "user" /\ device[a].who = NULL
  BY ConstantFacts DEF Init, Idle
<1>4. Asking
  BY <1>1, <1>2, ConstantFacts DEF Asking
<1>5. Flashing
  BY <1>1, <1>3, ConstantFacts DEF Flashing
<1> QED BY <1>4, <1>5

\* A step that asks nothing of the SSI but DOIO and answers nothing but that.
LEMMA AskingQuiet ==
  ASSUME Asking, IsInjective(msg_inbox'[ssi_pcb]),
         \A a \in ASID : IsInjective(msg_inbox'[a]),
         \A a \in ASID : /\ Note(a, "support") \in Mail(ssi_pcb)' => Note(a, "support") \in Mail(ssi_pcb)
                         /\ Note(sst_pcb[a], "kill") \in Mail(ssi_pcb)' =>
                              Note(sst_pcb[a], "kill") \in Mail(ssi_pcb)
                         /\ Note(ssi_pcb, "answer") \in Mail(a)' => Note(ssi_pcb, "answer") \in Mail(a)
                         /\ pc[a] = "getSupport" => pc'[a] = "getSupport"
                         /\ pc[sst_pcb[a]] = "dying" => pc'[sst_pcb[a]] = "dying"
  PROVE  Asking'
BY DEF Asking

LEMMA FlashingParts ==
  ASSUME \A a \in ASID :
           /\ pc'[a] = "getWrite" => do_io'[a].cmd = "write"
           /\ pc'[a] = "getRead" => do_io'[a] = [asid |-> a, cmd |-> "read", page |-> missing'[a]]
           /\ Note(a, "doio") \in Mail(ssi_pcb)' => pc'[a] \in FlashWait
           /\ Note(ssi_pcb, "ok") \in Mail(a)' =>
                pc'[a] \in FlashWait /\ Note(a, "doio") \notin Mail(ssi_pcb)',
         \A a, d \in ASID : device'[d].who = a =>
           /\ pc'[a] \in FlashWait /\ Note(a, "doio") \notin Mail(ssi_pcb)'
           /\ Note(ssi_pcb, "ok") \notin Mail(a)'
           /\ d = do_io'[a].asid /\ device'[d].cmd = do_io'[a].cmd
           /\ device'[d].page = do_io'[a].page /\ device'[d].frame = frame'[a]
  PROVE  Flashing'
BY DEF Flashing, Note

\* A step that starts and completes no operation of a device.
LEMMA FlashingQuiet ==
  ASSUME Flashing,
         \A a \in ASID : pc'[a] \in FlashWait \/ pc[a] \in FlashWait =>
           /\ pc'[a] = pc[a] /\ do_io'[a] = do_io[a] /\ missing'[a] = missing[a]
           /\ frame'[a] = frame[a],
         \A a \in ASID : /\ Note(a, "doio") \in Mail(ssi_pcb)' => Note(a, "doio") \in Mail(ssi_pcb)
                         /\ Note(ssi_pcb, "ok") \in Mail(a)' => Note(ssi_pcb, "ok") \in Mail(a),
         \A d, a \in ASID : device'[d].who = a => device'[d] = device[d]
  PROVE  Flashing'
<1>1. "getWrite" \in FlashWait /\ "getRead" \in FlashWait
  BY DEF FlashWait
<1> SUFFICES ASSUME NEW a \in ASID
    PROVE  /\ pc'[a] = "getWrite" => do_io'[a].cmd = "write"
           /\ pc'[a] = "getRead" => do_io'[a] = [asid |-> a, cmd |-> "read", page |-> missing'[a]]
           /\ Note(a, "doio") \in Mail(ssi_pcb)' => pc'[a] \in FlashWait
           /\ Note(ssi_pcb, "ok") \in Mail(a)' =>
                pc'[a] \in FlashWait /\ Note(a, "doio") \notin Mail(ssi_pcb)'
           /\ \A d \in ASID : device'[d].who = a =>
                /\ pc'[a] \in FlashWait /\ Note(a, "doio") \notin Mail(ssi_pcb)'
                /\ Note(ssi_pcb, "ok") \notin Mail(a)'
                /\ d = do_io'[a].asid /\ device'[d].cmd = do_io'[a].cmd
                /\ device'[d].page = do_io'[a].page /\ device'[d].frame = frame'[a]
  BY DEF Flashing, Note
<1>2. /\ pc'[a] = "getWrite" => do_io'[a].cmd = "write"
      /\ pc'[a] = "getRead" => do_io'[a] = [asid |-> a, cmd |-> "read", page |-> missing'[a]]
  BY <1>1 DEF Flashing
<1>3. /\ Note(a, "doio") \in Mail(ssi_pcb)' => pc'[a] \in FlashWait
      /\ Note(ssi_pcb, "ok") \in Mail(a)' =>
           pc'[a] \in FlashWait /\ Note(a, "doio") \notin Mail(ssi_pcb)'
  BY DEF Flashing
<1>4. ASSUME NEW d \in ASID, device'[d].who = a
      PROVE  /\ pc'[a] \in FlashWait /\ Note(a, "doio") \notin Mail(ssi_pcb)'
             /\ Note(ssi_pcb, "ok") \notin Mail(a)'
             /\ d = do_io'[a].asid /\ device'[d].cmd = do_io'[a].cmd
             /\ device'[d].page = do_io'[a].page /\ device'[d].frame = frame'[a]
  <2>1. device'[d] = device[d] /\ device[d].who = a
    BY <1>4
  <2>2. pc[a] \in FlashWait /\ pc'[a] = pc[a] /\ do_io'[a] = do_io[a] /\ frame'[a] = frame[a]
    BY <2>1 DEF Flashing
  <2>3. /\ Note(a, "doio") \notin Mail(ssi_pcb) /\ Note(ssi_pcb, "ok") \notin Mail(a)
        /\ d = do_io[a].asid /\ device[d].cmd = do_io[a].cmd
        /\ device[d].page = do_io[a].page /\ device[d].frame = frame[a]
    BY ZenonT(30), <2>1 DEF Flashing
  <2>4. Note(a, "doio") \notin Mail(ssi_pcb)' /\ Note(ssi_pcb, "ok") \notin Mail(a)'
    BY <2>3
  <2>5. /\ d = do_io'[a].asid /\ device'[d].cmd = do_io'[a].cmd
        /\ device'[d].page = do_io'[a].page /\ device'[d].frame = frame'[a]
    BY <2>1, <2>2, <2>3
  <2> QED BY <2>2, <2>4, <2>5
<1> QED BY <1>2, <1>3, <1>4

LEMMA AskingOther ==
  ASSUME Shape, Asking, Flashing, UNCHANGED <<msg_inbox, handler, device>>,
         \A a \in ASID : pc'[a] = pc[a],
         \A a \in ASID : pc[sst_pcb[a]] = "dying" => pc'[sst_pcb[a]] = "dying"
  PROVE  Asking' /\ Flashing'
<1>1. \A p \in Proc : Mail(p)' = Mail(p)
  BY SameMail DEF Shape
<1>2. Asking'
  BY <1>1, AskingQuiet, ConstantFacts DEF Asking
<1>3. Flashing'
  BY <1>1, FlashingQuiet, ConstantFacts
<1> QED BY <1>2, <1>3

\* A user process that tells something to swapMutex() or to its SST.
LEMMA AskingTell ==
  ASSUME Shape, Asking, Flashing, NEW a \in ASID, NEW l, NEW l2,
         l # "getSupport", l \notin FlashWait, l2 \notin FlashWait,
         NEW op, NEW dest \in {swap_pcb, sst_pcb[a]}, Note(a, op) \in Letters(dest),
         At(a, l), Send(msg_inbox, a, op, dest), pc' = [pc EXCEPT ![a] = l2],
         UNCHANGED <<handler, device>>
  PROVE  Asking' /\ Flashing'
<1> USE ConstantFacts
<1>1. \A q \in Proc \ {dest} : msg_inbox'[q] = msg_inbox[q] /\ Mail(q)' = Mail(q)
  BY TellMail
<1>2. pc[a] = l /\ pc'[a] = l2 /\ \A q \in Proc \ {a} : pc'[q] = pc[q]
  BY DEF At, Shape, Control
<1>3. dest \notin ASID /\ dest # ssi_pcb
  OBVIOUS
<1>4. Asking'
  BY <1>1, <1>2, <1>3, AskingQuiet DEF Asking
<1>5. Flashing'
  BY <1>1, <1>2, <1>3, FlashingQuiet
<1> QED BY <1>4, <1>5

LEMMA AskingReceive ==
  ASSUME Shape, Asking, Flashing, NEW a \in ASID, NEW l, NEW l2,
         l # "getSupport", l \notin FlashWait, l2 \notin FlashWait, NEW from,
         Receive(a, l, from, l2)
  PROVE  Asking' /\ Flashing'
<1> USE ConstantFacts
<1>1. pc[a] = l /\ UNCHANGED <<handler, device>>
  BY DEF Receive, At
<1>2. CASE Block(a, from)
  <2>1. UNCHANGED <<msg_inbox, pc>>
    BY <1>2 DEF Block
  <2> QED BY <1>1, <2>1, AskingOther
<1>3. CASE Take(a, from) /\ Goto(a, l2)
  <2>1. /\ \A q \in Proc \ {a} : msg_inbox'[q] = msg_inbox[q] /\ Mail(q)' = Mail(q)
        /\ Mail(a)' \subseteq Mail(a) /\ (IsInjective(msg_inbox[a]) => IsInjective(msg_inbox'[a]))
    BY <1>3, TakeMail
  <2>2. pc'[a] = l2 /\ \A q \in Proc \ {a} : pc'[q] = pc[q]
    BY <1>3 DEF Goto, Shape, Control
  <2>3. \A b \in ASID : IsInjective(msg_inbox'[b]) /\ Mail(b)' \subseteq Mail(b)
    BY <2>1 DEF Asking
  <2>4. Asking'
    BY <1>1, <2>1, <2>2, <2>3, AskingQuiet DEF Asking
  <2>5. Flashing'
    BY <1>1, <2>1, <2>2, <2>3, FlashingQuiet
  <2> QED BY <2>4, <2>5
<1> QED BY <1>2, <1>3 DEF Receive

LEMMA AskingInternal ==
  ASSUME Shape, Asking, Flashing, NEW a \in ASID, NEW l \in Critical \ FlashWait,
         NEW l2 \in UserPc \ FlashWait, Internal(a, l, l2),
         \A b \in ASID \ {a} : frame'[b] = frame[b]
  PROVE  Asking' /\ Flashing'
<1> USE ConstantFacts
<1>1. l # "getSupport"
  BY DEF Critical
<1>2. /\ pc[a] = l /\ pc'[a] = l2 /\ \A q \in Proc \ {a} : pc'[q] = pc[q]
      /\ UNCHANGED <<msg_inbox, missing, do_io, device>>
  BY DEF Internal, At, Goto, Shape, Control
<1>3. \A p \in Proc : Mail(p)' = Mail(p)
  BY <1>2, SameMail DEF Shape
<1>4. Asking'
  BY <1>1, <1>2, <1>3, AskingQuiet DEF Asking
<1>5. Flashing'
  BY <1>2, <1>3, FlashingQuiet
<1> QED BY <1>4, <1>5

LEMMA AskingSupport ==
  ASSUME Shape, Asking, Flashing, NEW a \in ASID, AskSupport(a)
  PROVE  Asking' /\ Flashing'
<1> USE ConstantFacts
<1>1. /\ pc[a] = "askSupport" /\ pc'[a] = "getSupport" /\ \A q \in Proc \ {a} : pc'[q] = pc[q]
      /\ UNCHANGED <<handler, device>> /\ Send(msg_inbox, a, "support", ssi_pcb)
  BY DEF AskSupport, Tell, At, Goto, Shape, Control
<1>2. /\ \A q \in Proc \ {ssi_pcb} : msg_inbox'[q] = msg_inbox[q] /\ Mail(q)' = Mail(q)
      /\ Mail(ssi_pcb)' \subseteq Mail(ssi_pcb) \cup {Note(a, "support")}
      /\ IsInjective(msg_inbox[ssi_pcb]) /\ Note(a, "support") \notin Mail(ssi_pcb)
         => IsInjective(msg_inbox'[ssi_pcb])
  BY <1>1, TellMail, UserLetters
<1>3. Note(a, "support") \notin Mail(ssi_pcb) /\ Note(ssi_pcb, "answer") \notin Mail(a)
  BY <1>1 DEF Asking
<1>4. \A p, o : Note(p, o) \in Mail(ssi_pcb)' =>
        Note(p, o) \in Mail(ssi_pcb) \/ (p = a /\ o = "support")
  BY <1>2, Notes
<1>5. Asking'
  BY <1>1, <1>2, <1>3, <1>4 DEF Asking
<1>6. Flashing'
  BY <1>1, <1>2, <1>4, FlashingQuiet DEF FlashWait
<1> QED BY <1>5, <1>6

LEMMA AskingGetSupport ==
  ASSUME Shape, Asking, Flashing, NEW a \in ASID, GetSupport(a)
  PROVE  Asking' /\ Flashing'
<1> USE ConstantFacts
<1>1. pc[a] = "getSupport" /\ UNCHANGED <<handler, device>>
  BY DEF GetSupport, Receive, At
<1>2. CASE Block(a, ssi_pcb)
  <2>1. UNCHANGED <<msg_inbox, pc>>
    BY <1>2 DEF Block
  <2> QED BY <1>1, <2>1, AskingOther
<1>3. CASE Take(a, ssi_pcb) /\ Goto(a, "askMutex")
  <2>1. PICK m : m = Taken(a, ssi_pcb)
    OBVIOUS
  <2>2. /\ \A q \in Proc \ {a} : msg_inbox'[q] = msg_inbox[q] /\ Mail(q)' = Mail(q)
        /\ m \in Mail(a) /\ m \in Letters(a) /\ m = Note(m.from, m.op) /\ m.from = ssi_pcb
        /\ Mail(a)' \subseteq Mail(a) /\ IsInjective(msg_inbox'[a]) /\ m \notin Mail(a)'
    BY <1>3, <2>1, TakeMail DEF Asking
  <2>3. m = Note(ssi_pcb, "answer") \/ m = Note(ssi_pcb, "ok")
    BY <2>2 DEF Letters
  <2>4. m = Note(ssi_pcb, "answer")
    BY <1>1, <2>2, <2>3 DEF Flashing, FlashWait
  <2>5. pc'[a] = "askMutex" /\ \A q \in Proc \ {a} : pc'[q] = pc[q]
    BY <1>3 DEF Goto, Shape, Control
  <2>6. Note(a, "support") \notin Mail(ssi_pcb)
    BY <2>2, <2>4 DEF Asking
  <2>7. Asking'
    BY <2>2, <2>4, <2>5, <2>6 DEF Asking
  <2>8. \A b \in ASID : Mail(b)' \subseteq Mail(b)
    BY <2>2
  <2>9. Flashing'
    BY <1>1, <2>2, <2>5, <2>8, FlashingQuiet DEF FlashWait
  <2> QED BY <2>7, <2>9
<1> QED BY <1>2, <1>3 DEF GetSupport, Receive

LEMMA AskingFlashDev ==
  ASSUME Shape, Asking, Flashing, NEW a \in ASID, AskWrite(a) \/ AskRead(a)
  PROVE  Asking' /\ Flashing'
<1> USE ConstantFacts
<1>1. PICK l, cmd, page, asid, l2 :
        /\ FlashDev(a, l, cmd, page, asid, l2)
        /\ \/ l = "askWrite" /\ cmd = "write" /\ l2 = "getWrite"
           \/ l = "askRead" /\ cmd = "read" /\ l2 = "getRead" /\ asid = a /\ page = missing[a]
  BY DEF AskWrite, AskRead
<1>2. /\ pc[a] = l /\ pc'[a] = l2 /\ \A q \in Proc \ {a} : pc'[q] = pc[q]
      /\ do_io'[a] = [asid |-> asid, cmd |-> cmd, page |-> page]
      /\ \A b \in ASID \ {a} : do_io'[b] = do_io[b]
      /\ UNCHANGED <<missing, frame, device>> /\ Send(msg_inbox, a, "doio", ssi_pcb)
  BY <1>1 DEF FlashDev, At, Goto, Shape, Control, Handling
<1>3. /\ \A q \in Proc \ {ssi_pcb} : msg_inbox'[q] = msg_inbox[q] /\ Mail(q)' = Mail(q)
      /\ Mail(ssi_pcb)' \subseteq Mail(ssi_pcb) \cup {Note(a, "doio")}
      /\ IsInjective(msg_inbox[ssi_pcb]) /\ Note(a, "doio") \notin Mail(ssi_pcb)
         => IsInjective(msg_inbox'[ssi_pcb])
  BY <1>2, TellMail, UserLetters
<1>4. Note(a, "doio") \notin Mail(ssi_pcb) /\ Note(ssi_pcb, "ok") \notin Mail(a)
      /\ \A d \in ASID : device[d].who # a
  BY <1>1, <1>2 DEF Flashing, FlashWait
<1>5. \A p, o : Note(p, o) \in Mail(ssi_pcb)' =>
        Note(p, o) \in Mail(ssi_pcb) \/ (p = a /\ o = "doio")
  BY <1>3, Notes
<1>6. Asking'
  BY <1>1, <1>2, <1>3, <1>4, <1>5, AskingQuiet DEF Asking
<1>7. \A b \in ASID \ {a} : /\ pc'[b] = pc[b] /\ Mail(b)' = Mail(b) /\ do_io'[b] = do_io[b]
                           /\ Note(b, "doio") \in Mail(ssi_pcb)' => Note(b, "doio") \in Mail(ssi_pcb)
  BY <1>2, <1>3, <1>5
<1>8. Flashing'
  BY <1>1, <1>2, <1>3, <1>4, <1>7 DEF Flashing, FlashWait
<1> QED BY <1>6, <1>8

\* The answer that FlashDone() waits for is the device's.
LEMMA FlashAnswer ==
  ASSUME Shape, Asking, Flashing, NEW a \in ASID, pc[a] \in FlashWait, Take(a, ssi_pcb)
  PROVE  /\ Taken(a, ssi_pcb) = Note(ssi_pcb, "ok") /\ Note(ssi_pcb, "ok") \in Mail(a)
         /\ Note(ssi_pcb, "ok") \notin Mail(a)' /\ Mail(a)' \subseteq Mail(a)
         /\ IsInjective(msg_inbox'[a])
         /\ \A q \in Proc \ {a} : msg_inbox'[q] = msg_inbox[q] /\ Mail(q)' = Mail(q)
<1> USE ConstantFacts
<1>1. PICK m : m = Taken(a, ssi_pcb)
  OBVIOUS
<1>2. /\ \A q \in Proc \ {a} : msg_inbox'[q] = msg_inbox[q] /\ Mail(q)' = Mail(q)
      /\ m \in Mail(a) /\ m \in Letters(a) /\ m = Note(m.from, m.op) /\ m.from = ssi_pcb
      /\ Mail(a)' \subseteq Mail(a) /\ IsInjective(msg_inbox'[a]) /\ m \notin Mail(a)'
  BY <1>1, TakeMail DEF Asking
<1>3. m = Note(ssi_pcb, "answer") \/ m = Note(ssi_pcb, "ok")
  BY <1>2 DEF Letters
<1>4. m # Note(ssi_pcb, "answer")
  BY <1>2 DEF Asking, FlashWait
<1> QED BY <1>1, <1>2, <1>3, <1>4

LEMMA AskingFlashDone ==
  ASSUME Shape, Asking, Flashing, NEW a \in ASID, FlashDone(a)
  PROVE  Asking' /\ Flashing'
<1> USE ConstantFacts
<1>1. pc[a] \in FlashWait /\ UNCHANGED <<handler, device>>
  BY DEF FlashDone, At, FlashWait
<1>2. CASE Block(a, ssi_pcb)
  <2>1. UNCHANGED <<msg_inbox, pc>>
    BY <1>2 DEF Block
  <2> QED BY <1>1, <2>1, AskingOther
<1>3. CASE /\ Take(a, ssi_pcb)
           /\ Goto(a, IF Taken(a, ssi_pcb).op = "error" THEN "trapRelease" ELSE AfterFlash(a))
  <2>1. /\ Note(ssi_pcb, "ok") \in Mail(a) /\ Note(ssi_pcb, "ok") \notin Mail(a)'
        /\ Mail(a)' \subseteq Mail(a) /\ IsInjective(msg_inbox'[a])
        /\ \A q \in Proc \ {a} : msg_inbox'[q] = msg_inbox[q] /\ Mail(q)' = Mail(q)
    BY <1>1, <1>3, FlashAnswer
  <2>2. pc'[a] \notin FlashWait /\ \A q \in Proc \ {a} : pc'[q] = pc[q]
    BY <1>3 DEF Goto, AfterFlash, Shape, Control, FlashWait
  <2>3. /\ Note(a, "doio") \notin Mail(ssi_pcb) /\ pc[a] # "getSupport"
        /\ \A d \in ASID : device[d].who # a
    BY <1>1, <2>1 DEF Flashing, FlashWait
  <2>4. Asking'
    <3>1. \A b \in ASID : Mail(b)' \subseteq Mail(b) /\ IsInjective(msg_inbox'[b])
      BY <2>1 DEF Asking
    <3> QED BY <2>1, <2>2, <2>3, <3>1, AskingQuiet DEF Asking
  <2>5. \A b \in ASID \ {a} : pc'[b] = pc[b] /\ Mail(b)' = Mail(b)
    BY <2>1, <2>2
  <2>6. Flashing'
    BY <1>1, <2>1, <2>2, <2>3, <2>5 DEF Flashing, FlashWait
  <2> QED BY <2>4, <2>6
<1> QED BY <1>2, <1>3 DEF FlashDone

LEMMA AskingUser ==
  ASSUME Shape, Asking, Flashing, NEW a \in ASID, User(a)
  PROVE  Asking' /\ Flashing'
<1> USE ConstantFacts
<1>0. "user" # "getSupport" /\ "user" \notin FlashWait /\ "askSupport" \notin FlashWait
  BY DEF FlashWait
<1>1. CASE Write(a) \/ Refill(a)
  BY <1>1, AskingOther DEF Write, Refill
<1>2. CASE Fault(a)
  <2>1. /\ pc[a] = "user" /\ pc'[a] = "askSupport" /\ \A q \in Proc \ {a} : pc'[q] = pc[q]
        /\ UNCHANGED <<msg_inbox, frame, do_io, device>>
        /\ \A b \in ASID \ {a} : missing'[b] = missing[b]
    BY <1>2 DEF Fault, MayTouch, At, Goto, Shape, Control, Handling
  <2>2. \A p \in Proc : Mail(p)' = Mail(p)
    BY <2>1, SameMail DEF Shape
  <2>3. Asking'
    BY <2>1, <2>2, AskingQuiet DEF Asking
  <2>4. Flashing'
    BY <1>0, <2>1, <2>2, FlashingQuiet
  <2> QED BY <2>3, <2>4
<1>3. CASE Quit(a)
  <2>1. Note(a, "terminate") \in Letters(sst_pcb[a]) /\ At(a, "user")
        /\ Send(msg_inbox, a, "terminate", sst_pcb[a]) /\ UNCHANGED <<handler, device>>
    BY <1>3 DEF Quit, Note, Letters, Message
  <2>2. pc' = [pc EXCEPT ![a] = "user"]
    BY <1>3 DEF Quit, At, Shape, Control
  <2> QED BY <1>0, <2>1, <2>2, AskingTell
<1>4. CASE AwaitEnd(a)
  BY <1>0, <1>4, AskingReceive DEF AwaitEnd
<1> QED BY <1>1, <1>2, <1>3, <1>4 DEF User

LEMMA AskingHandler ==
  ASSUME Shape, Asking, Flashing, NEW a \in ASID, Handler(a)
  PROVE  Asking' /\ Flashing'
<1> USE ConstantFacts, UserLetters
<1>0. /\ {"select", "check", "invalidate", "claim", "map"} \subseteq Critical \ FlashWait
      /\ {"check", "askWrite", "askRead", "invalidate", "map", "release"}
           \subseteq UserPc \ FlashWait
      /\ {"askMutex", "getMutex", "release", "user", "select"} \cap FlashWait = {}
  BY UserSteppers DEF Critical, FlashWait
<1>1. CASE AskSupport(a) \/ GetSupport(a) \/ FlashDone(a) \/ AskWrite(a) \/ AskRead(a)
  BY <1>1, AskingSupport, AskingGetSupport, AskingFlashDone, AskingFlashDev
<1>2. CASE AskMutex(a)
  BY <1>0, <1>2, AskingTell DEF AskMutex, Tell, Goto
<1>3. CASE Release(a)
  BY <1>0, <1>3, AskingTell DEF Release, Tell, Goto
<1>4. CASE GetMutex(a)
  BY <1>0, <1>4, AskingReceive DEF GetMutex
<1>5. CASE SelectFrame(a) \/ CheckFrame(a) \/ Invalidate(a) \/ Claim(a) \/ Map(a)
  <2>1. \E l \in Critical \ FlashWait, l2 \in UserPc \ FlashWait : Internal(a, l, l2)
    BY <1>0, <1>5 DEF SelectFrame, CheckFrame, Invalidate, Claim, Map
  <2>2. \A b \in ASID \ {a} : frame'[b] = frame[b]
    BY <1>5, SelectFrameFacts DEF CheckFrame, Invalidate, Claim, Map
  <2> QED BY <2>1, <2>2, AskingInternal
<1>6. CASE TrapRelease(a) \/ TrapAsk(a) \/ TrapGet(a) \/ TrapTell(a)
  <2>1. pc[a] \in UserPc
    BY DEF Shape, Control
  <2> QED BY <1>6, <2>1 DEF TrapRelease, TrapAsk, TrapGet, TrapTell, Tell, Receive, At, UserPc
<1> QED BY <1>1, <1>2, <1>3, <1>4, <1>5, <1>6 DEF Handler

LEMMA AskingMutex ==
  ASSUME Shape, Locking, Asking, Flashing, SwapMutex
  PROVE  Asking' /\ Flashing'
<1> USE ConstantFacts
<1>0. UNCHANGED <<handler, device>> /\ \A q \in Proc \ {swap_pcb} : pc'[q] = pc[q]
  BY DEF SwapMutex, MutexAny, MutexGive, MutexWait, Tell, Receive, Goto, Block, Shape, Control
<1>1. CASE MutexGive
  <2>1. PICK c \in ASID : c = client
    BY <1>1 DEF MutexGive, Tell, At, Shape, Control
  <2>2. Send(msg_inbox, swap_pcb, "grant", c) /\ pc[swap_pcb] = "give"
    BY <1>1, <2>1 DEF MutexGive, Tell, At
  <2>3. /\ \A q \in Proc \ {c} : Mail(q)' = Mail(q) /\ msg_inbox'[q] = msg_inbox[q]
        /\ Mail(c)' \subseteq Mail(c) \cup {Note(swap_pcb, "grant")}
        /\ IsInjective(msg_inbox[c]) /\ Note(swap_pcb, "grant") \notin Mail(c)
           => IsInjective(msg_inbox'[c])
    BY <2>2, TellMail, UserLetters
  <2>4. Note(swap_pcb, "grant") \notin Mail(c)
    BY <2>2 DEF Locking, Granted, Waited
  <2>5. \A b \in ASID : IsInjective(msg_inbox'[b])
    BY <2>3, <2>4 DEF Asking
  <2>6. \A b \in ASID : /\ Note(ssi_pcb, "answer") \in Mail(b)' => Note(ssi_pcb, "answer") \in Mail(b)
                        /\ Note(ssi_pcb, "ok") \in Mail(b)' => Note(ssi_pcb, "ok") \in Mail(b)
    BY <2>3, Notes
  <2>7. Mail(ssi_pcb)' = Mail(ssi_pcb) /\ IsInjective(msg_inbox'[ssi_pcb])
    BY <2>3 DEF Asking
  <2>8. \A b \in ASID : pc'[b] = pc[b] /\ pc'[sst_pcb[b]] = pc[sst_pcb[b]]
    BY <1>0
  <2>9. Asking'
    BY <2>5, <2>6, <2>7, <2>8, AskingQuiet
  <2>10. device' = device /\ missing' = missing /\ frame' = frame /\ do_io' = do_io
    BY <1>0
  <2>11. Flashing'
    BY <2>6, <2>7, <2>8, <2>10, FlashingQuiet
  <2> QED BY <2>9, <2>11
<1>2. CASE MutexAny \/ MutexWait
  <2>1. \A q \in Proc \ {swap_pcb} : msg_inbox'[q] = msg_inbox[q] /\ Mail(q)' = Mail(q)
    <3>1. (\E p : Block(swap_pcb, p)) \/ (\E p : Take(swap_pcb, p))
      BY <1>2 DEF MutexAny, MutexWait, Receive
    <3>2. CASE \E p : Block(swap_pcb, p)
      BY <3>2 DEF Block, Mail
    <3>3. CASE \E p : Take(swap_pcb, p)
      BY <3>3, TakeMail
    <3> QED BY <3>1, <3>2, <3>3
  <2>2. /\ \A b \in ASID : /\ pc'[b] = pc[b] /\ pc'[sst_pcb[b]] = pc[sst_pcb[b]]
                           /\ Mail(b)' = Mail(b) /\ IsInjective(msg_inbox'[b])
        /\ Mail(ssi_pcb)' = Mail(ssi_pcb) /\ IsInjective(msg_inbox'[ssi_pcb])
    BY <1>0, <2>1 DEF Asking
  <2>3. Asking'
    BY <2>2, AskingQuiet
  <2>4. Flashing'
    BY <1>0, <2>2, FlashingQuiet
  <2> QED BY <2>3, <2>4
<1> QED BY <1>1, <1>2 DEF SwapMutex

LEMMA AskingSst ==
  ASSUME Shape, Asking, Flashing, NEW a \in ASID, SstStep(a)
  PROVE  Asking' /\ Flashing'
<1> USE ConstantFacts
<1>0. UNCHANGED <<handler, device>> /\ \A q \in Proc \ {sst_pcb[a]} : pc'[q] = pc[q]
  BY DEF SstStep, Serve, Scan, Clear, Suicide, Tell, Receive, Goto, Block, Shape, Control
<1>1. CASE Tell(sst_pcb[a], "suicide", "kill", ssi_pcb, "dying")
  <2>1. /\ Send(msg_inbox, sst_pcb[a], "kill", ssi_pcb) /\ pc[sst_pcb[a]] = "suicide"
        /\ pc'[sst_pcb[a]] = "dying"
    BY <1>1 DEF Tell, At, Goto, Shape, Control
  <2>2. /\ \A q \in Proc \ {ssi_pcb} : msg_inbox'[q] = msg_inbox[q] /\ Mail(q)' = Mail(q)
        /\ Mail(ssi_pcb)' \subseteq Mail(ssi_pcb) \cup {Note(sst_pcb[a], "kill")}
        /\ IsInjective(msg_inbox[ssi_pcb]) /\ Note(sst_pcb[a], "kill") \notin Mail(ssi_pcb)
           => IsInjective(msg_inbox'[ssi_pcb])
    BY <2>1, TellMail, UserLetters
  <2>3. Note(sst_pcb[a], "kill") \notin Mail(ssi_pcb)
    BY <2>1 DEF Asking
  <2>4. \A b \in ASID : /\ Note(b, "support") \in Mail(ssi_pcb)' => Note(b, "support") \in Mail(ssi_pcb)
                        /\ Note(b, "doio") \in Mail(ssi_pcb)' => Note(b, "doio") \in Mail(ssi_pcb)
    BY <2>2, Notes
  <2>5. \A b \in ASID : Note(sst_pcb[b], "kill") \in Mail(ssi_pcb)' => pc'[sst_pcb[b]] = "dying"
    <3> SUFFICES ASSUME NEW b \in ASID, Note(sst_pcb[b], "kill") \in Mail(ssi_pcb)'
        PROVE pc'[sst_pcb[b]] = "dying"
      OBVIOUS
    <3>1. CASE b = a
      BY <2>1, <3>1
    <3>2. CASE b # a
      <4>1. Note(sst_pcb[b], "kill") \in Mail(ssi_pcb)
        BY <2>2, <3>2, Notes
      <4>2. pc[sst_pcb[b]] = "dying"
        BY <4>1 DEF Asking
      <4> QED BY <1>0, <3>2, <4>2
    <3> QED BY <3>1, <3>2
  <2>6. \A b \in ASID : pc'[b] = pc[b] /\ Mail(b)' = Mail(b) /\ msg_inbox'[b] = msg_inbox[b]
    BY <1>0, <2>2
  <2>7. /\ IsInjective(msg_inbox'[ssi_pcb]) /\ \A b \in ASID : IsInjective(msg_inbox'[b])
        /\ \A b \in ASID :
             /\ Note(b, "support") \in Mail(ssi_pcb)' =>
                  pc'[b] = "getSupport" /\ Note(ssi_pcb, "answer") \notin Mail(b)'
             /\ Note(ssi_pcb, "answer") \in Mail(b)' => pc'[b] = "getSupport"
    BY <2>2, <2>3, <2>4, <2>6 DEF Asking
  <2>8. Asking'
    BY <2>5, <2>7 DEF Asking
  <2>9. device' = device /\ missing' = missing /\ frame' = frame /\ do_io' = do_io
    BY <1>0
  <2>10. Flashing'
    BY <2>4, <2>6, <2>9, FlashingQuiet
  <2> QED BY <2>8, <2>10
<1>2. CASE ~Tell(sst_pcb[a], "suicide", "kill", ssi_pcb, "dying")
  <2>1. /\ \A q \in Proc \ {sst_pcb[a]} : msg_inbox'[q] = msg_inbox[q] /\ Mail(q)' = Mail(q)
        /\ pc[sst_pcb[a]] = "dying" => pc'[sst_pcb[a]] = "dying"
    <3>1. CASE Scan(a) \/ Clear(a)
      BY <3>1 DEF Scan, Clear, Mail, At
    <3>2. CASE Serve(a) \/ Receive(sst_pcb[a], "dying", ssi_pcb, "dying")
      <4>1. \/ \E p : Block(sst_pcb[a], p)
            \/ (\E p : Take(sst_pcb[a], p))
               /\ (pc[sst_pcb[a]] = "dying" => pc'[sst_pcb[a]] = "dying")
        BY <3>2 DEF Serve, Receive, At, Goto, Shape, Control
      <4>2. CASE \E p : Block(sst_pcb[a], p)
        BY <4>2 DEF Block, Mail
      <4>3. (\E p : Take(sst_pcb[a], p)) =>
              \A q \in Proc \ {sst_pcb[a]} : msg_inbox'[q] = msg_inbox[q] /\ Mail(q)' = Mail(q)
        BY TakeMail
      <4> QED BY <4>1, <4>2, <4>3
    <3> QED BY <1>2, <3>1, <3>2 DEF SstStep, Suicide
  <2>2. \A b \in ASID : pc[sst_pcb[b]] = "dying" => pc'[sst_pcb[b]] = "dying"
    BY <1>0, <2>1
  <2>3. /\ \A b \in ASID : /\ pc'[b] = pc[b] /\ Mail(b)' = Mail(b) /\ IsInjective(msg_inbox'[b])
        /\ Mail(ssi_pcb)' = Mail(ssi_pcb) /\ IsInjective(msg_inbox'[ssi_pcb])
    BY <1>0, <2>1 DEF Asking
  <2>4. Asking'
    BY <2>2, <2>3, AskingQuiet
  <2>5. Flashing'
    BY <1>0, <2>3, FlashingQuiet
  <2> QED BY <2>4, <2>5
<1> QED BY <1>1, <1>2

LEMMA AskingSsi ==
  ASSUME Shape, Asking, Flashing, Ssi
  PROVE  Asking' /\ Flashing'
<1> USE ConstantFacts
<1>0. UNCHANGED handler /\ UNCHANGED pc
  BY DEF Ssi, SsiBlock, SsiSupport, SsiDoIO, SsiKill, Kill, Block
<1>1. CASE SsiBlock
  BY <1>0, <1>1, AskingOther DEF SsiBlock, Block
<1>2. CASE SsiSupport
  <2>1. PICK a \in ASID :
          /\ Note(a, "support") \in Mail(ssi_pcb)
          /\ \A q \in Proc \ {a, ssi_pcb} : msg_inbox'[q] = msg_inbox[q] /\ Mail(q)' = Mail(q)
          /\ Mail(ssi_pcb)' \subseteq Mail(ssi_pcb)
          /\ IsInjective(msg_inbox[ssi_pcb]) =>
               IsInjective(msg_inbox'[ssi_pcb]) /\ Note(a, "support") \notin Mail(ssi_pcb)'
          /\ Mail(a)' \subseteq Mail(a) \cup {Note(ssi_pcb, "answer")}
          /\ IsInjective(msg_inbox[a]) /\ Note(ssi_pcb, "answer") \notin Mail(a)
             => IsInjective(msg_inbox'[a])
    BY <1>2, SupportMail
  <2>2. pc[a] = "getSupport" /\ Note(ssi_pcb, "answer") \notin Mail(a)
    BY <2>1 DEF Asking
  <2>3. \A b \in ASID : Note(ssi_pcb, "answer") \in Mail(b)' =>
          b = a \/ Note(ssi_pcb, "answer") \in Mail(b)
    BY <2>1
  <2>4. \A b \in ASID : Note(ssi_pcb, "ok") \in Mail(b)' => Note(ssi_pcb, "ok") \in Mail(b)
    BY <2>1, Notes
  <2>5. Asking'
    BY <1>0, <2>1, <2>2, <2>3 DEF Asking
  <2>6. Flashing'
    BY <1>0, <1>2, <2>1, <2>4, FlashingQuiet DEF SsiSupport
  <2> QED BY <2>5, <2>6
<1>3. CASE SsiDoIO
  <2>1. PICK a \in ASID :
          /\ a = sender /\ Note(a, "doio") \in Mail(ssi_pcb)
          /\ \A q \in Proc \ {ssi_pcb} : msg_inbox'[q] = msg_inbox[q] /\ Mail(q)' = Mail(q)
          /\ Mail(ssi_pcb)' \subseteq Mail(ssi_pcb)
          /\ IsInjective(msg_inbox[ssi_pcb]) =>
               IsInjective(msg_inbox'[ssi_pcb]) /\ Note(a, "doio") \notin Mail(ssi_pcb)'
    BY <1>3, DoIOMail
  <2>2. /\ pc[a] \in FlashWait /\ Note(ssi_pcb, "ok") \notin Mail(a)
        /\ \A d \in ASID : device[d].who # a
    BY <2>1 DEF Flashing
  <2>3. Asking'
    BY <1>0, <2>1, AskingQuiet DEF Asking
  <2>4. /\ do_io[a].asid = NOPROC => device' = device
        /\ do_io[a].asid # NOPROC =>
             device' = [device EXCEPT ![do_io[a].asid] =
                          [cmd |-> do_io[a].cmd, page |-> do_io[a].page, frame |-> frame[a],
                           who |-> a]]
    BY <1>3, <2>1 DEF SsiDoIO
  <2>5. \A d \in ASID : \/ device'[d] = device[d]
                        \/ /\ d = do_io[a].asid
                          /\ device'[d] = [cmd |-> do_io[a].cmd, page |-> do_io[a].page,
                                           frame |-> frame[a], who |-> a]
    BY <2>4 DEF Shape, Devices
  <2>6. \A b \in ASID : Mail(b)' = Mail(b)
    BY <2>1
  <2>7. Note(a, "doio") \notin Mail(ssi_pcb)'
    BY <2>1 DEF Asking
  <2>8. ASSUME NEW b \in ASID, NEW d \in ASID, device'[d].who = b
        PROVE  /\ pc'[b] \in FlashWait /\ Note(b, "doio") \notin Mail(ssi_pcb)'
               /\ Note(ssi_pcb, "ok") \notin Mail(b)'
               /\ d = do_io'[b].asid /\ device'[d].cmd = do_io'[b].cmd
               /\ device'[d].page = do_io'[b].page /\ device'[d].frame = frame'[b]
    <3>1. CASE device'[d] = device[d]
      <4>1. /\ pc[b] \in FlashWait /\ Note(b, "doio") \notin Mail(ssi_pcb)
            /\ Note(ssi_pcb, "ok") \notin Mail(b)
            /\ d = do_io[b].asid /\ device[d].cmd = do_io[b].cmd
            /\ device[d].page = do_io[b].page /\ device[d].frame = frame[b]
        BY ZenonT(30), <2>8, <3>1 DEF Flashing
      <4> QED BY <1>0, <2>1, <2>6, <3>1, <4>1
    <3>2. CASE /\ d = do_io[a].asid
               /\ device'[d] = [cmd |-> do_io[a].cmd, page |-> do_io[a].page,
                                frame |-> frame[a], who |-> a]
      <4>1. b = a
        BY <2>8, <3>2
      <4> QED BY <1>0, <2>2, <2>6, <2>7, <3>2, <4>1
    <3> QED BY <2>5, <3>1, <3>2
  <2>9. \A b \in ASID :
          /\ pc[b] = "getWrite" => do_io[b].cmd = "write"
          /\ pc[b] = "getRead" => do_io[b] = [asid |-> b, cmd |-> "read", page |-> missing[b]]
          /\ Note(b, "doio") \in Mail(ssi_pcb)' => pc[b] \in FlashWait
          /\ Note(ssi_pcb, "ok") \in Mail(b)' =>
               pc[b] \in FlashWait /\ Note(b, "doio") \notin Mail(ssi_pcb)'
    BY <2>1, <2>6 DEF Flashing
  <2>10. Flashing'
    BY <1>0, <2>8, <2>9, FlashingParts
  <2> QED BY <2>3, <2>10
<1>4. CASE SsiKill
  <2>1. /\ \A q \in Proc : Mail(q)' \subseteq Mail(q)
        /\ \A q \in Proc : IsInjective(msg_inbox[q]) => IsInjective(msg_inbox'[q])
    BY <1>4, KillMail
  <2>2. Asking'
    BY <1>0, <2>1, AskingQuiet DEF Asking
  <2>0. PICK c \in ASID : Kill(c)
    BY <1>4 DEF SsiKill
  <2>3. PICK s : device' = [d \in ASID |-> IF device[d].who \in {c, s}
                                   THEN [device[d] EXCEPT !.who = NULL] ELSE device[d]]
    BY <2>0 DEF Kill
  <2>4. ASSUME NEW d \in ASID, NEW a \in ASID, device'[d].who = a
        PROVE  device'[d] = device[d]
    <3>1. CASE device[d].who \in {c, s}
      <4>1. device'[d] = [device[d] EXCEPT !.who = NULL]
        BY <2>3, <3>1
      <4>2. device'[d].who = NULL
        BY <4>1 DEF Shape, Devices
      <4> QED BY <2>4, <4>2
    <3>2. CASE device[d].who \notin {c, s}
      BY <2>3, <3>2
    <3> QED BY <3>1, <3>2
  <2>5. Flashing'
    BY <1>0, <2>1, <2>4, FlashingQuiet
  <2> QED BY <2>2, <2>5
<1> QED BY <1>1, <1>2, <1>3, <1>4 DEF Ssi

LEMMA AskingFlash ==
  ASSUME Shape, Faulty = {}, Asking, Flashing, NEW d \in ASID, FlashInterrupt(d)
  PROVE  Asking' /\ Flashing'
<1> USE ConstantFacts
<1>1. UNCHANGED <<handler, pc>> /\ device' = [device EXCEPT ![d] = Idle]
  BY DEF FlashInterrupt
<1>2. \A e \in ASID \ {d} : device'[e] = device[e]
  BY <1>1 DEF Shape, Devices
<1>3. device'[d].who = NULL
  BY <1>1 DEF Shape, Devices, Idle
<1>4. \A e, a \in ASID : device'[e].who = a => device'[e] = device[e] /\ e # d
  BY <1>2, <1>3
<1>5. CASE UNCHANGED msg_inbox
  <2>1. \A p \in Proc : Mail(p)' = Mail(p)
    BY <1>5, SameMail DEF Shape
  <2>2. Asking'
    BY <1>1, <1>5, <2>1, AskingQuiet DEF Asking
  <2>3. Flashing'
    BY <1>1, <1>4, <2>1, FlashingQuiet
  <2> QED BY <2>2, <2>3
<1>6. CASE ~(UNCHANGED msg_inbox)
  <2>1. PICK w \in ASID :
          /\ device[d].who = w
          /\ \A q \in Proc \ {w} : msg_inbox'[q] = msg_inbox[q] /\ Mail(q)' = Mail(q)
          /\ Mail(w)' = Mail(w) \cup {Note(ssi_pcb, "ok")}
          /\ IsInjective(msg_inbox[w]) /\ Note(ssi_pcb, "ok") \notin Mail(w)
             => IsInjective(msg_inbox'[w])
    BY <1>6, FlashMail
  <2>2. /\ pc[w] \in FlashWait /\ Note(w, "doio") \notin Mail(ssi_pcb)
        /\ Note(ssi_pcb, "ok") \notin Mail(w) /\ d = do_io[w].asid
    BY <2>1 DEF Flashing
  <2>3. \A e \in ASID : device[e].who = w => e = d
    BY <2>2 DEF Flashing
  <2>4. \A b \in ASID : IsInjective(msg_inbox'[b])
    BY <2>1, <2>2 DEF Asking
  <2>5. \A b \in ASID : Note(ssi_pcb, "answer") \in Mail(b)' => Note(ssi_pcb, "answer") \in Mail(b)
    BY <2>1, Notes
  <2>6. Mail(ssi_pcb)' = Mail(ssi_pcb) /\ msg_inbox'[ssi_pcb] = msg_inbox[ssi_pcb]
    BY <2>1
  <2>7. Asking'
    BY <1>1, <2>4, <2>5, <2>6, AskingQuiet DEF Asking
  <2>8. \A b \in ASID : Note(ssi_pcb, "ok") \in Mail(b)' => b = w \/ Note(ssi_pcb, "ok") \in Mail(b)
    BY <2>1
  <2>9. ASSUME NEW e \in ASID, NEW b \in ASID, device'[e].who = b
        PROVE  /\ pc[b] \in FlashWait /\ Note(b, "doio") \notin Mail(ssi_pcb)'
               /\ Note(ssi_pcb, "ok") \notin Mail(b)'
               /\ e = do_io[b].asid /\ device'[e].cmd = do_io[b].cmd
               /\ device'[e].page = do_io[b].page /\ device'[e].frame = frame[b]
    <3>1. device'[e] = device[e] /\ e # d /\ device[e].who = b
      BY <1>4, <2>9
    <3>2. b # w
      BY <2>3, <3>1
    <3>3. Mail(b)' = Mail(b)
      BY <2>1, <3>2
    <3>4. /\ pc[b] \in FlashWait /\ Note(b, "doio") \notin Mail(ssi_pcb)
          /\ Note(ssi_pcb, "ok") \notin Mail(b)
          /\ e = do_io[b].asid /\ device[e].cmd = do_io[b].cmd
          /\ device[e].page = do_io[b].page /\ device[e].frame = frame[b]
      BY ZenonT(30), <3>1 DEF Flashing
    <3> QED BY <2>6, <3>1, <3>3, <3>4
  <2>10. \A b \in ASID :
           /\ pc[b] = "getWrite" => do_io[b].cmd = "write"
           /\ pc[b] = "getRead" => do_io[b] = [asid |-> b, cmd |-> "read", page |-> missing[b]]
           /\ Note(b, "doio") \in Mail(ssi_pcb)' => pc[b] \in FlashWait
           /\ Note(ssi_pcb, "ok") \in Mail(b)' =>
                pc[b] \in FlashWait /\ Note(b, "doio") \notin Mail(ssi_pcb)'
    BY <2>2, <2>6, <2>8 DEF Flashing
  <2>11. Flashing'
    BY <1>1, <2>9, <2>10, FlashingParts
  <2> QED BY <2>7, <2>11
<1> QED BY <1>5, <1>6

LEMMA AskingNext ==
  Shape /\ Locking /\ Asking /\ Flashing /\ Faulty = {} /\ [Next]_vars => Asking' /\ Flashing'
<1> SUFFICES ASSUME Shape, Locking, Asking, Flashing, Faulty = {}, [Next]_vars
    PROVE Asking' /\ Flashing'
  OBVIOUS
<1>1. CASE \E a \in ASID : User(a) \/ Handler(a) \/ SstStep(a) \/ FlashInterrupt(a)
  BY <1>1, AskingUser, AskingHandler, AskingSst, AskingFlash
<1>2. CASE SwapMutex \/ Ssi
  BY <1>2, AskingMutex, AskingSsi
<1>3. CASE (\E p \in Proc : Preempt(p)) \/ UNCHANGED vars
  BY <1>3, AskingOther DEF Preempt, vars
<1> QED BY <1>1, <1>2, <1>3 DEF Next
------------------------------------------------------------------------------
(* What frames and flash blocks hold.                                       *)

\* Nobody is answered by a flash device.
NoNewOk == \A b \in ASID : Note(ssi_pcb, "ok") \in Mail(b)' => Note(ssi_pcb, "ok") \in Mail(b)

LEMMA SendNoOk ==
  ASSUME Shape, NEW p, NEW op, op # "ok", NEW dest \in Proc, Note(p, op) \in Letters(dest),
         Send(msg_inbox, p, op, dest)
  PROVE  NoNewOk
BY TellMail, Notes, ConstantFacts DEF NoNewOk

LEMMA ReceiveNoOk ==
  ASSUME Shape, NEW p \in Proc, NEW from, Block(p, from) \/ Take(p, from)
  PROVE  NoNewOk
<1>1. CASE Block(p, from)
  BY <1>1, ConstantFacts DEF Block, NoNewOk, Mail
<1>2. CASE Take(p, from)
  <2>1. \A q \in Proc : Mail(q)' \subseteq Mail(q)
    BY <1>2, TakeMail
  <2> QED BY <2>1, ConstantFacts DEF NoNewOk
<1> QED BY <1>1, <1>2

LEMMA UserNoOk ==
  ASSUME Shape, NEW a \in ASID, User(a)
  PROVE  NoNewOk
<1> USE ConstantFacts
<1>1. CASE Write(a) \/ Refill(a) \/ Fault(a)
  BY <1>1 DEF Write, Refill, Fault, NoNewOk, Mail
<1>2. CASE Quit(a)
  <2>1. Note(a, "terminate") \in Letters(sst_pcb[a]) /\ Send(msg_inbox, a, "terminate", sst_pcb[a])
    BY <1>2 DEF Quit, Note, Letters, Message
  <2> QED BY <2>1, SendNoOk
<1>3. CASE AwaitEnd(a)
  BY <1>3, ReceiveNoOk DEF AwaitEnd, Receive
<1> QED BY <1>1, <1>2, <1>3 DEF User

LEMMA HandlerNoOk ==
  ASSUME Shape, NEW a \in ASID, Handler(a)
  PROVE  NoNewOk
<1> USE ConstantFacts, UserLetters
<1>1. CASE AskSupport(a) \/ AskMutex(a) \/ Release(a)
  BY <1>1, SendNoOk DEF AskSupport, AskMutex, Release, Tell
<1>2. CASE GetSupport(a) \/ GetMutex(a) \/ FlashDone(a)
  BY <1>2, ReceiveNoOk DEF GetSupport, GetMutex, FlashDone, Receive
<1>3. CASE SelectFrame(a) \/ CheckFrame(a) \/ Invalidate(a) \/ Claim(a) \/ Map(a)
  BY <1>3 DEF SelectFrame, CheckFrame, Invalidate, Claim, Map, Internal, NoNewOk, Mail
<1>4. CASE AskWrite(a) \/ AskRead(a)
  BY <1>4, SendNoOk DEF AskWrite, AskRead, FlashDev
<1>5. CASE TrapRelease(a) \/ TrapAsk(a) \/ TrapGet(a) \/ TrapTell(a)
  <2>1. pc[a] \in UserPc
    BY DEF Shape, Control
  <2> QED BY <1>5, <2>1 DEF TrapRelease, TrapAsk, TrapGet, TrapTell, Tell, Receive, At, UserPc
<1> QED BY <1>1, <1>2, <1>3, <1>4, <1>5 DEF Handler

LEMMA SstNoOk ==
  ASSUME Shape, NEW a \in ASID, SstStep(a)
  PROVE  NoNewOk
<1> USE ConstantFacts, UserLetters
<1>1. CASE Scan(a) \/ Clear(a)
  BY <1>1 DEF Scan, Clear, NoNewOk, Mail
<1>2. CASE Tell(sst_pcb[a], "suicide", "kill", ssi_pcb, "dying")
  BY <1>2, SendNoOk DEF Tell
<1>3. CASE Serve(a) \/ Receive(sst_pcb[a], "dying", ssi_pcb, "dying")
  BY <1>3, ReceiveNoOk DEF Serve, Receive
<1> QED BY <1>1, <1>2, <1>3 DEF SstStep, Suicide

LEMMA MutexNoOk ==
  ASSUME Shape, SwapMutex
  PROVE  NoNewOk
<1> USE ConstantFacts, UserLetters
<1>1. CASE MutexAny \/ MutexWait
  BY <1>1, ReceiveNoOk DEF MutexAny, MutexWait, Receive
<1>2. CASE MutexGive
  <2>1. PICK c \in ASID : c = client
    BY <1>2 DEF MutexGive, Tell, At, Shape, Control
  <2>2. Send(msg_inbox, swap_pcb, "grant", c)
    BY <1>2, <2>1 DEF MutexGive, Tell
  <2> QED BY <2>2, SendNoOk
<1> QED BY <1>1, <1>2 DEF SwapMutex

LEMMA SsiNoOk ==
  ASSUME Shape, Ssi
  PROVE  NoNewOk
<1> USE ConstantFacts
<1>1. CASE SsiBlock
  BY <1>1, ReceiveNoOk DEF SsiBlock
<1>2. CASE SsiSupport
  <2>1. PICK a \in ASID : /\ \A q \in Proc \ {a, ssi_pcb} : Mail(q)' = Mail(q)
                         /\ Mail(a)' \subseteq Mail(a) \cup {Note(ssi_pcb, "answer")}
    BY <1>2, SupportMail
  <2>2. Note(ssi_pcb, "ok") # Note(ssi_pcb, "answer")
    BY Notes
  <2> QED BY <2>1, <2>2 DEF NoNewOk
<1>3. CASE SsiDoIO
  BY <1>3, DoIOMail DEF NoNewOk
<1>4. CASE SsiKill
  <2>1. \A q \in Proc : Mail(q)' \subseteq Mail(q)
    BY <1>4, KillMail
  <2> QED BY <2>1 DEF NoNewOk
<1> QED BY <1>1, <1>2, <1>3, <1>4 DEF Ssi

\* The flash command of a process that waits for a device.
LEMMA Command ==
  ASSUME Flashing, NEW a \in ASID
  PROVE  /\ pc[a] = "getWrite" => do_io[a].cmd = "write"
         /\ pc[a] = "getRead" => /\ do_io[a].asid = a /\ do_io[a].cmd = "read"
                                 /\ do_io[a].page = missing[a]
         /\ pc[a] \in FlashWait => (pc[a] = "getRead" <=> do_io[a].cmd = "read")
<1>1. /\ pc[a] = "getWrite" => do_io[a].cmd = "write"
      /\ pc[a] = "getRead" => do_io[a] = [asid |-> a, cmd |-> "read", page |-> missing[a]]
  BY DEF Flashing
<1>2. pc[a] = "getRead" => /\ do_io[a].asid = a /\ do_io[a].cmd = "read"
                           /\ do_io[a].page = missing[a]
  BY <1>1
<1> QED BY <1>1, <1>2 DEF FlashWait

LEMMA StoredInit == Init => Stored
<1> SUFFICES ASSUME Init PROVE Stored
  OBVIOUS
<1>1. \A p \in Proc : Mail(p) = {}
  BY DEF Init, Mail, ToSet
<1>2. \A a \in ASID : pc[a] = "user" /\ device[a].cmd = "none"
  BY ConstantFacts DEF Init, Idle
<1>3. \A f \in Frame : swap_table[f].asid = NOPROC
  BY DEF Init
<1>4. ram \in [Frame -> Value \cup {NULL}] /\ flash \in [ASID -> [Page -> Value]]
  BY PagerAssumption DEF Init
<1> QED BY <1>1, <1>2, <1>3, <1>4, ConstantFacts DEF Stored

Loaded == {"invalidate", "askWrite", "getWrite", "claim"}

LEMMA StoredParts ==
  ASSUME ram' \in [Frame -> Value \cup {NULL}], flash' \in [ASID -> [Page -> Value]],
         \A f \in Frame : swap_table'[f].asid # NOPROC => ram'[f] \in Value,
         \A a \in ASID : pc'[a] \in Loaded => ram'[frame'[a]] \in Value,
         \A a \in ASID : Note(ssi_pcb, "ok") \in Mail(a)' /\ pc'[a] = "getRead" =>
                           ram'[frame'[a]] \in Value,
         \A d \in ASID : /\ device'[d].cmd = "write" => ram'[device'[d].frame] \in Value
                         /\ device'[d].cmd = "read" => device'[d].page \in Page
  PROVE  Stored'
BY DEF Stored, Loaded, Note

\* A step that moves no page and looks at none.
LEMMA StoredQuiet ==
  ASSUME Stored, NoNewOk, UNCHANGED <<ram, flash>>,
         \A f \in Frame : swap_table'[f].asid # NOPROC => swap_table[f].asid # NOPROC,
         \A a \in ASID : pc'[a] \in Loaded => pc[a] \in Loaded /\ frame'[a] = frame[a],
         \A a \in ASID : pc'[a] = "getRead" => pc[a] = "getRead" /\ frame'[a] = frame[a],
         \A d \in ASID : /\ device'[d].cmd = device[d].cmd /\ device'[d].frame = device[d].frame
                         /\ device'[d].page = device[d].page
  PROVE  Stored'
<1>1. ram' \in [Frame -> Value \cup {NULL}] /\ flash' \in [ASID -> [Page -> Value]]
  BY DEF Stored
<1>2. \A f \in Frame : swap_table'[f].asid # NOPROC => ram'[f] \in Value
  BY DEF Stored
<1>3. \A a \in ASID : pc'[a] \in Loaded => ram'[frame'[a]] \in Value
  BY DEF Stored, Loaded
<1>4. \A a \in ASID : Note(ssi_pcb, "ok") \in Mail(a)' /\ pc'[a] = "getRead" =>
                        ram'[frame'[a]] \in Value
  BY DEF Stored, NoNewOk
<1>5. \A d \in ASID : /\ device'[d].cmd = "write" => ram'[device'[d].frame] \in Value
                      /\ device'[d].cmd = "read" => device'[d].page \in Page
  BY DEF Stored
<1> QED BY <1>1, <1>2, <1>3, <1>4, <1>5, StoredParts

LEMMA StoredUser ==
  ASSUME Shape, Stored, NEW a \in ASID, User(a)
  PROVE  Stored'
<1> USE ConstantFacts
<1>0. NoNewOk /\ UNCHANGED <<frame, swap_table, flash, device>>
  BY UserNoOk DEF User, Write, Refill, Fault, Quit, AwaitEnd, Receive
<1>1. CASE Write(a)
  <2>1. PICK f \in Frame, v \in Value : ram' = [ram EXCEPT ![f] = v]
    BY <1>1 DEF Write
  <2>2. /\ ram' \in [Frame -> Value \cup {NULL}]
        /\ \A g \in Frame : ram[g] \in Value => ram'[g] \in Value
    BY <2>1 DEF Stored
  <2>3. pc' = pc /\ \A b \in ASID : frame[b] \in Frame /\ device[b].frame \in Frame
    BY <1>1 DEF Write, Shape, Handling, Devices
  <2>4. \A b \in ASID : pc'[b] \in Loaded => ram'[frame'[b]] \in Value
    BY <1>0, <2>2, <2>3 DEF Stored, Loaded
  <2>5. \A b \in ASID : Note(ssi_pcb, "ok") \in Mail(b)' /\ pc'[b] = "getRead" =>
                          ram'[frame'[b]] \in Value
    BY <1>0, <2>2, <2>3 DEF Stored, NoNewOk
  <2>6. \A d \in ASID : /\ device'[d].cmd = "write" => ram'[device'[d].frame] \in Value
                        /\ device'[d].cmd = "read" => device'[d].page \in Page
    BY <1>0, <2>2, <2>3 DEF Stored
  <2>7. flash' \in [ASID -> [Page -> Value]]
        /\ \A f1 \in Frame : swap_table'[f1].asid # NOPROC => ram'[f1] \in Value
    BY <1>0, <2>2 DEF Stored
  <2> QED BY <2>2, <2>4, <2>5, <2>6, <2>7, StoredParts
<1>2. CASE Refill(a) \/ Fault(a) \/ Quit(a) \/ AwaitEnd(a)
  <2>1. UNCHANGED ram
    BY <1>2 DEF Refill, Fault, Quit, AwaitEnd, Receive
  <2>2. \A b \in ASID : pc'[b] = pc[b] \/ pc'[b] \in {"askSupport", "user"}
    BY <1>2 DEF Refill, Fault, Quit, AwaitEnd, Receive, Block, Goto, Shape, Control
  <2> QED BY <1>0, <2>1, <2>2, StoredQuiet DEF Loaded
<1> QED BY <1>1, <1>2 DEF User

LEMMA StoredHandler ==
  ASSUME Shape, Asking, Flashing, Stored, NEW a \in ASID, Handler(a)
  PROVE  Stored'
<1> USE ConstantFacts
<1>0. NoNewOk /\ UNCHANGED <<ram, flash, device>>
  <2>1. UNCHANGED <<ram, flash, device>>
    BY DEF Handler, AskSupport, GetSupport, AskMutex, GetMutex, SelectFrame, CheckFrame,
           Invalidate, AskWrite, AskRead, FlashDone, TrapRelease, TrapAsk, TrapGet, TrapTell,
           Claim, Map, Release, Tell, Receive, Internal, FlashDev
  <2> QED BY <2>1, HandlerNoOk
<1>1. CASE AskSupport(a) \/ AskMutex(a) \/ Release(a)
  <2>1. \A b \in ASID : pc'[b] = pc[b] \/ pc'[b] \in {"getSupport", "getMutex", "user"}
    BY <1>1 DEF AskSupport, AskMutex, Release, Tell, Goto, Shape, Control
  <2>2. UNCHANGED <<frame, swap_table>>
    BY <1>1 DEF AskSupport, AskMutex, Release, Tell
  <2> QED BY <1>0, <2>1, <2>2, StoredQuiet DEF Loaded
<1>2. CASE GetSupport(a) \/ GetMutex(a)
  <2>1. \A b \in ASID : pc'[b] = pc[b] \/ pc'[b] \in {"askMutex", "select"}
    BY <1>2 DEF GetSupport, GetMutex, Receive, Block, Goto, Shape, Control
  <2>2. UNCHANGED <<frame, swap_table>>
    BY <1>2 DEF GetSupport, GetMutex, Receive
  <2> QED BY <1>0, <2>1, <2>2, StoredQuiet DEF Loaded
<1>3. CASE SelectFrame(a)
  <2>1. pc'[a] = "check" /\ \A b \in ASID \ {a} : pc'[b] = pc[b] /\ frame'[b] = frame[b]
    BY <1>3, SelectFrameFacts DEF SelectFrame, Internal, Goto, Shape, Control
  <2>2. UNCHANGED swap_table
    BY <1>3 DEF SelectFrame
  <2> QED BY <1>0, <2>1, <2>2, StoredQuiet DEF Loaded
<1>4. CASE CheckFrame(a)
  <2>1. /\ pc'[a] = IF frame[a] \in Unoccupied THEN "askRead" ELSE "invalidate"
        /\ \A b \in ASID \ {a} : pc'[b] = pc[b]
        /\ UNCHANGED <<frame, swap_table>>
    BY <1>4 DEF CheckFrame, Internal, Goto, Shape, Control
  <2>2. frame[a] \in Frame
    BY DEF Shape, Handling
  <2>3. pc'[a] = "invalidate" => ram[frame[a]] \in Value
    BY <2>1, <2>2 DEF Unoccupied, Stored
  <2>4. \A b \in ASID : pc'[b] \in Loaded => ram'[frame'[b]] \in Value
    BY <1>0, <2>1, <2>3 DEF Stored, Loaded
  <2>5. \A b \in ASID : Note(ssi_pcb, "ok") \in Mail(b)' /\ pc'[b] = "getRead" =>
                          ram'[frame'[b]] \in Value
    BY <1>0, <2>1 DEF Stored, NoNewOk
  <2> QED BY <1>0, <2>1, <2>4, <2>5, StoredParts DEF Stored
<1>5. CASE Invalidate(a)
  <2>1. /\ pc[a] = "invalidate" /\ pc'[a] = "askWrite"
        /\ \A b \in ASID \ {a} : pc'[b] = pc[b]
        /\ UNCHANGED <<frame, swap_table>>
    BY <1>5 DEF Invalidate, Internal, At, Goto, Shape, Control
  <2> QED BY <1>0, <2>1, StoredQuiet DEF Loaded
<1>6. CASE AskWrite(a)
  <2>1. /\ pc[a] = "askWrite" /\ pc'[a] = "getWrite"
        /\ \A b \in ASID \ {a} : pc'[b] = pc[b]
        /\ UNCHANGED <<frame, swap_table>>
    BY <1>6 DEF AskWrite, FlashDev, At, Goto, Shape, Control
  <2> QED BY <1>0, <2>1, StoredQuiet DEF Loaded
<1>7. CASE AskRead(a)
  <2>1. /\ pc[a] = "askRead" /\ pc'[a] = "getRead"
        /\ \A b \in ASID \ {a} : pc'[b] = pc[b]
        /\ UNCHANGED <<frame, swap_table>>
    BY <1>7 DEF AskRead, FlashDev, At, Goto, Shape, Control
  <2>2. Note(ssi_pcb, "ok") \notin Mail(a)
    BY <2>1 DEF Flashing, FlashWait
  <2>3. \A b \in ASID : pc'[b] \in Loaded => ram'[frame'[b]] \in Value
    BY <1>0, <2>1 DEF Stored, Loaded
  <2>4. \A b \in ASID : Note(ssi_pcb, "ok") \in Mail(b)' /\ pc'[b] = "getRead" =>
                          ram'[frame'[b]] \in Value
    BY <1>0, <2>1, <2>2 DEF Stored, NoNewOk
  <2> QED BY <1>0, <2>1, <2>3, <2>4, StoredParts DEF Stored
<1>8. CASE FlashDone(a)
  <2>0. pc[a] \in FlashWait /\ UNCHANGED <<frame, swap_table>>
    BY <1>8 DEF FlashDone, At, FlashWait
  <2>1. CASE Block(a, ssi_pcb)
    <3>1. UNCHANGED pc
      BY <2>1 DEF Block
    <3> QED BY <1>0, <2>0, <3>1, StoredQuiet
  <2>2. CASE /\ Take(a, ssi_pcb)
             /\ Goto(a, IF Taken(a, ssi_pcb).op = "error" THEN "trapRelease" ELSE AfterFlash(a))
    <3>1. Note(ssi_pcb, "ok") \in Mail(a)
      BY <2>0, <2>2, FlashAnswer
    <3>2. /\ pc'[a] # "claim" => pc'[a] \notin Loaded
          /\ pc'[a] = "claim" => do_io[a].cmd # "write"
          /\ pc'[a] # "getRead"
          /\ \A b \in ASID \ {a} : pc'[b] = pc[b]
      BY <2>2 DEF Goto, AfterFlash, Loaded, Shape, Control
    <3>3. pc'[a] = "claim" => ram[frame[a]] \in Value
      BY <2>0, <3>1, <3>2 DEF FlashWait, Flashing, Stored
    <3>4. \A b \in ASID : pc'[b] \in Loaded => ram'[frame'[b]] \in Value
      BY <1>0, <2>0, <3>2, <3>3 DEF Stored, Loaded
    <3>5. \A b \in ASID : Note(ssi_pcb, "ok") \in Mail(b)' /\ pc'[b] = "getRead" =>
                            ram'[frame'[b]] \in Value
      BY <1>0, <2>0, <3>2 DEF Stored, NoNewOk
    <3> QED BY <1>0, <2>0, <3>4, <3>5, StoredParts DEF Stored
  <2> QED BY <1>8, <2>1, <2>2 DEF FlashDone
<1>9. CASE TrapRelease(a) \/ TrapAsk(a) \/ TrapGet(a) \/ TrapTell(a)
  <2>1. pc[a] \in UserPc
    BY DEF Shape, Control
  <2> QED BY <1>9, <2>1 DEF TrapRelease, TrapAsk, TrapGet, TrapTell, Tell, Receive, At, UserPc
<1>10. CASE Claim(a)
  <2>1. /\ pc[a] = "claim" /\ pc'[a] = "map"
        /\ \A b \in ASID \ {a} : pc'[b] = pc[b]
        /\ UNCHANGED frame
        /\ \A f \in Frame \ {frame[a]} : swap_table'[f] = swap_table[f]
    BY <1>10 DEF Claim, Internal, At, Goto, Shape, Control, Translation
  <2>2. ram[frame[a]] \in Value
    BY <2>1 DEF Stored
  <2>3. \A f \in Frame : swap_table'[f].asid # NOPROC => ram'[f] \in Value
    BY <1>0, <2>1, <2>2 DEF Stored
  <2>4. \A b \in ASID : pc'[b] \in Loaded => ram'[frame'[b]] \in Value
    BY <1>0, <2>1 DEF Stored, Loaded
  <2>5. \A b \in ASID : Note(ssi_pcb, "ok") \in Mail(b)' /\ pc'[b] = "getRead" =>
                          ram'[frame'[b]] \in Value
    BY <1>0, <2>1 DEF Stored, NoNewOk
  <2> QED BY <1>0, <2>3, <2>4, <2>5, StoredParts DEF Stored
<1>11. CASE Map(a)
  <2>1. /\ pc'[a] = "release" /\ \A b \in ASID \ {a} : pc'[b] = pc[b]
        /\ UNCHANGED <<frame, swap_table>>
    BY <1>11 DEF Map, Internal, Goto, Shape, Control
  <2> QED BY <1>0, <2>1, StoredQuiet DEF Loaded
<1> QED BY <1>1, <1>2, <1>3, <1>4, <1>5, <1>6, <1>7, <1>8, <1>9, <1>10, <1>11 DEF Handler

LEMMA StoredSst ==
  ASSUME Shape, Stored, NEW a \in ASID, SstStep(a)
  PROVE  Stored'
<1> USE ConstantFacts
<1>1. NoNewOk /\ UNCHANGED <<frame, ram, flash, device>> /\ \A b \in ASID : pc'[b] = pc[b]
  BY SstNoOk DEF SstStep, Serve, Scan, Clear, Suicide, Tell, Receive, Block, Goto, Shape, Control
<1>2. \A f \in Frame : swap_table'[f].asid # NOPROC => swap_table[f].asid # NOPROC
  <2>1. CASE Clear(a)
    <3>1. scan[a] \in Frame
      BY <2>1 DEF Clear, At, Shape, Handling, Frame
    <3>2. \A f \in Frame : swap_table'[f] = swap_table[f] \/ swap_table'[f].asid = NOPROC
      BY <2>1, <3>1 DEF Clear, Shape, Translation
    <3> QED BY <3>2
  <2>2. CASE Serve(a) \/ Scan(a) \/ Suicide(a)
    BY <2>2 DEF Serve, Scan, Suicide, Tell, Receive
  <2> QED BY <2>1, <2>2 DEF SstStep
<1> QED BY <1>1, <1>2, StoredQuiet

LEMMA StoredSsi ==
  ASSUME Shape, Asking, Flashing, Stored, Ssi
  PROVE  Stored'
<1> USE ConstantFacts
<1>1. NoNewOk /\ UNCHANGED <<pc, frame, do_io, swap_table, ram, flash>>
  BY SsiNoOk DEF Ssi, SsiBlock, SsiSupport, SsiDoIO, SsiKill, Kill, Block
<1>2. CASE SsiBlock \/ SsiSupport
  BY <1>1, <1>2, StoredQuiet DEF SsiBlock, SsiSupport
<1>3. CASE SsiKill
  <2>1. PICK c \in ASID : Kill(c)
    BY <1>3 DEF SsiKill
  <2>2. \A d \in ASID : device'[d] = device[d] \/ device'[d] = [device[d] EXCEPT !.who = NULL]
    BY <2>1 DEF Kill
  <2>3. \A d \in ASID : /\ device'[d].cmd = device[d].cmd /\ device'[d].frame = device[d].frame
                        /\ device'[d].page = device[d].page
    <3> SUFFICES ASSUME NEW d \in ASID
        PROVE  /\ device'[d].cmd = device[d].cmd /\ device'[d].frame = device[d].frame
               /\ device'[d].page = device[d].page
      OBVIOUS
    <3>1. PICK e \in [cmd : {"none", "read", "write"}, page : Page \cup {NULL},
                      frame : Frame, who : ASID \cup {NULL}] : e = device[d]
      BY DEF Shape, Devices
    <3>2. device'[d] = e \/ device'[d] = [e EXCEPT !.who = NULL]
      BY <2>2, <3>1
    <3> QED BY <3>1, <3>2
  <2> QED BY <1>1, <2>3, StoredQuiet
<1>4. CASE SsiDoIO
  <2>1. PICK a \in ASID : a = sender /\ Note(a, "doio") \in Mail(ssi_pcb)
    BY <1>4, DoIOMail
  <2>2. pc[a] \in FlashWait
    BY <2>1 DEF Flashing
  <2>3. \A d \in ASID : \/ device'[d] = device[d]
                        \/ device'[d] = [cmd |-> do_io[a].cmd, page |-> do_io[a].page,
                                         frame |-> frame[a], who |-> a]
    BY <1>4, <2>1 DEF SsiDoIO, Shape, Devices
  <2>4. do_io[a].cmd = "write" => ram[frame[a]] \in Value
    <3>1. do_io[a].cmd = "write" => pc[a] = "getWrite"
      BY <2>2, Command DEF FlashWait
    <3> QED BY <3>1 DEF Stored
  <2>5. do_io[a].cmd = "read" => do_io[a].page \in Page
    <3>1. pc[a] # "user"
      BY <2>2 DEF FlashWait
    <3>2. missing[a] \in Page
      BY <3>1 DEF Shape, Handling
    <3> QED BY <2>2, <3>2, Command
  <2>6. \A d \in ASID : /\ device'[d].cmd = "write" => ram'[device'[d].frame] \in Value
                        /\ device'[d].cmd = "read" => device'[d].page \in Page
    BY <1>1, <2>3, <2>4, <2>5 DEF Stored
  <2>7. \A b \in ASID : pc'[b] \in Loaded => ram'[frame'[b]] \in Value
    BY <1>1 DEF Stored, Loaded
  <2>8. \A b \in ASID : Note(ssi_pcb, "ok") \in Mail(b)' /\ pc'[b] = "getRead" =>
                          ram'[frame'[b]] \in Value
    BY <1>1 DEF Stored, NoNewOk
  <2> QED BY <1>1, <2>6, <2>7, <2>8, StoredParts DEF Stored
<1> QED BY <1>2, <1>3, <1>4 DEF Ssi

\* What a flash device does to the store when it cannot fail.
LEMMA TransferFacts ==
  ASSUME Shape, Faulty = {}, Stored, NEW d \in ASID, FlashInterrupt(d)
  PROVE  /\ ram' \in [Frame -> Value \cup {NULL}] /\ flash' \in [ASID -> [Page -> Value]]
         /\ device[d].cmd = "read" =>
              /\ flash' = flash /\ device[d].page \in Page
              /\ ram'[device[d].frame] = flash[d][device[d].page]
              /\ flash[d][device[d].page] \in Value
              /\ \A f \in Frame \ {device[d].frame} : ram'[f] = ram[f]
         /\ device[d].cmd = "write" =>
              /\ ram' = ram /\ flash' = [flash EXCEPT ![d][device[d].page] = ram[device[d].frame]]
         /\ device[d].cmd \in {"read", "write"} /\ device[d].frame \in Frame
<1>1. /\ device[d].cmd # "none" /\ device[d].cmd \in {"none", "read", "write"}
      /\ device[d].frame \in Frame
      /\ flash' = IF device[d].cmd = "write"
                  THEN [flash EXCEPT ![d][device[d].page] = ram[device[d].frame]] ELSE flash
      /\ ram' = IF device[d].cmd = "read"
                THEN [ram EXCEPT ![device[d].frame] = flash[d][device[d].page]] ELSE ram
  BY DEF FlashInterrupt, Shape, Devices
<1>2. ram \in [Frame -> Value \cup {NULL}] /\ flash \in [ASID -> [Page -> Value]]
  BY DEF Stored
<1>3. CASE device[d].cmd = "read"
  <2>1. device[d].page \in Page /\ flash[d][device[d].page] \in Value
    BY <1>2, <1>3 DEF Stored
  <2> QED BY <1>1, <1>2, <1>3, <2>1
<1>4. CASE device[d].cmd = "write"
  <2>1. ram[device[d].frame] \in Value
    BY <1>4 DEF Stored
  <2> QED BY <1>1, <1>2, <1>4, <2>1
<1> QED BY <1>1, <1>3, <1>4

LEMMA StoredFlash ==
  ASSUME Shape, Faulty = {}, Asking, Flashing, Stored, NEW d \in ASID, FlashInterrupt(d)
  PROVE  Stored'
<1> USE ConstantFacts
<1>1. /\ ram' \in [Frame -> Value \cup {NULL}] /\ flash' \in [ASID -> [Page -> Value]]
      /\ UNCHANGED <<pc, frame, swap_table>>
  BY TransferFacts DEF FlashInterrupt
<1>2. \A f \in Frame : ram[f] \in Value => ram'[f] \in Value
  BY TransferFacts
<1>3. \A b \in ASID : frame[b] \in Frame /\ device[b].frame \in Frame
  BY DEF Shape, Handling, Devices
<1>4. \A f \in Frame : swap_table'[f].asid # NOPROC => ram'[f] \in Value
  BY <1>1, <1>2 DEF Stored
<1>5. \A b \in ASID : pc'[b] \in Loaded => ram'[frame'[b]] \in Value
  BY <1>1, <1>2, <1>3 DEF Stored, Loaded
<1>6. \A e \in ASID : /\ device'[e].cmd = "write" => ram'[device'[e].frame] \in Value
                      /\ device'[e].cmd = "read" => device'[e].page \in Page
  <2>1. \A e \in ASID : device'[e] = device[e] \/ device'[e] = Idle
    BY DEF FlashInterrupt, Shape, Devices
  <2> SUFFICES ASSUME NEW e \in ASID
      PROVE  /\ device'[e].cmd = "write" => ram'[device'[e].frame] \in Value
             /\ device'[e].cmd = "read" => device'[e].page \in Page
    OBVIOUS
  <2>2. CASE device'[e] = device[e]
    BY <1>2, <1>3, <2>2 DEF Stored
  <2>3. CASE device'[e] = Idle
    BY <2>3 DEF Idle
  <2> QED BY <2>1, <2>2, <2>3
<1>7. ASSUME NEW b \in ASID, Note(ssi_pcb, "ok") \in Mail(b)', pc'[b] = "getRead"
      PROVE  ram'[frame'[b]] \in Value
  <2>1. CASE Note(ssi_pcb, "ok") \in Mail(b)
    BY <1>1, <1>2, <1>3, <1>7, <2>1 DEF Stored
  <2>2. CASE Note(ssi_pcb, "ok") \notin Mail(b)
    <3>1. device[d].who = b
      <4>1. CASE UNCHANGED msg_inbox
        BY <1>7, <2>2, <4>1, SameMail DEF Shape
      <4>2. CASE ~(UNCHANGED msg_inbox)
        <5>1. PICK w \in ASID : device[d].who = w /\ \A q \in Proc \ {w} : Mail(q)' = Mail(q)
          BY <4>2, FlashMail
        <5> QED BY <1>7, <2>2, <5>1
      <4> QED BY <4>1, <4>2
    <3>2. device[d].cmd = "read" /\ device[d].frame = frame[b]
      <4>1. device[d].cmd = do_io[b].cmd /\ device[d].frame = frame[b]
        BY ZenonT(30), <3>1 DEF Flashing
      <4>2. do_io[b].cmd = "read"
        BY <1>1, <1>7, Command
      <4> QED BY <4>1, <4>2
    <3> QED BY <1>1, <3>2, TransferFacts
  <2> QED BY <2>1, <2>2
<1> QED BY <1>1, <1>4, <1>5, <1>6, <1>7, StoredParts

LEMMA StoredNext ==
  Shape /\ Asking /\ Flashing /\ Stored /\ Faulty = {} /\ [Next]_vars => Stored'
<1> SUFFICES ASSUME Shape, Asking, Flashing, Stored, Faulty = {}, [Next]_vars PROVE Stored'
  OBVIOUS
<1>1. CASE \E a \in ASID : User(a) \/ Handler(a) \/ SstStep(a) \/ FlashInterrupt(a)
  BY <1>1, StoredUser, StoredHandler, StoredSst, StoredFlash
<1>2. CASE SwapMutex
  <2>1. UNCHANGED <<frame, swap_table, ram, flash, device>> /\ \A b \in ASID : pc'[b] = pc[b]
    BY <1>2, ConstantFacts
       DEF SwapMutex, MutexAny, MutexGive, MutexWait, Tell, Receive, Block, Goto, Shape, Control
  <2> QED BY <1>2, <2>1, MutexNoOk, StoredQuiet
<1>3. CASE Ssi
  BY <1>3, StoredSsi
<1>4. CASE (\E p \in Proc : Preempt(p)) \/ UNCHANGED vars
  <2>1. UNCHANGED <<msg_inbox, pc, frame, swap_table, ram, flash, device>>
    BY <1>4 DEF Preempt, vars
  <2>2. NoNewOk
    BY <2>1 DEF NoNewOk, Mail
  <2> QED BY <2>1, <2>2, StoredQuiet
<1> QED BY <1>1, <1>2, <1>3, <1>4 DEF Next
------------------------------------------------------------------------------
(* The types and mutual exclusion, while no flash device fails.             *)

Sound == Shape /\ Locking /\ Asking /\ Flashing /\ Stored

LEMMA SoundInit == Init => Sound
BY ShapeInit, LockingInit, AskingInit, StoredInit DEF Sound

LEMMA SoundNext == Sound /\ Faulty = {} /\ [Next]_vars => Sound'
BY ShapeNext, LockingNext, AskingNext, StoredNext DEF Sound

\* Every variable keeps its type: an inbox only ever holds messages, a page
\* fault handler knows its page and its frame, a page table names frames of the
\* pool and a flash block never receives what no program stored.
THEOREM PagerTypes == ASSUME Faulty = {} PROVE Spec => []TypeOK
<1>1. Sound => TypeOK
  BY DEF Sound, Shape, Stored, TypeOK, Scheduling, Mailing, Control, Handling, Translation, Devices
<1> QED BY <1>1, SoundInit, SoundNext, PTL DEF Spec

\* swapMutex() excludes: whatever messages it received before it was given the
\* mutex, from whom and in which order, no two user processes are between the
\* grant and the release.  Killed processes are counted too.
THEOREM PagerExcludes == ASSUME Faulty = {} PROVE Spec => []MutualExclusion
<1>1. Sound => MutualExclusion
  BY DEF Sound, Locking, Waited, MutualExclusion
<1> QED BY <1>1, SoundInit, SoundNext, PTL DEF Spec
------------------------------------------------------------------------------
(* The end of a user process.                                               *)

LEMMA EndingInit == Init => Ending
<1> SUFFICES ASSUME Init PROVE Ending
  OBVIOUS
<1>1. \A p \in Proc : Mail(p) = {}
  BY DEF Init, Mail, ToSet
<1>2. \A a \in ASID : pc[a] = "user" /\ pc[sst_pcb[a]] = "serve" /\ scan[a] = 0
  BY ConstantFacts DEF Init
<1> QED BY <1>1, <1>2, ConstantFacts DEF Init, Ending

\* A step that is no business of the SSTs.
LEMMA EndingQuiet ==
  ASSUME Ending, UNCHANGED <<quitting, scan, swap_table>>,
         \A a \in ASID : /\ Mail(sst_pcb[a])' \subseteq Mail(sst_pcb[a])
                         /\ pc'[sst_pcb[a]] = pc[sst_pcb[a]]
                         /\ pc[a] = "user" => pc'[a] = "user"
  PROVE  Ending'
BY DEF Ending

LEMMA EndingParts ==
  ASSUME \A a \in ASID :
           /\ Mail(sst_pcb[a])' # {} \/ pc'[sst_pcb[a]] # "serve" => a \in quitting'
           /\ a \in quitting' => pc'[a] = "user",
         \A a \in ASID : pc'[sst_pcb[a]] = "serve" => scan'[a] = 0,
         \A a \in ASID, f \in Frame :
           /\ pc'[sst_pcb[a]] \in {"scan", "clear"} /\ f < scan'[a] => swap_table'[f].asid # a
           /\ pc'[sst_pcb[a]] \in {"suicide", "dying"} => swap_table'[f].asid # a
  PROVE  Ending'
BY DEF Ending

LEMMA EndingUser ==
  ASSUME Shape, Ending, QuietEnd, NEW a \in ASID, User(a)
  PROVE  Ending'
<1> USE ConstantFacts
<1>1. CASE Write(a) \/ Refill(a)
  BY <1>1, SameMail, EndingQuiet DEF Write, Refill, Shape
<1>2. CASE Fault(a)
  <2>1. /\ a \notin quitting /\ \A q \in Proc \ {a} : pc'[q] = pc[q]
        /\ UNCHANGED <<msg_inbox, quitting, scan, swap_table>>
    BY <1>2 DEF Fault, MayTouch, Goto, Shape, Control
  <2>2. \A p \in Proc : Mail(p)' = Mail(p)
    BY <2>1, SameMail DEF Shape
  <2>3. \A b \in ASID : /\ Mail(sst_pcb[b])' # {} \/ pc'[sst_pcb[b]] # "serve" => b \in quitting'
                        /\ b \in quitting' => pc'[b] = "user"
    BY <2>1, <2>2 DEF Ending
  <2>4. \A b \in ASID : pc'[sst_pcb[b]] = pc[sst_pcb[b]]
    BY <2>1
  <2> QED BY <2>1, <2>3, <2>4, EndingParts DEF Ending
<1>3. CASE Quit(a)
  <2>1. Note(a, "terminate") \in Letters(sst_pcb[a]) /\ Send(msg_inbox, a, "terminate", sst_pcb[a])
    BY <1>3 DEF Quit, Note, Letters, Message
  <2>2. \A q \in Proc \ {sst_pcb[a]} : Mail(q)' = Mail(q)
    BY <2>1, TellMail
  <2>3. pc[a] = "user" /\ quitting' = quitting \cup {a} /\ UNCHANGED <<pc, scan, swap_table>>
    BY <1>3 DEF Quit, At
  <2>4. ASSUME NEW b \in ASID
        PROVE  /\ Mail(sst_pcb[b])' # {} \/ pc'[sst_pcb[b]] # "serve" => b \in quitting'
               /\ b \in quitting' => pc'[b] = "user"
    <3>1. CASE b = a
      BY <2>3, <3>1
    <3>2. CASE b # a
      <4>1. Mail(sst_pcb[b])' = Mail(sst_pcb[b])
        BY <2>2, <3>2
      <4> QED BY <2>3, <3>2, <4>1 DEF Ending
    <3> QED BY <3>1, <3>2
  <2> QED BY <2>3, <2>4, EndingParts DEF Ending
<1>4. CASE AwaitEnd(a)
  <2>1. /\ UNCHANGED <<quitting, scan, swap_table>> /\ pc[a] = "user"
        /\ Block(a, NULL) \/ (Take(a, NULL) /\ Goto(a, "user"))
    BY <1>4 DEF AwaitEnd, Receive, At
  <2>2. \A q \in Proc : pc'[q] = pc[q]
    BY <2>1 DEF Block, Goto, Shape, Control
  <2>3. \A q \in Proc : Mail(q)' \subseteq Mail(q)
    <3>1. CASE Block(a, NULL)
      BY <3>1 DEF Block, Mail
    <3>2. CASE Take(a, NULL)
      BY <3>2, TakeMail
    <3> QED BY <2>1, <3>1, <3>2
  <2> QED BY <2>1, <2>2, <2>3, EndingQuiet
<1> QED BY <1>1, <1>2, <1>3, <1>4 DEF User

LEMMA EndingHandler ==
  ASSUME Shape, Ending, NEW a \in ASID, Handler(a)
  PROVE  Ending'
<1> USE ConstantFacts, UserLetters
<1>1. CASE Claim(a)
  <2>1. /\ pc[a] = "claim" /\ \A q \in Proc \ {a} : pc'[q] = pc[q]
        /\ UNCHANGED <<msg_inbox, quitting, scan>>
        /\ \A f \in Frame : swap_table'[f] = swap_table[f] \/ swap_table'[f].asid = a
    BY <1>1 DEF Claim, Internal, At, Goto, Shape, Control, Translation
  <2>2. \A p \in Proc : Mail(p)' = Mail(p)
    BY <2>1, SameMail DEF Shape
  <2>3. a \notin quitting /\ pc[sst_pcb[a]] = "serve"
    BY <2>1 DEF Ending
  <2>4. \A b \in ASID : /\ Mail(sst_pcb[b])' # {} \/ pc'[sst_pcb[b]] # "serve" => b \in quitting'
                        /\ b \in quitting' => pc'[b] = "user"
    BY <2>1, <2>2, <2>3 DEF Ending
  <2>5. \A b \in ASID : pc'[sst_pcb[b]] = pc[sst_pcb[b]]
    BY <2>1
  <2>6. \A b \in ASID : pc'[sst_pcb[b]] = "serve" => scan'[b] = 0
    BY <2>1, <2>5 DEF Ending
  <2>7. \A b \in ASID, f \in Frame :
          /\ pc'[sst_pcb[b]] \in {"scan", "clear"} /\ f < scan'[b] => swap_table'[f].asid # b
          /\ pc'[sst_pcb[b]] \in {"suicide", "dying"} => swap_table'[f].asid # b
    BY <2>1, <2>3, <2>5 DEF Ending
  <2> QED BY <2>4, <2>6, <2>7, EndingParts
<1>2. CASE ~Claim(a)
  <2>0. pc[a] \in UserPc
    BY DEF Shape, Control
  <2>1. UNCHANGED <<quitting, scan, swap_table>>
    BY <1>2, <2>0
       DEF Handler, AskSupport, GetSupport, AskMutex, GetMutex, SelectFrame, CheckFrame,
           Invalidate, AskWrite, AskRead, FlashDone, TrapRelease, TrapAsk, TrapGet, TrapTell,
           Map, Release, Tell, Receive, Internal, FlashDev, UserPc, At
  <2>2. pc[a] # "user" /\ \A q \in Proc \ {a} : pc'[q] = pc[q]
    <3>1. \/ UNCHANGED pc
          \/ \E l : Goto(a, l)
      BY DEF Handler, AskSupport, GetSupport, AskMutex, GetMutex, SelectFrame, CheckFrame,
           Invalidate, AskWrite, AskRead, FlashDone, TrapRelease, TrapAsk, TrapGet, TrapTell,
           Claim, Map, Release, Tell, Receive, Internal, FlashDev, Block
    <3>2. pc[a] # "user"
      BY DEF Handler, AskSupport, GetSupport, AskMutex, GetMutex, SelectFrame, CheckFrame,
           Invalidate, AskWrite, AskRead, FlashDone, TrapRelease, TrapAsk, TrapGet, TrapTell,
           Claim, Map, Release, Tell, Receive, Internal, FlashDev, At
    <3> QED BY <3>1, <3>2 DEF Goto, Shape, Control
  <2>3. \A b \in ASID : Mail(sst_pcb[b])' \subseteq Mail(sst_pcb[b])
    <3>1. CASE AskSupport(a) \/ AskMutex(a) \/ Release(a)
      BY <3>1, TellMail DEF AskSupport, AskMutex, Release, Tell
    <3>2. CASE GetSupport(a) \/ GetMutex(a) \/ FlashDone(a)
      <4>1. (\E p : Block(a, p)) \/ (\E p : Take(a, p))
        BY <3>2 DEF GetSupport, GetMutex, FlashDone, Receive
      <4>2. CASE \E p : Block(a, p)
        BY <4>2 DEF Block, Mail
      <4>3. CASE \E p : Take(a, p)
        BY <4>3, TakeMail
      <4> QED BY <4>1, <4>2, <4>3
    <3>3. CASE SelectFrame(a) \/ CheckFrame(a) \/ Invalidate(a) \/ Map(a)
      BY <3>3 DEF SelectFrame, CheckFrame, Invalidate, Map, Internal, Mail
    <3>4. CASE AskWrite(a) \/ AskRead(a)
      BY <3>4, TellMail DEF AskWrite, AskRead, FlashDev
    <3>5. ~(TrapRelease(a) \/ TrapAsk(a) \/ TrapGet(a) \/ TrapTell(a))
      BY <2>0 DEF TrapRelease, TrapAsk, TrapGet, TrapTell, Tell, Receive, At, UserPc
    <3> QED BY <1>2, <3>1, <3>2, <3>3, <3>4, <3>5 DEF Handler
  <2>4. \A b \in ASID : /\ pc'[sst_pcb[b]] = pc[sst_pcb[b]]
                        /\ pc[b] = "user" => pc'[b] = "user"
    BY <2>2
  <2> QED BY <2>1, <2>3, <2>4, EndingQuiet
<1> QED BY <1>1, <1>2

LEMMA EndingSst ==
  ASSUME Shape, Ending, NEW a \in ASID, SstStep(a)
  PROVE  Ending'
<1> USE ConstantFacts, UserLetters
<1> DEFINE s == sst_pcb[a]
<1>0. /\ UNCHANGED quitting /\ \A q \in Proc \ {s} : pc'[q] = pc[q]
  BY DEF SstStep, Serve, Scan, Clear, Suicide, Tell, Receive, Block, Goto, Shape, Control
<1>1. \A q \in Proc : q # ssi_pcb => Mail(q)' \subseteq Mail(q)
  <2>1. CASE Scan(a) \/ Clear(a)
    BY <2>1 DEF Scan, Clear, Mail
  <2>2. CASE Tell(s, "suicide", "kill", ssi_pcb, "dying")
    BY <2>2, TellMail DEF Tell
  <2>3. CASE Serve(a) \/ Receive(s, "dying", ssi_pcb, "dying")
    <3>1. (\E p : Block(s, p)) \/ (\E p : Take(s, p))
      BY <2>3 DEF Serve, Receive
    <3>2. CASE \E p : Block(s, p)
      BY <3>2 DEF Block, Mail
    <3>3. CASE \E p : Take(s, p)
      BY <3>3, TakeMail
    <3> QED BY <3>1, <3>2, <3>3
  <2> QED BY <2>1, <2>2, <2>3 DEF SstStep, Suicide
<1>2. \A b \in ASID \ {a} : pc'[sst_pcb[b]] = pc[sst_pcb[b]]
  BY <1>0
<1>3. a \in quitting \/ (pc'[s] = "serve" /\ Mail(s)' = {})
  <2>1. CASE pc[s] # "serve"
    BY <2>1 DEF Ending
  <2>2. CASE pc[s] = "serve"
    <3>1. Serve(a)
      BY <2>2 DEF SstStep, Scan, Clear, Suicide, Tell, Receive, At
    <3>2. CASE Block(s, a)
      BY <1>1, <2>2, <3>2 DEF Block, Ending
    <3>3. CASE Take(s, a)
      <4>1. Mail(s) # {}
        BY <3>3, TakeMail
      <4> QED BY <4>1 DEF Ending
    <3> QED BY <3>1, <3>2, <3>3 DEF Serve, Receive
  <2> QED BY <2>1, <2>2
<1>4. \A b \in ASID : /\ Mail(sst_pcb[b])' # {} \/ pc'[sst_pcb[b]] # "serve" => b \in quitting'
                      /\ b \in quitting' => pc'[b] = "user"
  <2> SUFFICES ASSUME NEW b \in ASID
      PROVE  /\ Mail(sst_pcb[b])' # {} \/ pc'[sst_pcb[b]] # "serve" => b \in quitting'
             /\ b \in quitting' => pc'[b] = "user"
    OBVIOUS
  <2>1. Mail(sst_pcb[b])' \subseteq Mail(sst_pcb[b]) /\ pc'[b] = pc[b]
    BY <1>0, <1>1
  <2>2. CASE b = a
    BY <1>0, <1>3, <2>1, <2>2 DEF Ending
  <2>3. CASE b # a
    BY <1>0, <1>2, <2>1, <2>3 DEF Ending
  <2> QED BY <2>2, <2>3
<1>5. scan \in [ASID -> 0..POOLSIZE] /\ scan[a] \in 0..POOLSIZE /\ Frame = 0..(POOLSIZE - 1)
  BY DEF Shape, Handling, Frame
<1>6. CASE Serve(a)
  <2>1. UNCHANGED <<scan, swap_table>> /\ pc[s] = "serve" /\ pc'[s] \in {"serve", "scan"}
    BY <1>6 DEF Serve, Receive, At, Block, Goto, Shape, Control
  <2>2. scan[a] = 0
    BY <2>1 DEF Ending
  <2>3. \A b \in ASID : pc'[sst_pcb[b]] = "serve" => scan'[b] = 0
    BY <1>2, <2>1, <2>2 DEF Ending
  <2>4. \A b \in ASID, f \in Frame :
          /\ pc'[sst_pcb[b]] \in {"scan", "clear"} /\ f < scan'[b] => swap_table'[f].asid # b
          /\ pc'[sst_pcb[b]] \in {"suicide", "dying"} => swap_table'[f].asid # b
    BY <1>2, <2>1, <2>2 DEF Ending
  <2> QED BY <1>4, <2>3, <2>4, EndingParts
<1>7. CASE Scan(a)
  <2>1. pc[s] = "scan" /\ UNCHANGED swap_table
    BY <1>7 DEF Scan, At
  <2>2. \A f \in Frame : f < scan[a] => swap_table[f].asid # a
    BY <2>1 DEF Ending
  <2>3. \/ scan[a] = POOLSIZE /\ pc'[s] = "suicide" /\ scan' = scan
        \/ pc'[s] = "clear" /\ scan' = scan
        \/ /\ pc'[s] = "scan" /\ swap_table[scan[a]].asid # a
           /\ scan' = [scan EXCEPT ![a] = scan[a] + 1]
    BY <1>7, <2>1 DEF Scan, Goto, Shape, Control
  <2>4. \A b \in ASID \ {a} : scan'[b] = scan[b]
    BY <1>5, <2>3
  <2>5. \A b \in ASID : pc'[sst_pcb[b]] = "serve" => scan'[b] = 0
    BY <1>2, <2>3, <2>4 DEF Ending
  <2>6. \A f \in Frame :
          /\ pc'[s] \in {"scan", "clear"} /\ f < scan'[a] => swap_table[f].asid # a
          /\ pc'[s] \in {"suicide", "dying"} => swap_table[f].asid # a
    BY <1>5, <2>2, <2>3
  <2>7. \A b \in ASID, f \in Frame :
          /\ pc'[sst_pcb[b]] \in {"scan", "clear"} /\ f < scan'[b] => swap_table'[f].asid # b
          /\ pc'[sst_pcb[b]] \in {"suicide", "dying"} => swap_table'[f].asid # b
    BY <1>2, <2>1, <2>4, <2>6 DEF Ending
  <2> QED BY <1>4, <2>5, <2>7, EndingParts
<1>8. CASE Clear(a)
  <2>1. /\ pc[s] = "clear" /\ pc'[s] = "scan" /\ scan' = [scan EXCEPT ![a] = scan[a] + 1]
        /\ scan[a] < POOLSIZE
    BY <1>8 DEF Clear, At, Goto, Shape, Control, Handling
  <2>2. /\ \A f \in Frame \ {scan[a]} : swap_table'[f] = swap_table[f]
        /\ swap_table'[scan[a]].asid = NOPROC
    <3>1. scan[a] \in Frame
      BY <1>5, <2>1
    <3> QED BY <1>8, <3>1 DEF Clear, Shape, Translation
  <2>3. \A b \in ASID \ {a} : scan'[b] = scan[b]
    BY <1>5, <2>1
  <2>4. \A b \in ASID : pc'[sst_pcb[b]] = "serve" => scan'[b] = 0
    BY <1>2, <2>1, <2>3 DEF Ending
  <2>5. \A f \in Frame : f < scan[a] => swap_table[f].asid # a
    BY <2>1 DEF Ending
  <2>6. \A f \in Frame : f < scan'[a] => swap_table'[f].asid # a
    <3> SUFFICES ASSUME NEW f \in Frame, f < scan[a] + 1 PROVE swap_table'[f].asid # a
      BY <1>5, <2>1
    <3>1. CASE f = scan[a]
      BY <2>2, <3>1
    <3>2. CASE f # scan[a]
      <4>1. f < scan[a]
        BY <1>5, <3>2
      <4> QED BY <2>2, <2>5, <3>2, <4>1
    <3> QED BY <3>1, <3>2
  <2>7. \A b \in ASID, f \in Frame : swap_table[f].asid # b => swap_table'[f].asid # b
    BY <2>2
  <2>8. \A b \in ASID, f \in Frame :
          /\ pc'[sst_pcb[b]] \in {"scan", "clear"} /\ f < scan'[b] => swap_table'[f].asid # b
          /\ pc'[sst_pcb[b]] \in {"suicide", "dying"} => swap_table'[f].asid # b
    BY <1>2, <2>1, <2>3, <2>6, <2>7 DEF Ending
  <2> QED BY <1>4, <2>4, <2>8, EndingParts
<1>9. CASE Suicide(a)
  <2>1. UNCHANGED <<scan, swap_table>> /\ pc[s] \in {"suicide", "dying"} /\ pc'[s] = "dying"
    BY <1>9 DEF Suicide, Tell, Receive, At, Block, Goto, Shape, Control
  <2>2. \A b \in ASID : pc'[sst_pcb[b]] = "serve" => scan'[b] = 0
    BY <1>2, <2>1 DEF Ending
  <2>3. \A f \in Frame : swap_table[f].asid # a
    BY <2>1 DEF Ending
  <2>4. \A b \in ASID, f \in Frame :
          /\ pc'[sst_pcb[b]] \in {"scan", "clear"} /\ f < scan'[b] => swap_table'[f].asid # b
          /\ pc'[sst_pcb[b]] \in {"suicide", "dying"} => swap_table'[f].asid # b
    <3> SUFFICES ASSUME NEW b \in ASID, NEW f \in Frame
        PROVE  /\ pc'[sst_pcb[b]] \in {"scan", "clear"} /\ f < scan'[b] => swap_table'[f].asid # b
               /\ pc'[sst_pcb[b]] \in {"suicide", "dying"} => swap_table'[f].asid # b
      OBVIOUS
    <3>1. CASE b = a
      BY <2>1, <2>3, <3>1
    <3>2. CASE b # a
      <4>1. pc'[sst_pcb[b]] = pc[sst_pcb[b]]
        BY <1>2, <3>2
      <4>2. /\ pc[sst_pcb[b]] \in {"scan", "clear"} /\ f < scan[b] => swap_table[f].asid # b
            /\ pc[sst_pcb[b]] \in {"suicide", "dying"} => swap_table[f].asid # b
        BY DEF Ending
      <4> QED BY <2>1, <4>1, <4>2
    <3> QED BY <3>1, <3>2
  <2> QED BY <1>4, <2>2, <2>4, EndingParts
<1> QED BY <1>6, <1>7, <1>8, <1>9 DEF SstStep

LEMMA EndingSystem ==
  ASSUME Shape, Ending, Faulty = {},
         SwapMutex \/ Ssi \/ (\E a \in ASID : FlashInterrupt(a)) \/ (\E p \in Proc : Preempt(p))
           \/ UNCHANGED vars
  PROVE  Ending'
<1> USE ConstantFacts, UserLetters
<1>1. /\ UNCHANGED <<quitting, scan, swap_table>>
      /\ \A q \in Proc \ {swap_pcb} : pc'[q] = pc[q]
  BY DEF SwapMutex, MutexAny, MutexGive, MutexWait, Tell, Receive, Block, Goto, Ssi, SsiBlock,
         SsiSupport, SsiDoIO, SsiKill, Kill, FlashInterrupt, Preempt, vars, Shape, Control
<1>2. \A b \in ASID : Mail(sst_pcb[b])' \subseteq Mail(sst_pcb[b])
  <2>1. CASE MutexAny \/ MutexWait \/ SsiBlock
    <3>1. \E p \in Proc : \E q : Block(p, q) \/ Take(p, q)
      BY <2>1 DEF MutexAny, MutexWait, Receive, SsiBlock
    <3>2. ASSUME NEW p \in Proc, NEW q, Block(p, q)
          PROVE  \A b \in ASID : Mail(sst_pcb[b])' \subseteq Mail(sst_pcb[b])
      BY <3>2 DEF Block, Mail
    <3>3. ASSUME NEW p \in Proc, NEW q, Take(p, q)
          PROVE  \A b \in ASID : Mail(sst_pcb[b])' \subseteq Mail(sst_pcb[b])
      <4>1. \A r \in Proc : Mail(r)' \subseteq Mail(r)
        BY <3>3, TakeMail
      <4> QED BY <4>1
    <3> QED BY <3>1, <3>2, <3>3
  <2>2. CASE MutexGive
    <3>1. PICK c \in ASID : c = client
      BY <2>2 DEF MutexGive, Tell, At, Shape, Control
    <3>2. Send(msg_inbox, swap_pcb, "grant", c)
      BY <2>2, <3>1 DEF MutexGive, Tell
    <3>3. \A q \in Proc \ {c} : Mail(q)' = Mail(q)
      BY <3>2, TellMail
    <3> QED BY <3>3
  <2>3. CASE SsiSupport
    <3>1. PICK a \in ASID : \A q \in Proc \ {a, ssi_pcb} : Mail(q)' = Mail(q)
      BY <2>3, SupportMail
    <3> QED BY <3>1
  <2>4. CASE SsiDoIO
    BY <2>4, DoIOMail
  <2>5. CASE SsiKill
    <3>1. \A q \in Proc : Mail(q)' \subseteq Mail(q)
      BY <2>5, KillMail
    <3> QED BY <3>1
  <2>6. CASE \E a \in ASID : FlashInterrupt(a)
    <3>1. PICK a \in ASID : FlashInterrupt(a)
      BY <2>6
    <3>2. CASE UNCHANGED msg_inbox
      BY <3>2 DEF Mail
    <3>3. CASE ~(UNCHANGED msg_inbox)
      <4>1. PICK w \in ASID : \A q \in Proc \ {w} : Mail(q)' = Mail(q)
        BY <3>1, <3>3, FlashMail
      <4> QED BY <4>1
    <3> QED BY <3>2, <3>3
  <2>7. CASE (\E p \in Proc : Preempt(p)) \/ UNCHANGED vars
    BY <2>7 DEF Preempt, vars, Mail
  <2> QED BY <2>1, <2>2, <2>3, <2>4, <2>5, <2>6, <2>7 DEF SwapMutex, Ssi
<1> QED BY <1>1, <1>2, EndingQuiet

LEMMA EndingNext == Shape /\ Ending /\ Faulty = {} /\ QuietEnd /\ [Next]_vars => Ending'
<1> SUFFICES ASSUME Shape, Ending, Faulty = {}, QuietEnd, [Next]_vars PROVE Ending'
  OBVIOUS
<1>1. CASE \E a \in ASID : User(a) \/ Handler(a) \/ SstStep(a)
  BY <1>1, EndingUser, EndingHandler, EndingSst
<1> QED BY <1>1, EndingSystem DEF Next

\* An SST that asks the SSI to end it has cleared every frame of its child from
\* the swap table, whatever the other processes did to the table meanwhile
\* (cleanSwapTable()), provided that the child faults no more once it has asked
\* to terminate.
THEOREM PagerReturnsFrames == ASSUME Faulty = {}, QuietEnd PROVE Spec => []FramesReturned
<1>1. Ending => FramesReturned
  BY DEF Ending, FramesReturned
<1>2. Init => Shape /\ Ending
  BY ShapeInit, EndingInit
<1>3. Shape /\ Ending /\ [Next]_vars => Shape' /\ Ending'
  BY ShapeNext, EndingNext
<1> QED BY <1>1, <1>2, <1>3, PTL DEF Spec
------------------------------------------------------------------------------
(* The page tables, the TLB and the swap table, while nobody asks to end.   *)

LEMMA ComputingInit == Init => Computing
<1> SUFFICES ASSUME Init PROVE Computing
  OBVIOUS
<1>1. \A p \in Proc : Mail(p) = {}
  BY DEF Init, Mail, ToSet
<1>2. quitting = {} /\ \A a \in ASID : pc[sst_pcb[a]] = "serve"
  BY ConstantFacts DEF Init
<1> QED BY <1>1, <1>2, ConstantFacts DEF Computing

LEMMA ComputingQuiet ==
  ASSUME Computing, quitting' = quitting,
         \A a \in ASID : /\ pc'[sst_pcb[a]] = pc[sst_pcb[a]]
                         /\ Mail(sst_pcb[a])' \subseteq Mail(sst_pcb[a])
                         /\ Note(sst_pcb[a], "kill") \in Mail(ssi_pcb)' =>
                              Note(sst_pcb[a], "kill") \in Mail(ssi_pcb)
  PROVE  Computing'
BY DEF Computing

LEMMA ComputingUser ==
  ASSUME Shape, Computing, Quitters = {}, NEW a \in ASID, User(a)
  PROVE  Computing'
<1> USE ConstantFacts
<1>1. ~Quit(a)
  BY DEF Quit
<1>2. UNCHANGED quitting /\ \A q \in Proc \ {a} : pc'[q] = pc[q]
  BY <1>1 DEF User, Write, Refill, Fault, AwaitEnd, Receive, Block, Goto, Shape, Control
<1>3. \A q \in Proc : Mail(q)' \subseteq Mail(q)
  <2>1. CASE Write(a) \/ Refill(a) \/ Fault(a)
    BY <2>1 DEF Write, Refill, Fault, Mail
  <2>2. CASE AwaitEnd(a) /\ Block(a, NULL)
    BY <2>2 DEF Block, Mail
  <2>3. CASE AwaitEnd(a) /\ Take(a, NULL)
    BY <2>3, TakeMail
  <2> QED BY <1>1, <2>1, <2>2, <2>3 DEF User, AwaitEnd, Receive
<1> QED BY <1>2, <1>3, ComputingQuiet

\* What user process a says in its page fault handler.
LEMMA HandlerMail ==
  ASSUME Shape, NEW a \in ASID, Handler(a)
  PROVE  /\ \A q \in Proc \ {ssi_pcb, swap_pcb} : Mail(q)' \subseteq Mail(q)
         /\ Mail(ssi_pcb)' \subseteq Mail(ssi_pcb) \cup {Note(a, "support"), Note(a, "doio")}
<1> USE ConstantFacts, UserLetters
<1>1. CASE AskSupport(a) \/ AskMutex(a) \/ Release(a)
  BY <1>1, TellMail DEF AskSupport, AskMutex, Release, Tell
<1>2. CASE GetSupport(a) \/ GetMutex(a) \/ FlashDone(a)
  <2>1. (\E p : Block(a, p)) \/ (\E p : Take(a, p))
    BY <1>2 DEF GetSupport, GetMutex, FlashDone, Receive
  <2>2. CASE \E p : Block(a, p)
    BY <2>2 DEF Block, Mail
  <2>3. CASE \E p : Take(a, p)
    BY <2>3, TakeMail
  <2> QED BY <2>1, <2>2, <2>3
<1>3. CASE SelectFrame(a) \/ CheckFrame(a) \/ Invalidate(a) \/ Claim(a) \/ Map(a)
  BY <1>3 DEF SelectFrame, CheckFrame, Invalidate, Claim, Map, Internal, Mail
<1>4. CASE AskWrite(a) \/ AskRead(a)
  BY <1>4, TellMail DEF AskWrite, AskRead, FlashDev
<1>5. ~(TrapRelease(a) \/ TrapAsk(a) \/ TrapGet(a) \/ TrapTell(a))
  <2>1. pc[a] \in UserPc
    BY DEF Shape, Control
  <2> QED BY <2>1 DEF TrapRelease, TrapAsk, TrapGet, TrapTell, Tell, Receive, At, UserPc
<1> QED BY <1>1, <1>2, <1>3, <1>4, <1>5 DEF Handler

\* Where a step of its page fault handler may take user process a.
LEMMA HandlerFrame ==
  ASSUME Shape, NEW a \in ASID, Handler(a)
  PROVE  /\ UNCHANGED <<client, missing, quitting, scan, ram, flash, device>>
         /\ pc[a] # "user" /\ pc'[a] # "askSupport"
         /\ \A q \in Proc \ {a} : pc'[q] = pc[q]
<1>1. pc[a] \in UserPc
  BY DEF Shape, Control
<1>2. ~(TrapRelease(a) \/ TrapAsk(a) \/ TrapGet(a) \/ TrapTell(a))
  BY <1>1 DEF TrapRelease, TrapAsk, TrapGet, TrapTell, Tell, Receive, At, UserPc
<1>3. UNCHANGED <<client, missing, quitting, scan, ram, flash, device>> /\ pc[a] # "user"
  BY <1>2 DEF Handler, AskSupport, GetSupport, AskMutex, GetMutex, SelectFrame, CheckFrame,
           Invalidate, AskWrite, AskRead, FlashDone, Claim, Map, Release, Tell, Receive, Internal,
           FlashDev, At
<1>4. \/ UNCHANGED pc /\ pc[a] # "askSupport"
      \/ \E l : Goto(a, l) /\ l # "askSupport"
  BY SMTT(30), <1>2 DEF Handler, AskSupport, GetSupport, AskMutex, GetMutex, SelectFrame,
           CheckFrame, Invalidate, AskWrite, AskRead, FlashDone, Claim, Map, Release, Tell, Receive, Internal,
           FlashDev, Block, At, AfterFlash
<1>5. CASE UNCHANGED pc /\ pc[a] # "askSupport"
  BY <1>3, <1>5
<1>6. CASE \E l : Goto(a, l) /\ l # "askSupport"
  <2>1. PICK l : Goto(a, l) /\ l # "askSupport"
    BY <1>6
  <2>2. pc'[a] = l /\ \A q \in Proc \ {a} : pc'[q] = pc[q]
    BY <2>1, ConstantFacts DEF Goto, Shape, Control
  <2> QED BY <1>3, <2>1, <2>2
<1> QED BY <1>4, <1>5, <1>6

LEMMA ComputingNext ==
  Shape /\ Computing /\ Faulty = {} /\ Quitters = {} /\ [Next]_vars => Computing'
<1> SUFFICES ASSUME Shape, Computing, Faulty = {}, Quitters = {}, [Next]_vars PROVE Computing'
  OBVIOUS
<1> USE ConstantFacts
<1>1. CASE \E a \in ASID : User(a)
  BY <1>1, ComputingUser
<1>2. CASE \E a \in ASID : Handler(a)
  <2>1. PICK a \in ASID : Handler(a)
    BY <1>2
  <2>2. \A b \in ASID : Note(sst_pcb[b], "kill") \in Mail(ssi_pcb)' =>
                          Note(sst_pcb[b], "kill") \in Mail(ssi_pcb)
    BY <2>1, HandlerMail, Notes
  <2>3. \A b \in ASID : /\ pc'[sst_pcb[b]] = pc[sst_pcb[b]]
                        /\ Mail(sst_pcb[b])' \subseteq Mail(sst_pcb[b])
    BY <2>1, HandlerMail, HandlerFrame
  <2>4. quitting' = quitting
    BY <2>1, HandlerFrame
  <2> QED BY <2>2, <2>3, <2>4, ComputingQuiet
<1>3. CASE \E a \in ASID : SstStep(a)
  <2>1. PICK a \in ASID : SstStep(a)
    BY <1>3
  <2>2. pc[sst_pcb[a]] = "serve" /\ Mail(sst_pcb[a]) = {}
    BY DEF Computing
  <2>3. Serve(a)
    BY <2>1, <2>2 DEF SstStep, Scan, Clear, Suicide, Tell, Receive, At
  <2>4. ~Take(sst_pcb[a], a)
    BY <2>2, TakeMail
  <2>5. UNCHANGED <<msg_inbox, pc, quitting>>
    BY <2>3, <2>4 DEF Serve, Receive, Block
  <2> QED BY <2>5, SameMail, ComputingQuiet DEF Shape
<1>4. CASE SwapMutex
  <2>1. quitting' = quitting /\ \A q \in Proc \ {swap_pcb} : pc'[q] = pc[q]
    BY <1>4
       DEF SwapMutex, MutexAny, MutexGive, MutexWait, Tell, Receive, Block, Goto, Shape, Control
  <2>2. \A q \in Proc \ ASID : Mail(q)' \subseteq Mail(q)
    <3>1. CASE MutexAny \/ MutexWait
      <4>1. (\E p : Block(swap_pcb, p)) \/ (\E p : Take(swap_pcb, p))
        BY <3>1 DEF MutexAny, MutexWait, Receive
      <4>2. CASE \E p : Block(swap_pcb, p)
        BY <4>2 DEF Block, Mail
      <4>3. CASE \E p : Take(swap_pcb, p)
        BY <4>3, TakeMail
      <4> QED BY <4>1, <4>2, <4>3
    <3>2. CASE MutexGive
      <4>1. PICK c \in ASID : c = client
        BY <3>2 DEF MutexGive, Tell, At, Shape, Control
      <4>2. Send(msg_inbox, swap_pcb, "grant", c)
        BY <3>2, <4>1 DEF MutexGive, Tell
      <4> QED BY <4>2, TellMail, UserLetters
    <3> QED BY <1>4, <3>1, <3>2 DEF SwapMutex
  <2>3. \A b \in ASID : /\ pc'[sst_pcb[b]] = pc[sst_pcb[b]]
                        /\ Mail(sst_pcb[b])' \subseteq Mail(sst_pcb[b])
    BY <2>1, <2>2
  <2> QED BY <2>1, <2>2, <2>3, ComputingQuiet
<1>5. CASE Ssi
  <2>1. CASE SsiBlock
    BY <2>1, SameMail, ComputingQuiet DEF SsiBlock, Block, Shape
  <2>2. CASE SsiSupport
    <3>1. PICK a \in ASID : /\ \A q \in Proc \ {a, ssi_pcb} : Mail(q)' = Mail(q)
                           /\ Mail(ssi_pcb)' \subseteq Mail(ssi_pcb)
      BY <2>2, SupportMail
    <3> QED BY <2>2, <3>1, ComputingQuiet DEF SsiSupport
  <2>3. CASE SsiDoIO
    <3>1. /\ \A q \in Proc \ {ssi_pcb} : Mail(q)' = Mail(q)
          /\ Mail(ssi_pcb)' \subseteq Mail(ssi_pcb)
      BY <2>3, DoIOMail
    <3> QED BY <2>3, <3>1, ComputingQuiet DEF SsiDoIO
  <2>4. CASE SsiKill
    BY <2>4, KillMail DEF Computing
  <2> QED BY <1>5, <2>1, <2>2, <2>3, <2>4 DEF Ssi
<1>6. CASE \E a \in ASID : FlashInterrupt(a)
  <2>1. PICK a \in ASID : FlashInterrupt(a)
    BY <1>6
  <2>2. \A q \in Proc \ ASID : Mail(q)' = Mail(q)
    <3>1. CASE UNCHANGED msg_inbox
      BY <3>1 DEF Mail
    <3>2. CASE ~(UNCHANGED msg_inbox)
      <4>1. PICK w \in ASID : \A q \in Proc \ {w} : Mail(q)' = Mail(q)
        BY <2>1, <3>2, FlashMail
      <4> QED BY <4>1
    <3> QED BY <3>1, <3>2
  <2> QED BY <2>1, <2>2, ComputingQuiet DEF FlashInterrupt
<1>7. CASE (\E p \in Proc : Preempt(p)) \/ UNCHANGED vars
  BY <1>7, SameMail, ComputingQuiet DEF Preempt, vars, Shape
<1> QED BY <1>1, <1>2, <1>3, <1>4, <1>5, <1>6, <1>7 DEF Next

LEMMA ConsistentInit == Init => Consistent
<1> SUFFICES ASSUME Init PROVE Consistent
  OBVIOUS
<1>1. \A a \in ASID, x \in Page : tlb[a][x] = ABSENT /\ privatePgTbl[a][x] = INVALID
  BY DEF Init
<1>2. \A f \in Frame : swap_table[f].asid = NOPROC
  BY DEF Init
<1>3. \A a \in ASID : pc[a] = "user"
  BY ConstantFacts DEF Init
<1> QED BY <1>1, <1>2, <1>3, ConstantFacts DEF Consistent, Evicting

\* Mutual exclusion, as the steps below use it.
LEMMA Alone ==
  ASSUME Locking, NEW a \in ASID, NEW b \in ASID, pc[a] \in Critical, pc[b] \in Critical
  PROVE  a = b
BY DEF Locking, Waited

\* A frame that is not occupied is mapped nowhere, and two pages are never
\* mapped to one frame.
LEMMA MappedOnce ==
  ASSUME Shape, Consistent, NEW a \in ASID, NEW x \in Page, privatePgTbl[a][x] \in Frame
  PROVE  /\ swap_table[privatePgTbl[a][x]].asid = a /\ swap_table[privatePgTbl[a][x]].page = x
         /\ swap_table[privatePgTbl[a][x]].owner = a
         /\ privatePgTbl[a][x] \notin Unoccupied
         /\ \A b \in ASID, y \in Page : privatePgTbl[b][y] = privatePgTbl[a][x] => b = a /\ y = x
<1>1. swap_table[privatePgTbl[a][x]] = Entry(a, x)
  BY DEF Consistent
<1>2. \A b \in ASID, y \in Page : privatePgTbl[b][y] = privatePgTbl[a][x] =>
        swap_table[privatePgTbl[a][x]] = Entry(b, y)
  BY DEF Consistent
<1>3. \A b, y, c, z : Entry(b, y) = Entry(c, z) => b = c /\ y = z
  BY DEF Entry
<1>4. Entry(a, x).asid = a /\ Entry(a, x).page = x /\ Entry(a, x).owner = a
  BY DEF Entry
<1> QED BY <1>1, <1>2, <1>3, <1>4, ConstantFacts DEF Unoccupied

LEMMA ConsistentParts ==
  ASSUME \A a \in ASID, x \in Page :
           /\ tlb'[a][x] \in {ABSENT, privatePgTbl'[a][x]}
           /\ privatePgTbl'[a][x] \in Frame => swap_table'[privatePgTbl'[a][x]] = Entry(a, x),
         \A f \in Frame : swap_table'[f].asid # NOPROC =>
           /\ swap_table'[f].asid \in ASID /\ swap_table'[f].page \in Page
           /\ swap_table'[f] = Entry(swap_table'[f].asid, swap_table'[f].page)
           /\ \/ privatePgTbl'[swap_table'[f].asid][swap_table'[f].page] = f
              \/ \E u \in ASID : pc'[u] \in Evicting \cup {"map"} /\ frame'[u] = f,
         \A a \in ASID :
           /\ pc'[a] \in Evicting \cup {"map"} => ~Mapped(frame[a])'
           /\ pc'[a] = "map" => swap_table'[frame'[a]] = Entry(a, missing'[a])
           /\ pc'[a] \notin {"user", "release"} => privatePgTbl'[a][missing'[a]] = INVALID
           /\ pc'[a] \in {"invalidate", "askWrite", "getWrite"} =>
                swap_table'[frame'[a]].asid # NOPROC
  PROVE  Consistent'
BY DEF Consistent, Mapped, Entry

\* A step that changes neither the page tables nor the swap table.
LEMMA ConsistentQuiet ==
  ASSUME Consistent, UNCHANGED <<swap_table, privatePgTbl>>,
         \A a \in ASID, x \in Page : tlb'[a][x] \in {ABSENT, tlb[a][x], privatePgTbl[a][x]},
         \A u \in ASID : pc[u] \in Evicting \cup {"map"} =>
           pc'[u] \in Evicting \cup {"map"} /\ frame'[u] = frame[u],
         \A a \in ASID :
           /\ pc'[a] \in Evicting \cup {"map"} =>
                frame'[a] = frame[a] /\ (pc[a] \in Evicting \cup {"map"} \/ ~Mapped(frame[a]))
           /\ pc'[a] = "map" => pc[a] = "map" /\ missing'[a] = missing[a]
           /\ pc'[a] \notin {"user", "release"} =>
                \/ pc[a] \notin {"user", "release"} /\ missing'[a] = missing[a]
                \/ privatePgTbl[a][missing'[a]] = INVALID
           /\ pc'[a] \in {"invalidate", "askWrite", "getWrite"} =>
                \/ pc[a] \in {"invalidate", "askWrite", "getWrite"} /\ frame'[a] = frame[a]
                \/ swap_table[frame'[a]].asid # NOPROC
  PROVE  Consistent'
<1>1. \A a \in ASID, x \in Page :
        /\ tlb'[a][x] \in {ABSENT, privatePgTbl'[a][x]}
        /\ privatePgTbl'[a][x] \in Frame => swap_table'[privatePgTbl'[a][x]] = Entry(a, x)
  BY DEF Consistent
<1>2. ASSUME NEW f \in Frame, swap_table'[f].asid # NOPROC
      PROVE  /\ swap_table'[f].asid \in ASID /\ swap_table'[f].page \in Page
             /\ swap_table'[f] = Entry(swap_table'[f].asid, swap_table'[f].page)
             /\ \/ privatePgTbl'[swap_table'[f].asid][swap_table'[f].page] = f
                \/ \E u \in ASID : pc'[u] \in Evicting \cup {"map"} /\ frame'[u] = f
  <2>1. /\ swap_table[f].asid \in ASID /\ swap_table[f].page \in Page
        /\ swap_table[f] = Entry(swap_table[f].asid, swap_table[f].page)
        /\ \/ privatePgTbl[swap_table[f].asid][swap_table[f].page] = f
           \/ \E u \in ASID : pc[u] \in Evicting \cup {"map"} /\ frame[u] = f
    BY <1>2 DEF Consistent
  <2>2. (\E u \in ASID : pc[u] \in Evicting \cup {"map"} /\ frame[u] = f) =>
          \E u \in ASID : pc'[u] \in Evicting \cup {"map"} /\ frame'[u] = f
    OBVIOUS
  <2>3. swap_table' = swap_table /\ privatePgTbl' = privatePgTbl
    OBVIOUS
  <2> QED BY <2>1, <2>2, <2>3
<1>3. ASSUME NEW a \in ASID
      PROVE  /\ pc'[a] \in Evicting \cup {"map"} => ~Mapped(frame[a])'
             /\ pc'[a] = "map" => swap_table'[frame'[a]] = Entry(a, missing'[a])
             /\ pc'[a] \notin {"user", "release"} => privatePgTbl'[a][missing'[a]] = INVALID
             /\ pc'[a] \in {"invalidate", "askWrite", "getWrite"} =>
                  swap_table'[frame'[a]].asid # NOPROC
  <2>1. pc'[a] \in Evicting \cup {"map"} => frame'[a] = frame[a] /\ ~Mapped(frame[a])
    BY DEF Consistent
  <2>2. pc'[a] \in Evicting \cup {"map"} => ~Mapped(frame[a])'
    BY <2>1 DEF Mapped
  <2>3. pc'[a] = "map" => swap_table'[frame'[a]] = Entry(a, missing'[a])
    BY <2>1 DEF Consistent
  <2>4. pc'[a] \notin {"user", "release"} => privatePgTbl'[a][missing'[a]] = INVALID
    BY DEF Consistent
  <2>5. pc'[a] \in {"invalidate", "askWrite", "getWrite"} => swap_table'[frame'[a]].asid # NOPROC
    BY DEF Consistent
  <2> QED BY <2>2, <2>3, <2>4, <2>5
<1> QED BY <1>1, <1>2, <1>3, ConsistentParts

LEMMA ConsistentUser ==
  ASSUME Shape, Consistent, NEW a \in ASID, User(a)
  PROVE  Consistent'
<1> USE ConstantFacts
<1>1. CASE Write(a) \/ Quit(a) \/ AwaitEnd(a)
  <2>1. UNCHANGED <<missing, frame, swap_table, privatePgTbl, tlb>> /\ \A b \in ASID : pc'[b] = pc[b]
    BY <1>1 DEF Write, Quit, AwaitEnd, Receive, At, Block, Goto, Shape, Control
  <2> QED BY <2>1, ConsistentQuiet DEF Consistent
<1>2. CASE Refill(a)
  <2>1. PICK x \in Page, b \in ASID, y \in Page :
          tlb' = [[tlb EXCEPT ![b][y] = ABSENT] EXCEPT ![a][x] = privatePgTbl[a][x]]
    BY ZenonT(30), <1>2, PagerAssumption DEF Refill
  <2>2. \A c \in ASID, z \in Page : tlb'[c][z] \in {ABSENT, tlb[c][z], privatePgTbl[c][z]}
    BY SMTT(30), <2>1 DEF Shape, Translation
  <2>3. UNCHANGED <<pc, missing, frame, swap_table, privatePgTbl>>
    BY <1>2 DEF Refill
  <2> QED BY <2>2, <2>3, ConsistentQuiet DEF Consistent
<1>3. CASE Fault(a)
  <2>1. PICK x \in Page : tlb[a][x] = INVALID /\ missing' = [missing EXCEPT ![a] = x]
    BY ZenonT(30), <1>3, PagerAssumption DEF Fault
  <2>2. /\ pc[a] = "user" /\ pc'[a] = "askSupport" /\ \A q \in Proc \ {a} : pc'[q] = pc[q]
        /\ UNCHANGED <<frame, swap_table, privatePgTbl, tlb>>
    BY <1>3 DEF Fault, MayTouch, At, Goto, Shape, Control
  <2>3. missing'[a] = x /\ \A b \in ASID \ {a} : missing'[b] = missing[b]
    BY <2>1 DEF Shape, Handling
  <2>4. privatePgTbl[a][x] = INVALID
    BY <2>1 DEF Consistent
  <2> QED BY <2>2, <2>3, <2>4, ConsistentQuiet DEF Consistent, Evicting
<1> QED BY <1>1, <1>2, <1>3 DEF User

\* The page that Invalidate() takes from its owner: the frame is mapped, since
\* no other process is between the grant and the release of the mutex.
LEMMA InvalidateFacts ==
  ASSUME Shape, Locking, Consistent, NEW a \in ASID, Invalidate(a)
  PROVE  \E b \in ASID, y \in Page :
           /\ swap_table[frame[a]].page = y /\ swap_table[frame[a]].owner = b
           /\ privatePgTbl[b][y] = frame[a] /\ privatePgTbl'[b][y] = INVALID
           /\ tlb'[b][y] \in {ABSENT, INVALID}
           /\ \A c \in ASID, z \in Page : c # b \/ z # y =>
                privatePgTbl'[c][z] = privatePgTbl[c][z] /\ tlb'[c][z] = tlb[c][z]
<1> USE ConstantFacts
<1>1. pc[a] = "invalidate"
  BY DEF Invalidate, Internal, At
<1>2. frame[a] \in Frame /\ swap_table[frame[a]].asid # NOPROC
  BY <1>1 DEF Consistent, Shape, Handling
<1>3. PICK b \in ASID, y \in Page :
        swap_table[frame[a]] = Entry(b, y) /\ swap_table[frame[a]].asid = b
        /\ swap_table[frame[a]].page = y /\ swap_table[frame[a]].owner = b
  <2>1. PICK b \in ASID : b = swap_table[frame[a]].asid
    BY <1>2 DEF Consistent
  <2>2. PICK y \in Page : y = swap_table[frame[a]].page
    BY <1>2 DEF Consistent
  <2>3. swap_table[frame[a]] = Entry(b, y)
    BY <1>2, <2>1, <2>2 DEF Consistent
  <2> QED BY <2>1, <2>2, <2>3 DEF Entry
<1>4. \A u \in ASID \ {a} : pc[u] \notin Critical
  BY <1>1, Alone DEF Critical
<1>5. privatePgTbl[b][y] = frame[a]
  <2>1. \A u \in ASID : pc[u] \notin Evicting \cup {"map"}
    BY <1>1, <1>4 DEF Evicting, Critical
  <2>2. \/ privatePgTbl[swap_table[frame[a]].asid][swap_table[frame[a]].page] = frame[a]
        \/ \E u \in ASID : pc[u] \in Evicting \cup {"map"} /\ frame[u] = frame[a]
    BY <1>2 DEF Consistent
  <2> QED BY <1>3, <2>1, <2>2
<1>6. /\ privatePgTbl' = [privatePgTbl EXCEPT ![b][y] = INVALID]
      /\ tlb' = [tlb EXCEPT ![b][y] = IF @ = ABSENT THEN ABSENT ELSE INVALID]
  BY <1>3 DEF Invalidate
<1>7. /\ privatePgTbl'[b][y] = INVALID /\ tlb'[b][y] \in {ABSENT, INVALID}
      /\ \A c \in ASID, z \in Page : c # b \/ z # y =>
           privatePgTbl'[c][z] = privatePgTbl[c][z] /\ tlb'[c][z] = tlb[c][z]
  BY <1>6 DEF Shape, Translation
<1> QED BY <1>3, <1>5, <1>7

LEMMA ConsistentInvalidate ==
  ASSUME Shape, Locking, Consistent, NEW a \in ASID, Invalidate(a)
  PROVE  Consistent'
<1> USE ConstantFacts
<1>1. /\ pc[a] = "invalidate" /\ pc'[a] = "askWrite" /\ \A q \in Proc \ {a} : pc'[q] = pc[q]
      /\ UNCHANGED <<missing, frame, swap_table>>
  BY DEF Invalidate, Internal, At, Goto, Shape, Control
<1>2. frame[a] \in Frame /\ swap_table[frame[a]].asid # NOPROC
  BY <1>1 DEF Consistent, Shape, Handling
<1>3. \A u \in ASID \ {a} : pc[u] \notin Critical
  BY <1>1, Alone DEF Critical
<1>4. PICK b \in ASID, y \in Page :
        /\ privatePgTbl[b][y] = frame[a] /\ privatePgTbl'[b][y] = INVALID
        /\ tlb'[b][y] \in {ABSENT, INVALID}
        /\ \A c \in ASID, z \in Page : c # b \/ z # y =>
             privatePgTbl'[c][z] = privatePgTbl[c][z] /\ tlb'[c][z] = tlb[c][z]
  BY InvalidateFacts
<1>5. privatePgTbl[b][y] = frame[a]
  BY <1>4
<1>6. \A c \in ASID, z \in Page : privatePgTbl[c][z] = frame[a] => c = b /\ z = y
  BY <1>2, <1>5, MappedOnce
<1>7. ~Mapped(frame[a])'
  BY <1>1, <1>2, <1>4, <1>6 DEF Mapped
<1>8. \A c \in ASID, x \in Page :
         /\ tlb'[c][x] \in {ABSENT, privatePgTbl'[c][x]}
         /\ privatePgTbl'[c][x] \in Frame => swap_table'[privatePgTbl'[c][x]] = Entry(c, x)
  <2> SUFFICES ASSUME NEW c \in ASID, NEW x \in Page
      PROVE  /\ tlb'[c][x] \in {ABSENT, privatePgTbl'[c][x]}
             /\ privatePgTbl'[c][x] \in Frame => swap_table'[privatePgTbl'[c][x]] = Entry(c, x)
    OBVIOUS
  <2>1. CASE c = b /\ x = y
    BY <1>4, <2>1
  <2>2. CASE c # b \/ x # y
    <3>1. privatePgTbl'[c][x] = privatePgTbl[c][x] /\ tlb'[c][x] = tlb[c][x]
      BY <1>4, <2>2
    <3> QED BY <1>1, <3>1 DEF Consistent
  <2> QED BY <2>1, <2>2
<1>9. ASSUME NEW f \in Frame, swap_table'[f].asid # NOPROC
       PROVE  /\ swap_table'[f].asid \in ASID /\ swap_table'[f].page \in Page
              /\ swap_table'[f] = Entry(swap_table'[f].asid, swap_table'[f].page)
              /\ \/ privatePgTbl'[swap_table'[f].asid][swap_table'[f].page] = f
                 \/ \E u \in ASID : pc'[u] \in Evicting \cup {"map"} /\ frame'[u] = f
  <2>1. /\ swap_table[f].asid \in ASID /\ swap_table[f].page \in Page
        /\ swap_table[f] = Entry(swap_table[f].asid, swap_table[f].page)
    BY <1>1, <1>9 DEF Consistent
  <2>2. CASE f = frame[a]
    <3>1. pc'[a] \in Evicting \cup {"map"} /\ frame'[a] = f
      BY <1>1, <2>2 DEF Evicting
    <3> QED BY <1>1, <2>1, <3>1
  <2>3. CASE f # frame[a]
    <3>1. \A u \in ASID : pc[u] \notin Evicting \cup {"map"}
      BY <1>1, <1>3 DEF Evicting, Critical
    <3>2. privatePgTbl[swap_table[f].asid][swap_table[f].page] = f
      BY <1>1, <1>9, <3>1 DEF Consistent
    <3>3. swap_table[f].asid # b \/ swap_table[f].page # y
      BY <1>5, <2>3, <3>2
    <3>4. privatePgTbl'[swap_table[f].asid][swap_table[f].page] = f
      BY <1>4, <2>1, <3>2, <3>3
    <3> QED BY <1>1, <2>1, <3>4
  <2> QED BY <2>2, <2>3
<1>10. ASSUME NEW c \in ASID
       PROVE  /\ pc'[c] \in Evicting \cup {"map"} => ~Mapped(frame[c])'
              /\ pc'[c] = "map" => swap_table'[frame'[c]] = Entry(c, missing'[c])
              /\ pc'[c] \notin {"user", "release"} => privatePgTbl'[c][missing'[c]] = INVALID
              /\ pc'[c] \in {"invalidate", "askWrite", "getWrite"} =>
                   swap_table'[frame'[c]].asid # NOPROC
  <2>1. pc'[c] \notin {"user", "release"} => privatePgTbl'[c][missing'[c]] = INVALID
    <3> SUFFICES ASSUME pc'[c] \notin {"user", "release"} PROVE privatePgTbl'[c][missing'[c]] = INVALID
      OBVIOUS
    <3>1. pc[c] \notin {"user", "release"}
      BY <1>1
    <3>2. privatePgTbl[c][missing[c]] = INVALID /\ missing[c] \in Page
      BY <3>1 DEF Consistent, Shape, Handling
    <3> QED BY <1>1, <1>4, <3>2
  <2>2. CASE c = a
    BY <1>1, <1>2, <1>7, <2>1, <2>2
  <2>3. CASE c # a
    <3>1. pc'[c] \notin Critical
      BY <1>1, <1>3, <2>3
    <3> QED BY <2>1, <3>1 DEF Critical, Evicting
  <2> QED BY <2>2, <2>3
<1> QED BY <1>8, <1>9, <1>10, ConsistentParts

LEMMA ConsistentClaim ==
  ASSUME Shape, Locking, Consistent, NEW a \in ASID, Claim(a)
  PROVE  Consistent'
<1> USE ConstantFacts
<1>1. /\ pc[a] = "claim" /\ pc'[a] = "map" /\ \A q \in Proc \ {a} : pc'[q] = pc[q]
      /\ UNCHANGED <<missing, frame, privatePgTbl, tlb>>
  BY DEF Claim, Internal, At, Goto, Shape, Control
<1>2. /\ pc[a] \in Evicting /\ pc[a] \in Critical /\ pc'[a] \in Evicting \cup {"map"}
      /\ pc[a] \notin {"user", "release"}
  BY <1>1 DEF Evicting, Critical
<1>3. frame[a] \in Frame /\ missing[a] \in Page
  BY <1>2 DEF Shape, Handling
<1>4. /\ swap_table'[frame[a]] = Entry(a, missing[a])
      /\ \A f \in Frame \ {frame[a]} : swap_table'[f] = swap_table[f]
  BY <1>3 DEF Claim, Shape, Translation, Entry
<1>5. ~Mapped(frame[a]) /\ ~Mapped(frame[a])'
  BY <1>1, <1>2 DEF Consistent, Mapped
<1>6. \A c \in ASID, x \in Page :
        /\ tlb'[c][x] \in {ABSENT, privatePgTbl'[c][x]}
        /\ privatePgTbl'[c][x] \in Frame => swap_table'[privatePgTbl'[c][x]] = Entry(c, x)
  <2> SUFFICES ASSUME NEW c \in ASID, NEW x \in Page
      PROVE  /\ tlb'[c][x] \in {ABSENT, privatePgTbl'[c][x]}
             /\ privatePgTbl'[c][x] \in Frame => swap_table'[privatePgTbl'[c][x]] = Entry(c, x)
    OBVIOUS
  <2>1. privatePgTbl[c][x] # frame[a]
    BY <1>5 DEF Mapped
  <2>2. privatePgTbl[c][x] \in Frame =>
          swap_table'[privatePgTbl[c][x]] = swap_table[privatePgTbl[c][x]]
    BY <1>4, <2>1
  <2> QED BY <1>1, <2>2 DEF Consistent
<1>7. ASSUME NEW f \in Frame, swap_table'[f].asid # NOPROC
      PROVE  /\ swap_table'[f].asid \in ASID /\ swap_table'[f].page \in Page
             /\ swap_table'[f] = Entry(swap_table'[f].asid, swap_table'[f].page)
             /\ \/ privatePgTbl'[swap_table'[f].asid][swap_table'[f].page] = f
                \/ \E u \in ASID : pc'[u] \in Evicting \cup {"map"} /\ frame'[u] = f
  <2>1. CASE f = frame[a]
    <3>1. swap_table'[f] = Entry(a, missing[a])
      BY <1>4, <2>1
    <3>2. swap_table'[f].asid = a /\ swap_table'[f].page = missing[a]
      BY <3>1 DEF Entry
    <3> QED BY <1>1, <1>2, <1>3, <2>1, <3>1, <3>2
  <2>2. CASE f # frame[a]
    <3>1. swap_table'[f] = swap_table[f]
      BY <1>4, <2>2
    <3>2. /\ swap_table[f].asid \in ASID /\ swap_table[f].page \in Page
          /\ swap_table[f] = Entry(swap_table[f].asid, swap_table[f].page)
          /\ \/ privatePgTbl[swap_table[f].asid][swap_table[f].page] = f
             \/ \E u \in ASID : pc[u] \in Evicting \cup {"map"} /\ frame[u] = f
      BY <1>7, <3>1 DEF Consistent
    <3>3. (\E u \in ASID : pc[u] \in Evicting \cup {"map"} /\ frame[u] = f) =>
            \E u \in ASID : pc'[u] \in Evicting \cup {"map"} /\ frame'[u] = f
      BY <1>1, <1>2
    <3> QED BY <1>1, <3>1, <3>2, <3>3
  <2> QED BY <2>1, <2>2
<1>8. ASSUME NEW c \in ASID
      PROVE  /\ pc'[c] \in Evicting \cup {"map"} => ~Mapped(frame[c])'
             /\ pc'[c] = "map" => swap_table'[frame'[c]] = Entry(c, missing'[c])
             /\ pc'[c] \notin {"user", "release"} => privatePgTbl'[c][missing'[c]] = INVALID
             /\ pc'[c] \in {"invalidate", "askWrite", "getWrite"} =>
                  swap_table'[frame'[c]].asid # NOPROC
  <2>1. pc'[c] \notin {"user", "release"} => privatePgTbl'[c][missing'[c]] = INVALID
    BY <1>1, <1>2 DEF Consistent
  <2>2. CASE c = a
    BY <1>1, <1>4, <1>5, <2>1, <2>2
  <2>3. CASE c # a
    <3>1. pc'[c] \notin Critical
      BY <1>1, <1>2, <2>3, Alone
    <3> QED BY <2>1, <3>1 DEF Critical, Evicting
  <2> QED BY <2>2, <2>3
<1> QED BY <1>6, <1>7, <1>8, ConsistentParts

LEMMA ConsistentMap ==
  ASSUME Shape, Locking, Consistent, NEW a \in ASID, Map(a)
  PROVE  Consistent'
<1> USE ConstantFacts
<1>1. /\ pc[a] = "map" /\ pc'[a] = "release" /\ \A q \in Proc \ {a} : pc'[q] = pc[q]
      /\ UNCHANGED <<missing, frame, swap_table>>
  BY DEF Map, Internal, At, Goto, Shape, Control
<1>2. pc[a] \in Critical /\ pc[a] \notin {"user", "release"}
  BY <1>1 DEF Critical
<1>3. /\ frame[a] \in Frame /\ missing[a] \in Page /\ swap_table[frame[a]] = Entry(a, missing[a])
      /\ privatePgTbl[a][missing[a]] = INVALID
  BY <1>1, <1>2 DEF Shape, Handling, Consistent
<1>4. /\ privatePgTbl'[a][missing[a]] = frame[a] /\ tlb'[a][missing[a]] \in {ABSENT, frame[a]}
      /\ \A c \in ASID, z \in Page : c # a \/ z # missing[a] =>
           privatePgTbl'[c][z] = privatePgTbl[c][z] /\ tlb'[c][z] = tlb[c][z]
  BY <1>3 DEF Map, Shape, Translation
<1>5. \A u \in ASID \ {a} : pc[u] \notin Critical
  BY <1>2, Alone
<1>6. \A c \in ASID, x \in Page :
        /\ tlb'[c][x] \in {ABSENT, privatePgTbl'[c][x]}
        /\ privatePgTbl'[c][x] \in Frame => swap_table'[privatePgTbl'[c][x]] = Entry(c, x)
  <2> SUFFICES ASSUME NEW c \in ASID, NEW x \in Page
      PROVE  /\ tlb'[c][x] \in {ABSENT, privatePgTbl'[c][x]}
             /\ privatePgTbl'[c][x] \in Frame => swap_table'[privatePgTbl'[c][x]] = Entry(c, x)
    OBVIOUS
  <2>1. CASE c = a /\ x = missing[a]
    BY <1>1, <1>3, <1>4, <2>1
  <2>2. CASE c # a \/ x # missing[a]
    <3>1. privatePgTbl'[c][x] = privatePgTbl[c][x] /\ tlb'[c][x] = tlb[c][x]
      BY <1>4, <2>2
    <3> QED BY <1>1, <3>1 DEF Consistent
  <2> QED BY <2>1, <2>2
<1>7. ASSUME NEW f \in Frame, swap_table'[f].asid # NOPROC
      PROVE  /\ swap_table'[f].asid \in ASID /\ swap_table'[f].page \in Page
             /\ swap_table'[f] = Entry(swap_table'[f].asid, swap_table'[f].page)
             /\ \/ privatePgTbl'[swap_table'[f].asid][swap_table'[f].page] = f
                \/ \E u \in ASID : pc'[u] \in Evicting \cup {"map"} /\ frame'[u] = f
  <2>1. /\ swap_table[f].asid \in ASID /\ swap_table[f].page \in Page
        /\ swap_table[f] = Entry(swap_table[f].asid, swap_table[f].page)
        /\ \/ privatePgTbl[swap_table[f].asid][swap_table[f].page] = f
           \/ \E u \in ASID : pc[u] \in Evicting \cup {"map"} /\ frame[u] = f
    BY <1>1, <1>7 DEF Consistent
  <2>2. CASE f = frame[a]
    <3>1. swap_table[f].asid = a /\ swap_table[f].page = missing[a]
      BY <1>3, <2>2 DEF Entry
    <3> QED BY <1>1, <1>4, <2>1, <2>2, <3>1
  <2>3. CASE f # frame[a]
    <3>1. \A u \in ASID : pc[u] \in Evicting \cup {"map"} => u = a
      BY <1>5 DEF Evicting, Critical
    <3>2. privatePgTbl[swap_table[f].asid][swap_table[f].page] = f
      BY <2>1, <2>3, <3>1
    <3>3. swap_table[f].asid # a \/ swap_table[f].page # missing[a]
      BY <1>3, <3>2
    <3>4. privatePgTbl'[swap_table[f].asid][swap_table[f].page] = f
      BY <1>4, <2>1, <3>2, <3>3
    <3> QED BY <1>1, <2>1, <3>4
  <2> QED BY <2>2, <2>3
<1>8. ASSUME NEW c \in ASID
      PROVE  /\ pc'[c] \in Evicting \cup {"map"} => ~Mapped(frame[c])'
             /\ pc'[c] = "map" => swap_table'[frame'[c]] = Entry(c, missing'[c])
             /\ pc'[c] \notin {"user", "release"} => privatePgTbl'[c][missing'[c]] = INVALID
             /\ pc'[c] \in {"invalidate", "askWrite", "getWrite"} =>
                  swap_table'[frame'[c]].asid # NOPROC
  <2>1. CASE c = a
    BY <1>1, <2>1 DEF Evicting
  <2>2. CASE c # a
    <3>1. pc'[c] = pc[c] /\ pc'[c] \notin Critical
      BY <1>1, <1>5, <2>2
    <3>2. pc'[c] \notin {"user", "release"} => privatePgTbl'[c][missing'[c]] = INVALID
      <4> SUFFICES ASSUME pc'[c] \notin {"user", "release"}
          PROVE privatePgTbl'[c][missing'[c]] = INVALID
        OBVIOUS
      <4>1. privatePgTbl[c][missing[c]] = INVALID /\ missing[c] \in Page
        BY <3>1 DEF Consistent, Shape, Handling
      <4> QED BY <1>1, <1>4, <2>2, <4>1
    <3> QED BY <3>1, <3>2 DEF Critical, Evicting
  <2> QED BY <2>1, <2>2
<1> QED BY <1>6, <1>7, <1>8, ConsistentParts

\* What FlashDone() does once the device has answered.
LEMMA FlashDoneMoves ==
  ASSUME Shape, Asking, Flashing, NEW a \in ASID, FlashDone(a)
  PROVE  /\ UNCHANGED <<locals>> /\ \A q \in Proc \ {a} : pc'[q] = pc[q]
         /\ \/ UNCHANGED <<pc, msg_inbox>>
            \/ /\ Note(ssi_pcb, "ok") \in Mail(a) /\ Note(ssi_pcb, "ok") \notin Mail(a)'
               /\ \/ pc[a] = "getWrite" /\ pc'[a] = "askRead"
                  \/ pc[a] = "getRead" /\ pc'[a] = "claim"
<1> USE ConstantFacts
<1>1. pc[a] \in FlashWait /\ UNCHANGED <<locals>>
  BY DEF FlashDone, At, FlashWait
<1>2. CASE Block(a, ssi_pcb)
  BY <1>1, <1>2 DEF Block
<1>3. CASE /\ Take(a, ssi_pcb)
           /\ Goto(a, IF Taken(a, ssi_pcb).op = "error" THEN "trapRelease" ELSE AfterFlash(a))
  <2>1. Taken(a, ssi_pcb) = Note(ssi_pcb, "ok") /\ Note(ssi_pcb, "ok") \in Mail(a)
        /\ Note(ssi_pcb, "ok") \notin Mail(a)'
    BY <1>1, <1>3, FlashAnswer
  <2>2. Taken(a, ssi_pcb).op = "ok"
    BY <2>1, Notes
  <2>3. Goto(a, AfterFlash(a))
    BY <1>3, <2>2
  <2>4. pc'[a] = AfterFlash(a) /\ \A q \in Proc \ {a} : pc'[q] = pc[q]
    BY <2>3 DEF Goto, Shape, Control
  <2>5. /\ pc[a] = "getWrite" => AfterFlash(a) = "askRead"
        /\ pc[a] = "getRead" => AfterFlash(a) = "claim"
    BY Command DEF AfterFlash
  <2> QED BY <1>1, <2>1, <2>4, <2>5 DEF FlashWait
<1> QED BY <1>2, <1>3 DEF FlashDone

LEMMA ConsistentHandler ==
  ASSUME Shape, Locking, Asking, Flashing, Consistent, NEW a \in ASID, Handler(a)
  PROVE  Consistent'
<1> USE ConstantFacts
<1>0. /\ missing' = missing /\ \A q \in Proc \ {a} : pc'[q] = pc[q]
      /\ pc[a] # "user"
  BY HandlerFrame
<1>1. CASE Invalidate(a) \/ Claim(a) \/ Map(a)
  BY <1>1, ConsistentInvalidate, ConsistentClaim, ConsistentMap
<1>2. CASE AskSupport(a) \/ GetSupport(a) \/ AskMutex(a) \/ GetMutex(a)
  <2>1. /\ UNCHANGED <<frame, swap_table, privatePgTbl, tlb>>
        /\ pc[a] \in {"askSupport", "getSupport", "askMutex", "getMutex"}
        /\ pc'[a] = pc[a] \/ pc'[a] \in {"getSupport", "askMutex", "getMutex", "select"}
    BY <1>2 DEF AskSupport, GetSupport, AskMutex, GetMutex, Tell, Receive, At, Block, Goto, Shape,
                Control
  <2> QED BY <1>0, <2>1, ConsistentQuiet DEF Evicting
<1>3. CASE SelectFrame(a)
  <2>1. /\ pc[a] = "select" /\ pc'[a] = "check" /\ UNCHANGED <<swap_table, privatePgTbl, tlb>>
        /\ \A b \in ASID \ {a} : frame'[b] = frame[b]
    BY <1>3, SelectFrameFacts DEF SelectFrame, Internal, At, Goto, Shape, Control
  <2> QED BY <1>0, <2>1, ConsistentQuiet DEF Evicting
<1>4. CASE CheckFrame(a)
  <2>1. /\ pc[a] = "check" /\ UNCHANGED <<frame, swap_table, privatePgTbl, tlb>>
        /\ \/ pc'[a] = "askRead" /\ frame[a] \in Unoccupied
           \/ pc'[a] = "invalidate" /\ frame[a] \notin Unoccupied
    BY <1>4 DEF CheckFrame, Internal, At, Goto, Shape, Control
  <2>2. frame[a] \in Frame
    BY DEF Shape, Handling
  <2>3. pc'[a] = "askRead" => ~Mapped(frame[a])
    BY <2>1, <2>2, MappedOnce DEF Mapped
  <2>4. pc'[a] = "invalidate" => swap_table[frame[a]].asid # NOPROC
    BY <2>1, <2>2 DEF Unoccupied
  <2> QED BY <1>0, <2>1, <2>3, <2>4, ConsistentQuiet DEF Evicting
<1>5. CASE AskWrite(a) \/ AskRead(a)
  <2>1. /\ UNCHANGED <<frame, swap_table, privatePgTbl, tlb>>
        /\ \/ pc[a] = "askWrite" /\ pc'[a] = "getWrite"
           \/ pc[a] = "askRead" /\ pc'[a] = "getRead"
    BY <1>5 DEF AskWrite, AskRead, FlashDev, At, Goto, Shape, Control
  <2> QED BY <1>0, <2>1, ConsistentQuiet DEF Evicting
<1>6. CASE FlashDone(a)
  <2>1. /\ UNCHANGED <<frame, swap_table, privatePgTbl, tlb>>
        /\ \/ UNCHANGED pc
           \/ pc[a] = "getWrite" /\ pc'[a] = "askRead"
           \/ pc[a] = "getRead" /\ pc'[a] = "claim"
    BY <1>6, FlashDoneMoves
  <2> QED BY <1>0, <2>1, ConsistentQuiet DEF Evicting
<1>7. CASE Release(a)
  <2>1. /\ UNCHANGED <<frame, swap_table, privatePgTbl, tlb>>
        /\ pc[a] = "release" /\ pc'[a] = "user"
    BY <1>7 DEF Release, Tell, At, Goto, Shape, Control
  <2> QED BY <1>0, <2>1, ConsistentQuiet DEF Evicting
<1>8. ~(TrapRelease(a) \/ TrapAsk(a) \/ TrapGet(a) \/ TrapTell(a))
  <2>1. pc[a] \in UserPc
    BY DEF Shape, Control
  <2> QED BY <2>1 DEF TrapRelease, TrapAsk, TrapGet, TrapTell, Tell, Receive, At, UserPc
<1> QED BY <1>1, <1>2, <1>3, <1>4, <1>5, <1>6, <1>7, <1>8 DEF Handler

\* Nobody else moves a user process on.
LEMMA OthersKeepPc ==
  ASSUME Shape,
         \/ \E a \in ASID : SstStep(a) \/ FlashInterrupt(a)
         \/ SwapMutex \/ Ssi \/ (\E p \in Proc : Preempt(p)) \/ UNCHANGED vars
  PROVE  \A b \in ASID : pc'[b] = pc[b]
<1> USE ConstantFacts DEF Shape, Control
<1>1. ASSUME NEW a \in ASID, SstStep(a) PROVE \A b \in ASID : pc'[b] = pc[b]
  BY <1>1 DEF SstStep, Serve, Scan, Clear, Suicide, Tell, Receive, Block, Goto
<1>2. CASE SwapMutex
  BY <1>2 DEF SwapMutex, MutexAny, MutexGive, MutexWait, Tell, Receive, Block, Goto
<1>3. CASE \/ \E a \in ASID : FlashInterrupt(a)
           \/ Ssi \/ (\E p \in Proc : Preempt(p)) \/ UNCHANGED vars
  BY <1>3 DEF FlashInterrupt, Ssi, SsiBlock, SsiSupport, SsiDoIO, SsiKill, Kill, Preempt,
              vars, Block
<1> QED BY <1>1, <1>2, <1>3

LEMMA ConsistentNext ==
  Sound /\ Computing /\ Consistent /\ Faulty = {} /\ [Next]_vars => Consistent'
<1> SUFFICES ASSUME Sound, Computing, Consistent, Faulty = {}, [Next]_vars PROVE Consistent'
  OBVIOUS
<1>0. Shape /\ Locking /\ Asking /\ Flashing
  BY DEF Sound
<1>1. CASE \E a \in ASID : User(a)
  BY <1>0, <1>1, ConsistentUser
<1>2. CASE \E a \in ASID : Handler(a)
  BY <1>0, <1>2, ConsistentHandler
<1>3. CASE \/ \E a \in ASID : SstStep(a) \/ FlashInterrupt(a)
           \/ SwapMutex \/ Ssi \/ (\E p \in Proc : Preempt(p)) \/ UNCHANGED vars
  <2>1. \A b \in ASID : ~Clear(b)
    BY DEF Clear, At, Computing
  <2>2. UNCHANGED <<missing, frame, swap_table, privatePgTbl, tlb>>
    BY <1>3, <2>1
       DEF SstStep, Serve, Scan, Suicide, FlashInterrupt, SwapMutex, MutexAny, MutexGive,
           MutexWait, Ssi, SsiBlock, SsiSupport, SsiDoIO, SsiKill, Kill, Preempt, vars, Tell, Receive
  <2>3. \A b \in ASID : pc'[b] = pc[b]
    BY <1>0, <1>3, OthersKeepPc
  <2> QED BY <2>2, <2>3, ConsistentQuiet DEF Consistent
<1> QED BY <1>1, <1>2, <1>3 DEF Next

\* What the TLB translates is what the page tables say, and what they say is what
\* the swap table says, at every step of the page fault handlers, between which
\* other processes compute and refill the TLB (updateTLB(), with interrupts off
\* only around the two updates): in a system whose processes all compute on.
THEOREM PagerTranslates == ASSUME Faulty = {}, Quitters = {} PROVE Spec => []TranslationSound
<1>1. Sound /\ Consistent => TranslationSound
  <2> SUFFICES ASSUME Sound, Consistent, NEW a \in ASID, NEW x \in Page
      PROVE  /\ tlb[a][x] \in Frame => privatePgTbl[a][x] = tlb[a][x]
             /\ privatePgTbl[a][x] \in Frame =>
                  /\ swap_table[privatePgTbl[a][x]].asid = a
                  /\ swap_table[privatePgTbl[a][x]].page = x
    BY DEF TranslationSound
  <2>1. tlb[a][x] \in Frame => privatePgTbl[a][x] = tlb[a][x]
    BY ConstantFacts DEF Consistent
  <2> QED BY <2>1, MappedOnce DEF Sound
<1>2. Init => Sound /\ Computing /\ Consistent
  BY SoundInit, ComputingInit, ConsistentInit
<1>3. Sound /\ Computing /\ Consistent /\ [Next]_vars => Sound' /\ Computing' /\ Consistent'
  BY SoundNext, ComputingNext, ConsistentNext DEF Sound
<1> QED BY <1>1, <1>2, <1>3, PTL DEF Spec
------------------------------------------------------------------------------
(* Flash blocks and frames while a page moves between them.                 *)

LEMMA MovedInit == Init => Moved
<1> SUFFICES ASSUME Init PROVE Moved
  OBVIOUS
<1>1. \A a \in ASID : pc[a] = "user" /\ device[a].cmd = "none"
  BY ConstantFacts DEF Init, Idle
<1> QED BY <1>1 DEF Moved

LEMMA MovedParts ==
  ASSUME \A d \in ASID : device'[d].cmd # "none" => device'[d].who # NULL,
         \A a \in ASID :
           pc'[a] = "getWrite" =>
             /\ do_io'[a] = [asid |-> swap_table'[frame'[a]].asid, cmd |-> "write",
                             page |-> swap_table'[frame'[a]].page]
             /\ Note(ssi_pcb, "ok") \in Mail(a)' =>
                  flash'[swap_table'[frame'[a]].owner][swap_table'[frame'[a]].page]
                    = ram'[frame'[a]],
         \A a \in ASID :
           pc'[a] = "getRead" /\ Note(ssi_pcb, "ok") \in Mail(a)' =>
             ram'[frame'[a]] = flash'[a][missing'[a]],
         \A a \in ASID : pc'[a] \in {"claim", "map"} => ram'[frame'[a]] = flash'[a][missing'[a]]
  PROVE  Moved'
BY DEF Moved, Note

\* A step that starts and ends no transfer.
LEMMA MovedQuiet ==
  ASSUME Moved, NoNewOk, flash' = flash,
         \A d \in ASID : device'[d].cmd # "none" => device'[d].who # NULL,
         \A a \in ASID : pc'[a] \in FlashWait =>
           /\ pc[a] = pc'[a] /\ do_io'[a] = do_io[a] /\ frame'[a] = frame[a]
           /\ missing'[a] = missing[a] /\ ram'[frame[a]] = ram[frame[a]]
           /\ swap_table'[frame[a]] = swap_table[frame[a]],
         \A a \in ASID : pc'[a] \in {"claim", "map"} =>
           /\ pc[a] \in {"claim", "map"} /\ frame'[a] = frame[a]
           /\ missing'[a] = missing[a] /\ ram'[frame[a]] = ram[frame[a]]
  PROVE  Moved'
<1>1. ASSUME NEW a \in ASID, pc'[a] = "getWrite"
      PROVE  /\ do_io'[a] = [asid |-> swap_table'[frame'[a]].asid, cmd |-> "write",
                             page |-> swap_table'[frame'[a]].page]
             /\ Note(ssi_pcb, "ok") \in Mail(a)' =>
                  flash'[swap_table'[frame'[a]].owner][swap_table'[frame'[a]].page]
                    = ram'[frame'[a]]
  <2>1. /\ pc[a] = "getWrite" /\ do_io'[a] = do_io[a] /\ frame'[a] = frame[a]
        /\ ram'[frame[a]] = ram[frame[a]] /\ swap_table'[frame[a]] = swap_table[frame[a]]
    BY <1>1 DEF FlashWait
  <2>2. /\ do_io[a] = [asid |-> swap_table[frame[a]].asid, cmd |-> "write",
                       page |-> swap_table[frame[a]].page]
        /\ Note(ssi_pcb, "ok") \in Mail(a) =>
             flash[swap_table[frame[a]].owner][swap_table[frame[a]].page] = ram[frame[a]]
    BY <2>1 DEF Moved
  <2>3. Note(ssi_pcb, "ok") \in Mail(a)' => Note(ssi_pcb, "ok") \in Mail(a)
    BY DEF NoNewOk
  <2> QED BY <2>1, <2>2, <2>3
<1>2. ASSUME NEW a \in ASID, pc'[a] = "getRead", Note(ssi_pcb, "ok") \in Mail(a)'
      PROVE  ram'[frame'[a]] = flash'[a][missing'[a]]
  <2>1. /\ pc[a] = "getRead" /\ frame'[a] = frame[a] /\ missing'[a] = missing[a]
        /\ ram'[frame[a]] = ram[frame[a]]
    BY <1>2 DEF FlashWait
  <2>2. Note(ssi_pcb, "ok") \in Mail(a)
    BY <1>2 DEF NoNewOk
  <2>3. ram[frame[a]] = flash[a][missing[a]]
    BY <2>1, <2>2 DEF Moved
  <2> QED BY <2>1, <2>3
<1>3. ASSUME NEW a \in ASID, pc'[a] \in {"claim", "map"}
      PROVE  ram'[frame'[a]] = flash'[a][missing'[a]]
  <2>1. ram[frame[a]] = flash[a][missing[a]]
    BY <1>3 DEF Moved
  <2> QED BY <1>3, <2>1
<1> QED BY <1>1, <1>2, <1>3, MovedParts

\* A store changes one frame, which no handler is emptying or filling.
LEMMA WriteFacts ==
  ASSUME Shape, Stored, Consistent, NEW a \in ASID, Write(a)
  PROVE  \E x \in Page, v \in Value :
           /\ privatePgTbl[a][x] \in Frame /\ ram'[privatePgTbl[a][x]] = v
           /\ \A f \in Frame \ {privatePgTbl[a][x]} : ram'[f] = ram[f]
           /\ \A b \in ASID : pc[b] \in Evicting \cup {"map"} =>
                frame[b] # privatePgTbl[a][x] /\ ram'[frame[b]] = ram[frame[b]]
<1>1. PICK x \in Page, v \in Value :
        tlb[a][x] \in Frame /\ ram' = [ram EXCEPT ![tlb[a][x]] = v]
  BY PagerAssumption DEF Write
<1>2. tlb[a][x] = privatePgTbl[a][x]
  BY <1>1, ConstantFacts DEF Consistent
<1>3. PICK f \in Frame : f = privatePgTbl[a][x]
  BY <1>1, <1>2
<1>4. ram' = [ram EXCEPT ![f] = v]
  BY <1>1, <1>2, <1>3
<1>5. ram'[f] = v /\ \A g \in Frame \ {f} : ram'[g] = ram[g]
  BY <1>4 DEF Stored
<1>6. ASSUME NEW b \in ASID, pc[b] \in Evicting \cup {"map"}
      PROVE  frame[b] # f /\ ram'[frame[b]] = ram[frame[b]]
  <2>1. ~Mapped(frame[b]) /\ frame[b] \in Frame
    BY <1>6 DEF Consistent, Shape, Handling
  <2>2. frame[b] # f
    BY <1>3, <2>1 DEF Mapped
  <2> QED BY <1>5, <2>1, <2>2
<1> QED BY <1>3, <1>5, <1>6

LEMMA MovedUser ==
  ASSUME Shape, Stored, Consistent, Moved, NEW a \in ASID, User(a)
  PROVE  Moved'
<1> USE ConstantFacts
<1>1. NoNewOk /\ UNCHANGED <<frame, do_io, swap_table, flash, device>>
  BY UserNoOk DEF User, Write, Refill, Fault, Quit, AwaitEnd, Receive
<1>2. CASE Write(a)
  <2>1. UNCHANGED <<pc, missing>>
    BY <1>2 DEF Write
  <2>2. \A b \in ASID : pc[b] \in Evicting \cup {"map"} => ram'[frame[b]] = ram[frame[b]]
    BY <1>2, WriteFacts
  <2>3. \A b \in ASID : pc[b] \in FlashWait \cup {"claim", "map"} => ram'[frame[b]] = ram[frame[b]]
    BY <2>2 DEF FlashWait, Evicting
  <2>4. \A d \in ASID : device'[d].cmd # "none" => device'[d].who # NULL
    BY <1>1 DEF Moved
  <2> QED BY <1>1, <2>1, <2>3, <2>4, MovedQuiet
<1>3. CASE Refill(a) \/ Fault(a) \/ Quit(a) \/ AwaitEnd(a)
  <2>1. UNCHANGED ram /\ \A b \in ASID \ {a} : pc'[b] = pc[b] /\ missing'[b] = missing[b]
    BY <1>3 DEF Refill, Fault, Quit, AwaitEnd, Receive, Block, Goto, Shape, Control, Handling
  <2>2. pc'[a] \in {"askSupport", "user"}
    BY <1>3 DEF Refill, Fault, Quit, AwaitEnd, Receive, Block, Goto, Shape, Control, MayTouch, At
  <2>3. \A d \in ASID : device'[d].cmd # "none" => device'[d].who # NULL
    BY <1>1 DEF Moved
  <2>4. \A b \in ASID : pc'[b] \in FlashWait \cup {"claim", "map"} => b # a
    BY <2>2 DEF FlashWait
  <2> QED BY <1>1, <2>1, <2>3, <2>4, MovedQuiet
<1> QED BY <1>2, <1>3 DEF User

LEMMA MovedHandler ==
  ASSUME Shape, Locking, Asking, Flashing, Consistent, Moved, NEW a \in ASID, Handler(a)
  PROVE  Moved'
<1> USE ConstantFacts
<1>1. /\ UNCHANGED <<missing, ram, flash, device>> /\ \A b \in ASID \ {a} : pc'[b] = pc[b]
      /\ NoNewOk /\ \A d \in ASID : device'[d].cmd # "none" => device'[d].who # NULL
  BY HandlerFrame, HandlerNoOk DEF Moved
<1>2. CASE AskSupport(a) \/ GetSupport(a) \/ AskMutex(a) \/ GetMutex(a) \/ SelectFrame(a)
           \/ CheckFrame(a) \/ Invalidate(a) \/ Release(a)
  <2>1. UNCHANGED <<do_io, swap_table>>
    BY <1>2 DEF AskSupport, GetSupport, AskMutex, GetMutex, SelectFrame, CheckFrame, Invalidate,
                Release, Tell, Receive, Internal
  <2>2. \A b \in ASID \ {a} : frame'[b] = frame[b]
    <3>1. CASE SelectFrame(a)
      BY <3>1, SelectFrameFacts
    <3>2. CASE ~SelectFrame(a)
      BY <1>2, <3>2 DEF AskSupport, GetSupport, AskMutex, GetMutex, CheckFrame, Invalidate,
                Release, Tell, Receive, Internal
    <3> QED BY <3>1, <3>2
  <2>3. pc'[a] \notin FlashWait \cup {"claim", "map"}
    <3>1. CASE AskSupport(a) \/ GetSupport(a) \/ AskMutex(a) \/ GetMutex(a) \/ Release(a)
      BY <3>1 DEF AskSupport, GetSupport, AskMutex, GetMutex, Release, Tell, Receive, At, Block,
                  Goto, FlashWait, Shape, Control
    <3>2. CASE SelectFrame(a) \/ CheckFrame(a) \/ Invalidate(a)
      BY <3>2 DEF SelectFrame, CheckFrame, Invalidate, Internal, Goto, FlashWait, Shape, Control
    <3> QED BY <1>2, <3>1, <3>2
  <2>4. \A b \in ASID : pc'[b] \in FlashWait \cup {"claim", "map"} => b # a
    BY <2>3
  <2> QED BY <1>1, <2>1, <2>2, <2>4, MovedQuiet
<1>3. CASE Claim(a) \/ Map(a)
  <2>1. /\ UNCHANGED <<do_io, frame>> /\ pc[a] \in {"claim", "map"}
        /\ pc'[a] \in {"map", "release"}
    BY <1>3 DEF Claim, Map, Internal, At, Goto, Shape, Control
  <2>2. pc[a] \in Critical
    BY <2>1 DEF Critical
  <2>3. \A b \in ASID \ {a} : pc[b] \notin Critical
    BY <2>2, Alone
  <2>4. \A b \in ASID : pc'[b] \in FlashWait => b # a /\ pc[b] \in Critical
    BY <1>1, <2>1 DEF FlashWait, Critical
  <2>5. \A b \in ASID : pc'[b] \notin FlashWait
    BY <2>3, <2>4
  <2>6. \A b \in ASID : pc'[b] \in {"claim", "map"} => pc[b] \in {"claim", "map"}
    BY <1>1, <2>1
  <2> QED BY <1>1, <2>1, <2>5, <2>6, MovedQuiet
<1>4. CASE AskWrite(a)
  <2>1. /\ pc[a] = "askWrite" /\ pc'[a] = "getWrite" /\ UNCHANGED <<frame, swap_table>>
        /\ do_io'[a] = [asid |-> swap_table[frame[a]].asid, cmd |-> "write",
                        page |-> swap_table[frame[a]].page]
        /\ \A b \in ASID \ {a} : do_io'[b] = do_io[b]
    BY <1>4 DEF AskWrite, FlashDev, At, Goto, Shape, Control, Handling
  <2>2. Note(ssi_pcb, "ok") \notin Mail(a)'
    BY <1>1, <2>1 DEF NoNewOk, Flashing, FlashWait
  <2>3. ASSUME NEW b \in ASID, pc'[b] = "getWrite"
        PROVE  /\ do_io'[b] = [asid |-> swap_table'[frame'[b]].asid, cmd |-> "write",
                               page |-> swap_table'[frame'[b]].page]
               /\ Note(ssi_pcb, "ok") \in Mail(b)' =>
                    flash'[swap_table'[frame'[b]].owner][swap_table'[frame'[b]].page]
                      = ram'[frame'[b]]
    <3>1. CASE b = a
      BY <2>1, <2>2, <3>1
    <3>2. CASE b # a
      BY <1>1, <2>1, <2>3, <3>2 DEF Moved, NoNewOk
    <3> QED BY <3>1, <3>2
  <2>4. ASSUME NEW b \in ASID, pc'[b] = "getRead", Note(ssi_pcb, "ok") \in Mail(b)'
        PROVE  ram'[frame'[b]] = flash'[b][missing'[b]]
    BY ZenonT(30), <1>1, <2>1, <2>4 DEF Moved, NoNewOk
  <2>5. \A b \in ASID : pc'[b] \in {"claim", "map"} => ram'[frame'[b]] = flash'[b][missing'[b]]
    BY <1>1, <2>1 DEF Moved
  <2> QED BY <1>1, <2>3, <2>4, <2>5, MovedParts
<1>5. CASE AskRead(a)
  <2>1. /\ pc[a] = "askRead" /\ pc'[a] = "getRead" /\ UNCHANGED <<frame, swap_table>>
        /\ \A b \in ASID \ {a} : do_io'[b] = do_io[b]
    BY <1>5 DEF AskRead, FlashDev, At, Goto, Shape, Control, Handling
  <2>2. Note(ssi_pcb, "ok") \notin Mail(a)'
    BY <1>1, <2>1 DEF NoNewOk, Flashing, FlashWait
  <2>3. ASSUME NEW b \in ASID, pc'[b] = "getWrite"
        PROVE  /\ do_io'[b] = [asid |-> swap_table'[frame'[b]].asid, cmd |-> "write",
                               page |-> swap_table'[frame'[b]].page]
               /\ Note(ssi_pcb, "ok") \in Mail(b)' =>
                    flash'[swap_table'[frame'[b]].owner][swap_table'[frame'[b]].page]
                      = ram'[frame'[b]]
    BY <1>1, <2>1, <2>3 DEF Moved, NoNewOk
  <2>4. ASSUME NEW b \in ASID, pc'[b] = "getRead", Note(ssi_pcb, "ok") \in Mail(b)'
        PROVE  ram'[frame'[b]] = flash'[b][missing'[b]]
    <3>1. b # a
      BY <2>2, <2>4
    <3> QED BY <1>1, <2>1, <2>4, <3>1 DEF Moved, NoNewOk
  <2>5. \A b \in ASID : pc'[b] \in {"claim", "map"} => ram'[frame'[b]] = flash'[b][missing'[b]]
    BY <1>1, <2>1 DEF Moved
  <2> QED BY <1>1, <2>3, <2>4, <2>5, MovedParts
<1>6. CASE FlashDone(a)
  <2>1. /\ UNCHANGED <<frame, swap_table, do_io>>
        /\ \/ UNCHANGED pc
           \/ /\ Note(ssi_pcb, "ok") \in Mail(a)
              /\ \/ pc[a] = "getWrite" /\ pc'[a] = "askRead"
                 \/ pc[a] = "getRead" /\ pc'[a] = "claim"
    BY <1>6, FlashDoneMoves
  <2>2. \A b \in ASID : pc'[b] \in FlashWait => pc'[b] = pc[b]
    BY <1>1, <2>1 DEF FlashWait
  <2>3. ASSUME NEW b \in ASID, pc'[b] \in {"claim", "map"}
        PROVE  ram[frame[b]] = flash[b][missing[b]]
    BY <1>1, <2>1, <2>3 DEF Moved
  <2>4. ASSUME NEW b \in ASID, pc'[b] = "getWrite"
        PROVE  /\ do_io'[b] = [asid |-> swap_table'[frame'[b]].asid, cmd |-> "write",
                               page |-> swap_table'[frame'[b]].page]
               /\ Note(ssi_pcb, "ok") \in Mail(b)' =>
                    flash'[swap_table'[frame'[b]].owner][swap_table'[frame'[b]].page]
                      = ram'[frame'[b]]
    BY <1>1, <2>1, <2>2, <2>4 DEF Moved, NoNewOk, FlashWait
  <2>5. ASSUME NEW b \in ASID, pc'[b] = "getRead", Note(ssi_pcb, "ok") \in Mail(b)'
        PROVE  ram'[frame'[b]] = flash'[b][missing'[b]]
    BY <1>1, <2>1, <2>2, <2>5 DEF Moved, NoNewOk, FlashWait
  <2> QED BY <1>1, <2>1, <2>3, <2>4, <2>5, MovedParts
<1>7. ~(TrapRelease(a) \/ TrapAsk(a) \/ TrapGet(a) \/ TrapTell(a))
  <2>1. pc[a] \in UserPc
    BY DEF Shape, Control
  <2> QED BY <2>1 DEF TrapRelease, TrapAsk, TrapGet, TrapTell, Tell, Receive, At, UserPc
<1> QED BY <1>2, <1>3, <1>4, <1>5, <1>6, <1>7 DEF Handler

\* The transfer a flash device completes: its process is in flashDev(), and no
\* other process is between the grant and the release of the mutex.
LEMMA TransferOf ==
  ASSUME Shape, Locking, Flashing, Consistent, Moved, NEW d \in ASID, FlashInterrupt(d)
  PROVE  \E u \in ASID :
           /\ device[d].who = u /\ pc[u] \in FlashWait /\ Note(ssi_pcb, "ok") \notin Mail(u)
           /\ \A b \in ASID \ {u} : pc[b] \notin Critical
           /\ device[d].frame = frame[u] /\ frame[u] \in Frame /\ ~Mapped(frame[u])
           /\ pc[u] = "getWrite" =>
                /\ device[d].cmd = "write" /\ device[d].page \in Page
                /\ swap_table[frame[u]] = Entry(d, device[d].page)
           /\ pc[u] = "getRead" =>
                device[d].cmd = "read" /\ d = u /\ device[d].page = missing[u]
<1> USE ConstantFacts
<1>1. PICK u \in ASID : device[d].who = u
  BY DEF FlashInterrupt, Moved, Shape, Devices
<1>2. /\ pc[u] \in FlashWait /\ Note(ssi_pcb, "ok") \notin Mail(u)
      /\ d = do_io[u].asid /\ device[d].cmd = do_io[u].cmd
      /\ device[d].page = do_io[u].page /\ device[d].frame = frame[u]
  BY ZenonT(30), <1>1 DEF Flashing
<1>3. \A b \in ASID \ {u} : pc[b] \notin Critical
  BY <1>2, Alone DEF FlashWait, Critical
<1>4. frame[u] \in Frame /\ ~Mapped(frame[u])
  BY <1>2 DEF Consistent, Shape, Handling, FlashWait, Evicting
<1>5. ASSUME pc[u] = "getWrite"
      PROVE  /\ device[d].cmd = "write" /\ device[d].page \in Page
             /\ swap_table[frame[u]] = Entry(d, device[d].page)
  <2>0. do_io[u] = [asid |-> swap_table[frame[u]].asid, cmd |-> "write",
                    page |-> swap_table[frame[u]].page]
    BY <1>5 DEF Moved
  <2>1. /\ do_io[u].asid = swap_table[frame[u]].asid /\ do_io[u].cmd = "write"
        /\ do_io[u].page = swap_table[frame[u]].page
    BY <2>0
  <2>2. swap_table[frame[u]].asid # NOPROC
    BY <1>5 DEF Consistent
  <2>3. /\ swap_table[frame[u]].page \in Page
        /\ swap_table[frame[u]] = Entry(swap_table[frame[u]].asid, swap_table[frame[u]].page)
    BY <1>4, <2>2 DEF Consistent
  <2> QED BY <1>2, <2>1, <2>3
<1>6. pc[u] = "getRead" => device[d].cmd = "read" /\ d = u /\ device[d].page = missing[u]
  BY <1>2, Command
<1> QED BY <1>1, <1>2, <1>3, <1>4, <1>5, <1>6

LEMMA MovedFlash ==
  ASSUME Shape, Faulty = {}, Locking, Flashing, Stored, Consistent, Moved, NEW d \in ASID,
         FlashInterrupt(d)
  PROVE  Moved'
<1> USE ConstantFacts
<1>1. PICK u \in ASID :
        /\ pc[u] \in FlashWait /\ \A b \in ASID \ {u} : pc[b] \notin Critical
        /\ device[d].frame = frame[u] /\ frame[u] \in Frame
        /\ pc[u] = "getWrite" =>
             /\ device[d].cmd = "write" /\ device[d].page \in Page
             /\ swap_table[frame[u]] = Entry(d, device[d].page)
        /\ pc[u] = "getRead" => device[d].cmd = "read" /\ d = u /\ device[d].page = missing[u]
  BY TransferOf
<1>2. UNCHANGED <<pc, missing, frame, do_io, swap_table>>
  BY DEF FlashInterrupt
<1>3. \A b \in ASID : pc'[b] \in FlashWait \cup {"claim", "map"} => b = u
  BY <1>1, <1>2 DEF FlashWait, Critical
<1>4. \A e \in ASID : device'[e].cmd # "none" => device'[e].who # NULL
  BY DEF FlashInterrupt, Moved, Shape, Devices, Idle
<1>5. ASSUME NEW b \in ASID, pc'[b] = "getWrite"
      PROVE  /\ do_io'[b] = [asid |-> swap_table'[frame'[b]].asid, cmd |-> "write",
                             page |-> swap_table'[frame'[b]].page]
             /\ Note(ssi_pcb, "ok") \in Mail(b)' =>
                  flash'[swap_table'[frame'[b]].owner][swap_table'[frame'[b]].page]
                    = ram'[frame'[b]]
  <2>1. b = u /\ pc[u] = "getWrite"
    BY <1>2, <1>3, <1>5 DEF FlashWait
  <2>2. /\ ram' = ram /\ flash' = [flash EXCEPT ![d][device[d].page] = ram[frame[u]]]
        /\ device[d].page \in Page
    BY <1>1, <2>1, TransferFacts
  <2>3. flash'[d][device[d].page] = ram[frame[u]]
    BY <2>2 DEF Stored
  <2>4. swap_table[frame[u]].owner = d /\ swap_table[frame[u]].page = device[d].page
    BY <1>1, <2>1 DEF Entry
  <2>5. do_io[u] = [asid |-> swap_table[frame[u]].asid, cmd |-> "write",
                    page |-> swap_table[frame[u]].page]
    BY <2>1 DEF Moved
  <2> QED BY <1>2, <2>1, <2>2, <2>3, <2>4, <2>5
<1>6. ASSUME NEW b \in ASID, pc'[b] = "getRead", Note(ssi_pcb, "ok") \in Mail(b)'
      PROVE  ram'[frame'[b]] = flash'[b][missing'[b]]
  <2>1. b = u /\ pc[u] = "getRead"
    BY <1>2, <1>3, <1>6 DEF FlashWait
  <2>2. flash' = flash /\ ram'[frame[u]] = flash[u][missing[u]]
    BY <1>1, <2>1, TransferFacts
  <2> QED BY <1>2, <2>1, <2>2
<1>7. \A b \in ASID : pc'[b] \notin {"claim", "map"}
  BY <1>1, <1>2, <1>3 DEF FlashWait
<1> QED BY <1>4, <1>5, <1>6, <1>7, MovedParts

LEMMA MovedNext ==
  Sound /\ Computing /\ Consistent /\ Moved /\ Faulty = {} /\ [Next]_vars => Moved'
<1> SUFFICES ASSUME Sound, Computing, Consistent, Moved, Faulty = {}, [Next]_vars PROVE Moved'
  OBVIOUS
<1> USE ConstantFacts
<1>0. Shape /\ Locking /\ Asking /\ Flashing /\ Stored
  BY DEF Sound
<1>1. CASE \E a \in ASID : User(a) \/ Handler(a) \/ FlashInterrupt(a)
  BY <1>0, <1>1, MovedUser, MovedHandler, MovedFlash
<1>2. CASE (\E a \in ASID : SstStep(a)) \/ SwapMutex \/ Ssi \/ (\E p \in Proc : Preempt(p))
           \/ UNCHANGED vars
  <2>1. \A b \in ASID : ~Clear(b)
    BY DEF Clear, At, Computing
  <2>2. UNCHANGED <<missing, frame, do_io, swap_table, ram, flash>>
    BY <1>2, <2>1
       DEF SstStep, Serve, Scan, Suicide, SwapMutex, MutexAny, MutexGive,
           MutexWait, Ssi, SsiBlock, SsiSupport, SsiDoIO, SsiKill, Kill, Preempt, vars, Tell, Receive
  <2>3. \A b \in ASID : pc'[b] = pc[b]
    BY <1>0, <1>2, OthersKeepPc
  <2>4. NoNewOk
    <3>1. CASE (\E p \in Proc : Preempt(p)) \/ UNCHANGED vars
      BY <3>1 DEF Preempt, vars, NoNewOk, Mail
    <3> QED BY <1>0, <1>2, <3>1, SstNoOk, MutexNoOk, SsiNoOk
  <2>5. \A d \in ASID : device'[d].cmd # "none" => device'[d].who # NULL
    <3>1. CASE SsiDoIO
      <4>1. PICK u \in ASID : u = sender
        BY <1>0, <3>1, SenderFacts DEF SsiDoIO
      <4>2. \A d \in ASID : device'[d] = device[d] \/ device'[d].who = u
        BY <1>0, <3>1, <4>1 DEF SsiDoIO, Shape, Devices
      <4> QED BY <4>2 DEF Moved
    <3>2. ~SsiKill
      BY <1>0, KillMail DEF Computing
    <3>3. CASE ~SsiDoIO
      <4>1. UNCHANGED device
        BY <1>2, <3>2, <3>3
           DEF SstStep, Serve, Scan, Clear, Suicide, SwapMutex, MutexAny, MutexGive, MutexWait,
               Ssi, SsiBlock, SsiSupport, Preempt, vars, Tell, Receive
      <4> QED BY <4>1 DEF Moved
    <3> QED BY <3>1, <3>3
  <2> QED BY <2>2, <2>3, <2>4, <2>5, MovedQuiet
<1> QED BY <1>1, <1>2 DEF Next
------------------------------------------------------------------------------
(* Paging is invisible: every step is a step of VirtualMemory.              *)

\* Process u writes out page x of process a, or is about to.
Writing(u, a, x) ==
  pc[u] \in {"askWrite", "getWrite"} /\ swap_table[frame[u]].owner = a
    /\ swap_table[frame[u]].page = x

\* Where the contents of page x of process a are.
Held(a, x) ==
  /\ privatePgTbl[a][x] \in Frame => mem[a][x] = ram[privatePgTbl[a][x]]
  /\ privatePgTbl[a][x] \notin Frame =>
       /\ \A u \in ASID : Writing(u, a, x) => mem[a][x] = ram[frame[u]]
       /\ (\A u \in ASID : ~Writing(u, a, x)) => mem[a][x] = flash[a][x]

LEMMA HeldAlways == Sound => \A a \in ASID, x \in Page : Held(a, x)
<1> SUFFICES ASSUME Sound, NEW a \in ASID, NEW x \in Page PROVE Held(a, x)
  OBVIOUS
<1>0. Shape /\ Locking
  BY DEF Sound
<1>1. mem[a][x] = IF privatePgTbl[a][x] \in Frame THEN ram[privatePgTbl[a][x]]
                  ELSE IF BeingWritten(a, x) # {} THEN ram[CHOOSE f \in BeingWritten(a, x) : TRUE]
                  ELSE flash[a][x]
  BY DEF mem
<1>2. ASSUME NEW u \in ASID, Writing(u, a, x) PROVE BeingWritten(a, x) = {frame[u]}
  <2>1. frame[u] \in BeingWritten(a, x)
    BY <1>0, <1>2 DEF Writing, BeingWritten, Shape, Handling
  <2>2. ASSUME NEW f \in BeingWritten(a, x) PROVE f = frame[u]
    <3>1. PICK w \in ASID : pc[w] \in {"askWrite", "getWrite"} /\ frame[w] = f
      BY DEF BeingWritten
    <3>2. w = u
      BY <1>0, <1>2, <3>1, Alone DEF Writing, Critical
    <3> QED BY <3>1, <3>2
  <2> QED BY <2>1, <2>2
<1>3. (\A u \in ASID : ~Writing(u, a, x)) => BeingWritten(a, x) = {}
  BY DEF Writing, BeingWritten
<1>4. ASSUME NEW u \in ASID, Writing(u, a, x), privatePgTbl[a][x] \notin Frame
      PROVE  mem[a][x] = ram[frame[u]]
  <2>1. BeingWritten(a, x) = {frame[u]}
    BY <1>2, <1>4
  <2>2. (CHOOSE f \in BeingWritten(a, x) : TRUE) = frame[u]
    BY <2>1
  <2>3. BeingWritten(a, x) # {}
    BY <2>1
  <2> HIDE DEF BeingWritten
  <2> QED BY <1>1, <1>4, <2>2, <2>3
<1> QED BY <1>1, <1>3, <1>4 DEF Held

MemShape == mem = [a \in ASID |-> [x \in Page |-> mem[a][x]]]

LEMMA MemShapeAlways == MemShape
BY DEF mem, MemShape

\* A page that stays where it is, in a frame or block that keeps its contents.
LEMMA MemKept ==
  ASSUME NEW a \in ASID, NEW x \in Page, Held(a, x), Held(a, x)',
         privatePgTbl'[a][x] = privatePgTbl[a][x],
         privatePgTbl[a][x] \in Frame => ram'[privatePgTbl[a][x]] = ram[privatePgTbl[a][x]],
         \A u \in ASID : /\ Writing(u, a, x)' <=> Writing(u, a, x)
                         /\ Writing(u, a, x) =>
                              frame'[u] = frame[u] /\ ram'[frame[u]] = ram[frame[u]],
         flash'[a][x] = flash[a][x] \/ \E u \in ASID : Writing(u, a, x)
  PROVE  mem'[a][x] = mem[a][x]
BY DEF Held

LEMMA MemSame ==
  ASSUME \A a \in ASID, x \in Page : mem'[a][x] = mem[a][x]
  PROVE  mem' = mem
<1>1. mem = [a \in ASID |-> [x \in Page |-> mem[a][x]]]
  BY MemShapeAlways DEF MemShape
<1>2. mem' = [a \in ASID |-> [x \in Page |-> mem'[a][x]]]
  <2>1. MemShape'
    BY MemShapeAlways, PTL
  <2> QED BY <2>1 DEF MemShape
<1> QED BY <1>1, <1>2

\* The obligations of a step: the invariants before and after it.
Everything == Sound /\ Consistent /\ Moved /\ \A a \in ASID, x \in Page : Held(a, x)

LEMMA MemQuiet ==
  ASSUME Everything, Everything', UNCHANGED <<swap_table, privatePgTbl, ram, flash>>,
         \A u \in ASID : \/ pc'[u] = pc[u] /\ frame'[u] = frame[u]
                         \/ {pc[u], pc'[u]} \cap {"askWrite", "getWrite"} = {}
                         \/ /\ {pc[u], pc'[u]} \subseteq {"askWrite", "getWrite"}
                            /\ frame'[u] = frame[u]
  PROVE  mem' = mem
<1> SUFFICES ASSUME NEW a \in ASID, NEW x \in Page PROVE mem'[a][x] = mem[a][x]
  BY MemSame
<1>1. Held(a, x) /\ Held(a, x)'
  BY DEF Everything
<1>2. \A u \in ASID : /\ Writing(u, a, x)' <=> Writing(u, a, x)
                      /\ Writing(u, a, x) => frame'[u] = frame[u]
  BY DEF Writing
<1> QED BY <1>1, <1>2, MemKept

LEMMA MemWrite ==
  ASSUME Everything, Everything', NEW a \in ASID, Write(a)
  PROVE  VM!Write(a)
<1>1. PICK x \in Page, v \in Value :
        /\ privatePgTbl[a][x] \in Frame /\ ram'[privatePgTbl[a][x]] = v
        /\ \A f \in Frame \ {privatePgTbl[a][x]} : ram'[f] = ram[f]
        /\ \A b \in ASID : pc[b] \in Evicting \cup {"map"} =>
             frame[b] # privatePgTbl[a][x] /\ ram'[frame[b]] = ram[frame[b]]
  BY WriteFacts DEF Everything, Sound
<1>2. UNCHANGED <<current_process, pc, frame, swap_table, privatePgTbl, flash>> /\ current_process = a
  BY DEF Write, MayTouch, At
<1>3. mem'[a][x] = v
  BY <1>1, <1>2 DEF Everything, Held
<1>4. ASSUME NEW b \in ASID, NEW y \in Page, b # a \/ y # x PROVE mem'[b][y] = mem[b][y]
  <2>1. Held(b, y) /\ Held(b, y)'
    BY DEF Everything
  <2>2. \A u \in ASID : /\ Writing(u, b, y)' <=> Writing(u, b, y)
                        /\ Writing(u, b, y) => frame'[u] = frame[u] /\ ram'[frame[u]] = ram[frame[u]]
    BY <1>1, <1>2 DEF Writing, Evicting
  <2>3. privatePgTbl[b][y] \in Frame => privatePgTbl[b][y] # privatePgTbl[a][x]
    BY <1>1, <1>4, MappedOnce DEF Everything, Sound
  <2> QED BY <1>1, <1>2, <2>1, <2>2, <2>3, MemKept
<1>5. mem' = [mem EXCEPT ![a][x] = v]
  <2>1. mem = [b \in ASID |-> [y \in Page |-> mem[b][y]]]
    BY MemShapeAlways DEF MemShape
  <2>2. mem' = [b \in ASID |-> [y \in Page |-> mem'[b][y]]]
    <3>1. MemShape'
      BY MemShapeAlways, PTL
    <3> QED BY <3>1 DEF MemShape
  <2> QED BY <1>3, <1>4, <2>1, <2>2
<1> QED BY <1>2, <1>5 DEF VM!Write

LEMMA MemUser ==
  ASSUME Everything, Everything', NEW a \in ASID, User(a), ~Write(a)
  PROVE  mem' = mem
<1> USE ConstantFacts
<1>1. Shape
  BY DEF Everything, Sound
<1>2. UNCHANGED <<frame, swap_table, privatePgTbl, ram, flash>>
  BY DEF User, Refill, Fault, Quit, AwaitEnd, Receive
<1>3. /\ \A b \in ASID \ {a} : pc'[b] = pc[b]
      /\ pc[a] = "user" /\ pc'[a] \in {"user", "askSupport"}
  BY <1>1 DEF User, Refill, Fault, Quit, AwaitEnd, Receive, Block, Goto, Shape, Control, MayTouch, At
<1> QED BY <1>2, <1>3, MemQuiet

\* The page in the frame leaves the page table; its contents stay in the frame.
LEMMA MemInvalidate ==
  ASSUME Everything, Everything', NEW a \in ASID, Invalidate(a)
  PROVE  mem' = mem
<1> USE ConstantFacts
<1>0. Shape /\ Locking /\ Consistent
  BY DEF Everything, Sound
<1>1. /\ pc[a] = "invalidate" /\ pc'[a] = "askWrite" /\ \A q \in Proc \ {a} : pc'[q] = pc[q]
      /\ UNCHANGED <<frame, swap_table, ram, flash>> /\ frame[a] \in Frame
  BY <1>0 DEF Invalidate, Internal, At, Goto, Shape, Control, Handling
<1>2. PICK b \in ASID, y \in Page :
        /\ swap_table[frame[a]].page = y /\ swap_table[frame[a]].owner = b
        /\ privatePgTbl[b][y] = frame[a] /\ privatePgTbl'[b][y] = INVALID
        /\ \A c \in ASID, z \in Page : c # b \/ z # y => privatePgTbl'[c][z] = privatePgTbl[c][z]
  BY <1>0, InvalidateFacts
<1>3. \A u \in ASID \ {a} : pc[u] \notin {"askWrite", "getWrite"}
  BY <1>0, <1>1, Alone DEF Critical
<1>4. \A u \in ASID, c \in ASID, z \in Page :
        ~Writing(u, c, z) /\ (Writing(u, c, z)' <=> u = a /\ c = b /\ z = y)
  BY <1>1, <1>2, <1>3 DEF Writing
<1> SUFFICES ASSUME NEW c \in ASID, NEW z \in Page PROVE mem'[c][z] = mem[c][z]
  BY MemSame
<1>5. Held(c, z) /\ Held(c, z)'
  BY DEF Everything
<1>6. CASE c = b /\ z = y
  <2>1. mem[c][z] = ram[frame[a]]
    BY <1>1, <1>2, <1>5, <1>6 DEF Held
  <2>2. mem'[c][z] = ram'[frame'[a]]
    BY <1>1, <1>2, <1>4, <1>5, <1>6 DEF Held
  <2> QED BY <1>1, <2>1, <2>2
<1>7. CASE c # b \/ z # y
  BY <1>1, <1>2, <1>4, <1>5, <1>7, MemKept
<1> QED BY <1>6, <1>7

\* The end of a transfer: what was written out is what the frame holds.
LEMMA MemFlashDone ==
  ASSUME Everything, Everything', NEW a \in ASID, FlashDone(a)
  PROVE  mem' = mem
<1> USE ConstantFacts
<1>0. Shape /\ Locking /\ Asking /\ Flashing /\ Consistent /\ Moved
  BY DEF Everything, Sound
<1>1. /\ UNCHANGED <<frame, swap_table, privatePgTbl, ram, flash>>
      /\ \A q \in Proc \ {a} : pc'[q] = pc[q]
      /\ \/ UNCHANGED pc
         \/ /\ Note(ssi_pcb, "ok") \in Mail(a)
            /\ \/ pc[a] = "getWrite" /\ pc'[a] = "askRead"
               \/ pc[a] = "getRead" /\ pc'[a] = "claim"
  BY <1>0, FlashDoneMoves
<1>2. CASE UNCHANGED pc \/ (pc[a] = "getRead" /\ pc'[a] = "claim")
  BY <1>1, <1>2, MemQuiet
<1>3. CASE Note(ssi_pcb, "ok") \in Mail(a) /\ pc[a] = "getWrite" /\ pc'[a] = "askRead"
  <2>1. flash[swap_table[frame[a]].owner][swap_table[frame[a]].page] = ram[frame[a]]
    BY <1>0, <1>3 DEF Moved
  <2>2. \A u \in ASID \ {a} : pc[u] \notin {"askWrite", "getWrite"}
    BY <1>0, <1>3, Alone DEF Critical
  <2>3. \A u \in ASID, c \in ASID, z \in Page :
          ~Writing(u, c, z)' /\ (Writing(u, c, z) => u = a)
    BY <1>1, <1>3, <2>2 DEF Writing
  <2> SUFFICES ASSUME NEW c \in ASID, NEW z \in Page PROVE mem'[c][z] = mem[c][z]
    BY MemSame
  <2>4. Held(c, z) /\ Held(c, z)'
    BY DEF Everything
  <2>5. CASE Writing(a, c, z) /\ privatePgTbl[c][z] \notin Frame
    <3>1. mem[c][z] = ram[frame[a]]
      BY <2>4, <2>5 DEF Held
    <3>2. mem'[c][z] = flash'[c][z]
      BY <1>1, <2>3, <2>4, <2>5 DEF Held
    <3>3. flash[c][z] = ram[frame[a]]
      BY <2>1, <2>5 DEF Writing
    <3> QED BY <1>1, <3>1, <3>2, <3>3
  <2>6. CASE ~Writing(a, c, z) \/ privatePgTbl[c][z] \in Frame
    BY <1>1, <2>3, <2>4, <2>6 DEF Held
  <2> QED BY <2>5, <2>6
<1> QED BY <1>1, <1>2, <1>3

\* The entry of the swap table is replaced when nothing is written out any more.
LEMMA MemClaim ==
  ASSUME Everything, Everything', NEW a \in ASID, Claim(a)
  PROVE  mem' = mem
<1> USE ConstantFacts
<1>0. Shape /\ Locking
  BY DEF Everything, Sound
<1>1. /\ pc[a] = "claim" /\ pc'[a] = "map" /\ \A q \in Proc \ {a} : pc'[q] = pc[q]
      /\ UNCHANGED <<privatePgTbl, ram, flash>>
  BY <1>0 DEF Claim, Internal, At, Goto, Shape, Control
<1>2. \A u \in ASID : pc[u] \notin {"askWrite", "getWrite"} /\ pc'[u] \notin {"askWrite", "getWrite"}
  BY <1>0, <1>1, Alone DEF Critical
<1>3. \A u \in ASID, c \in ASID, z \in Page : ~Writing(u, c, z) /\ ~Writing(u, c, z)'
  BY <1>2 DEF Writing
<1> SUFFICES ASSUME NEW c \in ASID, NEW z \in Page PROVE mem'[c][z] = mem[c][z]
  BY MemSame
<1>4. Held(c, z) /\ Held(c, z)'
  BY DEF Everything
<1> QED BY <1>1, <1>3, <1>4, MemKept

\* The page table points to a frame into which the page was read.
LEMMA MemMap ==
  ASSUME Everything, Everything', NEW a \in ASID, Map(a)
  PROVE  mem' = mem
<1> USE ConstantFacts
<1>0. Shape /\ Locking /\ Consistent /\ Moved
  BY DEF Everything, Sound
<1>1. /\ pc[a] = "map" /\ pc'[a] = "release" /\ \A q \in Proc \ {a} : pc'[q] = pc[q]
      /\ UNCHANGED <<frame, swap_table, ram, flash>>
      /\ missing[a] \in Page /\ frame[a] \in Frame
  BY <1>0 DEF Map, Internal, At, Goto, Shape, Control, Handling
<1>2. /\ privatePgTbl'[a][missing[a]] = frame[a]
      /\ \A c \in ASID, z \in Page : c # a \/ z # missing[a] =>
           privatePgTbl'[c][z] = privatePgTbl[c][z]
  BY <1>0, <1>1 DEF Map, Shape, Translation
<1>3. privatePgTbl[a][missing[a]] = INVALID /\ ram[frame[a]] = flash[a][missing[a]]
  BY <1>0, <1>1 DEF Consistent, Moved
<1>4. \A u \in ASID : pc[u] \notin {"askWrite", "getWrite"} /\ pc'[u] \notin {"askWrite", "getWrite"}
  BY <1>0, <1>1, Alone DEF Critical
<1>5. \A u \in ASID, c \in ASID, z \in Page : ~Writing(u, c, z) /\ ~Writing(u, c, z)'
  BY <1>4 DEF Writing
<1> SUFFICES ASSUME NEW c \in ASID, NEW z \in Page PROVE mem'[c][z] = mem[c][z]
  BY MemSame
<1>6. Held(c, z) /\ Held(c, z)'
  BY DEF Everything
<1>7. CASE c = a /\ z = missing[a]
  <2>1. mem[c][z] = flash[a][missing[a]]
    BY <1>3, <1>5, <1>6, <1>7 DEF Held
  <2>2. mem'[c][z] = ram'[frame[a]]
    BY <1>1, <1>2, <1>6, <1>7 DEF Held
  <2> QED BY <1>1, <1>3, <2>1, <2>2
<1>8. CASE c # a \/ z # missing[a]
  BY <1>1, <1>2, <1>5, <1>6, <1>8, MemKept
<1> QED BY <1>7, <1>8

LEMMA MemHandler ==
  ASSUME Everything, Everything', NEW a \in ASID, Handler(a)
  PROVE  mem' = mem
<1> USE ConstantFacts
<1>0. Shape
  BY DEF Everything, Sound
<1>1. CASE Invalidate(a) \/ FlashDone(a) \/ Claim(a) \/ Map(a)
  BY <1>1, MemInvalidate, MemFlashDone, MemClaim, MemMap
<1>2. CASE AskSupport(a) \/ GetSupport(a) \/ AskMutex(a) \/ GetMutex(a) \/ CheckFrame(a)
           \/ AskWrite(a) \/ AskRead(a) \/ Release(a)
  <2>1. UNCHANGED <<frame, swap_table, privatePgTbl, ram, flash>>
    BY <1>2 DEF AskSupport, GetSupport, AskMutex, GetMutex, CheckFrame, AskWrite, AskRead, Release,
                Tell, Receive, FlashDev, Internal
  <2>2. \A b \in ASID \ {a} : pc'[b] = pc[b]
    BY HandlerFrame, <1>0
  <2>3. \/ {pc[a], pc'[a]} \cap {"askWrite", "getWrite"} = {}
        \/ {pc[a], pc'[a]} \subseteq {"askWrite", "getWrite"}
    BY <1>0, <1>2
       DEF AskSupport, GetSupport, AskMutex, GetMutex, CheckFrame, AskWrite, AskRead, Release,
           Tell, Receive, FlashDev, Internal, At, Block, Goto, Shape, Control
  <2> QED BY <2>1, <2>2, <2>3, MemQuiet
<1>3. CASE SelectFrame(a)
  <2>1. /\ UNCHANGED <<swap_table, privatePgTbl, ram, flash>>
        /\ pc[a] = "select" /\ pc'[a] = "check"
        /\ \A b \in ASID \ {a} : pc'[b] = pc[b] /\ frame'[b] = frame[b]
    BY <1>0, <1>3, SelectFrameFacts DEF SelectFrame, Internal, At, Goto, Shape, Control
  <2> QED BY <2>1, MemQuiet
<1>4. ~(TrapRelease(a) \/ TrapAsk(a) \/ TrapGet(a) \/ TrapTell(a))
  <2>1. pc[a] \in UserPc
    BY <1>0 DEF Shape, Control
  <2> QED BY <2>1 DEF TrapRelease, TrapAsk, TrapGet, TrapTell, Tell, Receive, At, UserPc
<1> QED BY <1>1, <1>2, <1>3, <1>4 DEF Handler

\* A transfer fills a frame that holds no page yet, or brings a block up to date
\* whose page is still looked for in its frame.
LEMMA MemFlash ==
  ASSUME Everything, Everything', Faulty = {}, NEW d \in ASID, FlashInterrupt(d)
  PROVE  mem' = mem
<1> USE ConstantFacts
<1>0. Shape /\ Locking /\ Flashing /\ Stored /\ Consistent /\ Moved
  BY DEF Everything, Sound
<1>1. PICK u \in ASID :
        /\ pc[u] \in FlashWait /\ \A b \in ASID \ {u} : pc[b] \notin Critical
        /\ device[d].frame = frame[u] /\ frame[u] \in Frame /\ ~Mapped(frame[u])
        /\ pc[u] = "getWrite" =>
             /\ device[d].cmd = "write" /\ device[d].page \in Page
             /\ swap_table[frame[u]] = Entry(d, device[d].page)
        /\ pc[u] = "getRead" => device[d].cmd = "read" /\ d = u /\ device[d].page = missing[u]
  BY <1>0, TransferOf
<1>2. UNCHANGED <<pc, frame, swap_table, privatePgTbl>>
  BY DEF FlashInterrupt
<1> SUFFICES ASSUME NEW c \in ASID, NEW z \in Page PROVE mem'[c][z] = mem[c][z]
  BY MemSame
<1>3. /\ Held(c, z) /\ Held(c, z)'
      /\ privatePgTbl[c][z] # frame[u]
      /\ \A w \in ASID : Writing(w, c, z)' <=> Writing(w, c, z)
  BY <1>1, <1>2 DEF Everything, Mapped, Writing
<1>4. \A w \in ASID : Writing(w, c, z) => w = u
  BY <1>1 DEF Writing, Critical
<1>5. CASE pc[u] = "getRead"
  <2>1. flash' = flash /\ \A f \in Frame \ {frame[u]} : ram'[f] = ram[f]
    BY <1>0, <1>1, <1>5, TransferFacts
  <2>2. \A w \in ASID : ~Writing(w, c, z)
    BY <1>4, <1>5 DEF Writing
  <2>3. /\ privatePgTbl'[c][z] = privatePgTbl[c][z] /\ flash'[c][z] = flash[c][z]
        /\ privatePgTbl[c][z] \in Frame => ram'[privatePgTbl[c][z]] = ram[privatePgTbl[c][z]]
    BY <1>2, <1>3, <2>1
  <2> QED BY <1>3, <2>2, <2>3, MemKept
<1>6. CASE pc[u] = "getWrite"
  <2>1. ram' = ram /\ flash' = [flash EXCEPT ![d][device[d].page] = ram[frame[u]]]
    BY <1>0, <1>1, <1>6, TransferFacts
  <2>2. PICK y \in Page : y = device[d].page
    BY <1>1, <1>6
  <2>3. c # d \/ z # y => flash'[c][z] = flash[c][z]
    BY <1>0, <2>1, <2>2 DEF Stored
  <2>4. c = d /\ z = y => Writing(u, c, z)
    <3>1. swap_table[frame[u]].owner = d /\ swap_table[frame[u]].page = y
      BY <1>1, <1>6, <2>2 DEF Entry
    <3> QED BY <1>6, <3>1 DEF Writing
  <2> QED BY <1>2, <1>3, <2>1, <2>3, <2>4, MemKept
<1> QED BY <1>1, <1>5, <1>6 DEF FlashWait

LEMMA MemSystem ==
  ASSUME Everything, Everything', Computing,
         (\E a \in ASID : SstStep(a)) \/ SwapMutex \/ Ssi \/ (\E p \in Proc : Preempt(p))
  PROVE  mem' = mem
<1>1. \A b \in ASID : ~Clear(b)
  BY DEF Clear, At, Computing
<1>2. UNCHANGED <<frame, swap_table, privatePgTbl, ram, flash>>
  BY <1>1
     DEF SstStep, Serve, Scan, Suicide, SwapMutex, MutexAny, MutexGive,
         MutexWait, Ssi, SsiBlock, SsiSupport, SsiDoIO, SsiKill, Kill, Preempt, Tell, Receive
<1>3. \A b \in ASID : pc'[b] = pc[b]
  BY OthersKeepPc DEF Everything, Sound
<1> QED BY <1>2, <1>3, MemQuiet

LEMMA MemInit == Init => VM!Init
<1> SUFFICES ASSUME Init PROVE mem = image
  BY DEF VM!Init
<1>1. ASSUME NEW a \in ASID, NEW x \in Page PROVE mem[a][x] = image[a][x]
  <2>1. privatePgTbl[a][x] = INVALID /\ flash = image
    BY <1>1 DEF Init
  <2>2. \A u \in ASID : ~Writing(u, a, x)
    BY ConstantFacts DEF Init, Writing
  <2>3. Held(a, x)
    BY SoundInit, HeldAlways
  <2> QED BY <2>1, <2>2, <2>3, ConstantFacts DEF Held
<1>2. mem = [a \in ASID |-> [x \in Page |-> mem[a][x]]]
  BY MemShapeAlways DEF MemShape
<1>3. image = [a \in ASID |-> [x \in Page |-> image[a][x]]]
  BY PagerAssumption
<1> QED BY <1>1, <1>2, <1>3

LEMMA MemNext ==
  ASSUME Everything, Everything', Computing, Faulty = {}, [Next]_vars
  PROVE  [VM!Next]_(VM!vars)
<1>1. CASE \E a \in ASID : Write(a)
  <2>1. PICK a \in ASID : Write(a)
    BY <1>1
  <2>2. VM!Write(a)
    BY <2>1, MemWrite
  <2> QED BY <2>2 DEF VM!Next
<1>2. CASE \E a \in ASID : (User(a) /\ ~Write(a)) \/ Handler(a) \/ FlashInterrupt(a)
  <2>1. mem' = mem
    BY <1>2, MemUser, MemHandler, MemFlash
  <2> QED BY <2>1 DEF VM!Next, VM!Switch
<1>3. CASE (\E a \in ASID : SstStep(a)) \/ SwapMutex \/ Ssi \/ (\E p \in Proc : Preempt(p))
  <2>1. mem' = mem
    BY <1>3, MemSystem
  <2> QED BY <2>1 DEF VM!Next, VM!Switch
<1>4. CASE UNCHANGED vars
  <2>1. mem' = mem
    BY <1>4, MemQuiet DEF vars
  <2> QED BY <2>1 DEF VM!Next, VM!Switch
<1> QED BY <1>1, <1>2, <1>3, <1>4 DEF Next, User

\* Paging is invisible to the programs: with flash devices that do not fail and
\* processes that compute on, what a page holds changes only when its own process,
\* running, stores to it: not when another process's page takes its frame, while
\* it is on its way to the flash device and back, nor when the TLB is refilled in
\* the middle (pageFaultExceptionHandler(), flashDev(), deviceInterrupt()).
THEOREM PagerTransparent == ASSUME Faulty = {}, Quitters = {} PROVE Spec => Transparent
<1>1. Init => Sound /\ Computing /\ Consistent /\ Moved
  BY SoundInit, ComputingInit, ConsistentInit, MovedInit
<1>2. Sound /\ Computing /\ Consistent /\ Moved /\ [Next]_vars =>
        Sound' /\ Computing' /\ Consistent' /\ Moved'
  BY SoundNext, ComputingNext, ConsistentNext, MovedNext DEF Sound
<1>3. Sound /\ Consistent /\ Moved => Everything
  BY HeldAlways DEF Everything
<1>4. Everything /\ Everything' /\ Computing /\ [Next]_vars => [VM!Next]_(VM!vars)
  BY MemNext
<1>5. Spec => [](Sound /\ Computing /\ Consistent /\ Moved)
  BY <1>1, <1>2, PTL DEF Spec
<1>6. Spec => [](Everything /\ Computing)
  BY <1>3, <1>5, PTL
<1>7. Spec => VM!Init /\ [][VM!Next]_(VM!vars)
  BY <1>4, <1>6, MemInit, PTL DEF Spec
<1> QED BY <1>7 DEF Transparent, VM!Spec
==============================================================================
