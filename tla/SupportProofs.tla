---------------------------- MODULE SupportProofs ----------------------------
(****************************************************************************)
(* Theorems about Support, for any number of programs, any services and     *)
(* texts they may ask for and any pressure on their pages.                  *)
(*                                                                          *)
(* What makes the support level work is that all who talk to each other in  *)
(* it talk in turns: a process has at most one message of its own in        *)
(* anyone's inbox.  The invariant follows that message.                     *)
(****************************************************************************)
EXTENDS Support, DeviceMapProofs, QueueLemmas, FiniteSetTheorems

\* The tuples of variables, expanded in most leaves.
USE DEF nucleus, counting, programs, writing, devices, memory, Quiet

(* The inductive invariant. *)

\* Who wrote the messages of an inbox.
Writers(s) == {m.from : m \in ToSet(s)}
From(q) == Writers(msg_inbox[q])

\* At most one message of each writer.
Distinct(s) == \A i, j \in DOMAIN s : s[i].from = s[j].from => i = j

\* Where the two processes of a program are, or will be after a page fault.
SstWhere(a) == Where(a, Sst(a))
UprocWhere(a) == Where(a, Uproc(a))

\* A pointer into a text is at one of its suffixes.
String == {<<>>} \cup UNION {Suffixes(t.string) : t \in UNION {prints[a] : a \in Asid}}
Request == [service : Service, string : String, length : Nat]

TestSteps == {"newSwap", "getSwap", "newSst", "getSst", "count", "suicide", "dying"}
SstSteps == {"newChild", "getChild", "serve", "decode", "print", "printWait", "advance",
             "answer", "tellTest", "suicide", "dying", "fault", "foreign"}
UprocSteps == {"user", "send", "sent", "recv", "fault", "trapRelease", "trapTell", "lost",
               "foreign", "nested"}

\* Types, and where each process may be.
Types ==
  /\ alive \subseteq Proc /\ pc \in [Proc -> Steps] /\ msg_inbox \in [Proc -> Seq(Message)]
  /\ asid \in 1..(UPROCMAX + 1) /\ uProcCount \in 0..UPROCMAX
  /\ request \in [Asid -> Request \cup {NULL}]
  /\ requests \in [Asid -> Nat] /\ printed \in [Asid -> Nat]
  /\ DOMAIN do_io = Asid
  /\ devQueue \in [Device -> Proc \cup {NULL}] /\ printing \in [Device -> Char \cup {NULL}]
  /\ output \in [Device -> Seq(Char)]
  /\ page \in [Asid -> {"tlb", "memory", "absent"}]
  /\ exceptState \in [Asid -> [who : SupportProcs \cup {NULL}, at : Steps]]
  /\ evictions \in 0..MaxEvictions
Commands(a) == {CmdAddr(PrinterDev(a)), CmdAddr(TerminalDev(a))}
Control ==
  /\ pc[Ssi] = "serve" /\ pc[Swap] = "serve" /\ pc[Test] \in TestSteps
  /\ \A a \in Asid :
       /\ pc[Sst(a)] \in SstSteps /\ pc[Uproc(a)] \in UprocSteps
       /\ exceptState[a].who \in {Sst(a), Uproc(a), NULL}
       /\ exceptState[a].who = Sst(a) => exceptState[a].at \in {"decode", "print", "advance"}
       /\ exceptState[a].who = Uproc(a) => exceptState[a].at \in {"user", "sent"}
       /\ do_io[a] \in [commandAddr : Commands(a), char : Char \cup {NULL}]

\* Who may write to q, which receives at most one message of each.
Client == {Test} \cup {Sst(a) : a \in Asid}
MayWrite(w, q) ==
  \/ q = Ssi /\ w \in Client
  \/ q = Test /\ (w = Ssi \/ \E a \in Asid : w = Sst(a))
  \/ \E a \in Asid : \/ q = Sst(a) /\ (w = Ssi \/ w = Uproc(a))
                     \/ q = Uproc(a) /\ w = Sst(a)
Letters ==
  \A q \in Proc \ {Swap} : Distinct(msg_inbox[q]) /\ \A w \in From(q) : MayWrite(w, q)

\* test() makes the SSTs one by one, and each SST its program.
Born(a) == a < asid \/ (a = asid /\ pc[Test] = "getSst" /\ Ssi \in From(Test))
Parent(a) == pc[Sst(a)] # "newChild" /\ (pc[Sst(a)] = "getChild" => Ssi \in From(Sst(a)))
Family(a) ==
  /\ ~Born(a) => Sst(a) \notin alive /\ pc[Sst(a)] = "newChild"
  /\ Sst(a) \notin alive => pc[Sst(a)] \in {"newChild", "suicide", "dying"}
  /\ ~Parent(a) => Uproc(a) \notin alive /\ pc[Uproc(a)] = "user"
  /\ Parent(a) => (Sst(a) \in alive <=> Uproc(a) \in alive)
Births ==
  /\ Ssi \in alive
  /\ Test \in alive \/ pc[Test] = "dying"
  /\ pc[Test] \in {"newSwap", "getSwap"} => asid = 1
  /\ pc[Test] \in {"newSst", "getSst"} => asid \in Asid
  /\ \A a \in Asid : Family(a)

\* A client of the SSI asks, waits and is answered: one after the other.
Waits(c) == IF c = Test THEN {"getSwap", "getSst"} ELSE {"getChild", "printWait"}
Asks(c, op) ==
  \/ op = "create" /\ pc[c] \in {"getSwap", "getSst", "getChild"}
  \/ op = "doio" /\ pc[c] = "printWait"
  \/ op = "kill" /\ pc[c] = "dying"
Slots(d) ==
  /\ printing[d] # NULL => devQueue[d] # NULL
  /\ devQueue[d] # NULL =>
       /\ devQueue[d] = Sst(d[2] + 1) /\ pc[Sst(d[2] + 1)] = "printWait"
       /\ Ssi \notin From(Sst(d[2] + 1))
Conversations ==
  /\ \A m \in ToSet(msg_inbox[Ssi]) :
       /\ Asks(m.from, m.op) /\ Ssi \notin From(m.from)
       /\ \A d \in Device : devQueue[d] # m.from
  /\ \A c \in Client : Ssi \in From(c) => pc[c] \in Waits(c)
  /\ \A d \in Device : Slots(d)
  /\ \A d, e \in Device : devQueue[d] # NULL /\ devQueue[d] = devQueue[e] => d = e

\* A program and its SST take turns.
Idle == {"newChild", "getChild", "serve"}
Waiting == {"sent", "recv", "lost", "foreign"}
Session(a) ==
  /\ Uproc(a) \in From(Sst(a)) => UprocWhere(a) \in Waiting /\ SstWhere(a) \in Idle
  /\ Sst(a) \in From(Uproc(a)) =>
       UprocWhere(a) \in Waiting /\ SstWhere(a) \in Idle /\ Uproc(a) \notin From(Sst(a))
  /\ SstWhere(a) \notin Idle => UprocWhere(a) \in Waiting
  /\ SstWhere(a) = "foreign" => UprocWhere(a) # "lost"

\* The SST does what the request says.
Order(a) ==
  /\ UprocWhere(a) \in {"send", "sent", "recv", "lost", "foreign"} => request[a] \in Request
  /\ Uproc(a) \in From(Sst(a)) \/ SstWhere(a) \notin Idle => request[a] \in Request
  /\ SstWhere(a) \in {"print", "printWait", "advance"} => request[a].service \in PrintServices
  /\ SstWhere(a) \in {"printWait", "advance"} => request[a].string # <<>>
  /\ SstWhere(a) \in {"tellTest", "suicide", "dying"} => request[a].service = "TERMINATE"

\* test() has counted the SSTs that have ended and whose message it has received.
Ended == {a \in Asid : pc[Sst(a)] \in {"suicide", "dying"}}
Told == {a \in Asid : Sst(a) \in From(Test)}
Counting ==
  /\ Told \subseteq Ended
  /\ IF pc[Test] \in {"suicide", "dying"} THEN Ended = Asid
     ELSE uProcCount = UPROCMAX - Cardinality(Ended \ Told)

IInv ==
  /\ Types /\ Control /\ Letters /\ Births /\ Conversations /\ Counting
  /\ \A a \in Asid : Session(a) /\ Order(a)

------------------------------------------------------------------------------
(* Constants, names and inboxes. *)

LEMMA Names ==
  /\ Ssi \in Proc /\ Test \in Proc /\ Swap \in Proc
  /\ Ssi # Test /\ Ssi # Swap /\ Test # Swap
  /\ \A a \in Asid :
       /\ Sst(a) \in SupportProcs /\ Uproc(a) \in SupportProcs
       /\ Sst(a) \in Proc /\ Sst(a) \notin {Ssi, Test, Swap}
       /\ Uproc(a) \in Proc /\ Uproc(a) \notin {Ssi, Test, Swap}
       /\ Sst(a)[2] = a /\ Uproc(a)[2] = a
  /\ \A a, b \in Asid :
       /\ Sst(a) = Sst(b) <=> a = b
       /\ Uproc(a) = Uproc(b) <=> a = b
       /\ Sst(a) # Uproc(b)
  /\ \A p \in Proc : \/ p \in {Ssi, Test, Swap}
                     \/ \E a \in Asid : p \in {Sst(a), Uproc(a)}
  /\ NULL \notin Proc
  /\ UPROCMAX \in Nat \ {0} /\ Asid = 1..UPROCMAX
<1>1. /\ Ssi # Test /\ Ssi # Swap /\ Test # Swap
      /\ \A a, b : Sst(a) # Uproc(b) /\ Sst(a) \notin {Ssi, Test, Swap}
                   /\ Uproc(a) \notin {Ssi, Test, Swap}
  BY DEF Ssi, Test, Swap, Sst, Uproc
<1>2. \A a, b : /\ Sst(a) = Sst(b) <=> a = b
                /\ Uproc(a) = Uproc(b) <=> a = b
                /\ Sst(a)[2] = a /\ Uproc(a)[2] = a
  BY DEF Sst, Uproc
<1>3. UPROCMAX \in Nat \ {0} /\ Asid = 1..UPROCMAX /\ NULL \notin Proc
  BY SupportAssumption DEF Asid, UPROCLIMIT
<1> QED BY <1>1, <1>2, <1>3 DEF Proc, SupportProcs

LEMMA Clients ==
  /\ Client \subseteq Proc /\ Ssi \notin Client /\ Swap \notin Client /\ Test \in Client
  /\ \A a \in Asid : Sst(a) \in Client /\ Uproc(a) \notin Client
  /\ \A c \in Client : c = Test \/ \E a \in Asid : c = Sst(a)
BY Names DEF Client

LEMMA WhoWrites ==
  /\ \A w : MayWrite(w, Ssi) => w \in Client
  /\ \A w : MayWrite(w, Test) => w = Ssi \/ \E a \in Asid : w = Sst(a)
  /\ \A w : \A a \in Asid : MayWrite(w, Sst(a)) => w \in {Ssi, Uproc(a)}
  /\ \A w : \A a \in Asid : MayWrite(w, Uproc(a)) => w = Sst(a)
BY Names DEF MayWrite

LEMMA LettersRead ==
  ASSUME Letters
  PROVE  /\ From(Ssi) \subseteq Client
         /\ \A w \in From(Test) : w = Ssi \/ \E a \in Asid : w = Sst(a)
         /\ \A a \in Asid :
              From(Sst(a)) \subseteq {Ssi, Uproc(a)} /\ From(Uproc(a)) \subseteq {Sst(a)}
BY WhoWrites, Names DEF Letters

LEMMA NoMail == Writers(<<>>) = {} /\ Distinct(<<>>) /\ ToSet(<<>>) = {}
BY DEF Writers, Distinct, ToSet

\* pushMessage(): the new message comes first.
LEMMA PushMail ==
  ASSUME NEW s \in Seq(Message), NEW m \in Message
  PROVE  /\ <<m>> \o s \in Seq(Message)
         /\ ToSet(<<m>> \o s) = ToSet(s) \cup {m}
         /\ Writers(<<m>> \o s) = Writers(s) \cup {m.from}
         /\ Distinct(s) /\ m.from \notin Writers(s) => Distinct(<<m>> \o s)
<1>1. /\ <<m>> \o s \in Seq(Message) /\ ToSet(<<m>> \o s) = ToSet(s) \cup {m}
  BY ConsSet
<1>2. Writers(<<m>> \o s) = Writers(s) \cup {m.from}
  BY <1>1 DEF Writers
<1>3. ASSUME Distinct(s), m.from \notin Writers(s) PROVE Distinct(<<m>> \o s)
  <2>1. /\ DOMAIN s = 1..Len(s) /\ Len(s) \in Nat /\ DOMAIN (<<m>> \o s) = 1..(Len(s) + 1)
        /\ (<<m>> \o s)[1] = m
        /\ \A i \in 2..(Len(s) + 1) : (<<m>> \o s)[i] = s[i - 1]
    OBVIOUS
  <2>2. \A i \in 1..Len(s) : s[i].from # m.from
    BY <1>3, <2>1 DEF Writers, ToSet
  <2>3. SUFFICES ASSUME NEW i \in 1..(Len(s) + 1), NEW j \in 1..(Len(s) + 1),
                        (<<m>> \o s)[i].from = (<<m>> \o s)[j].from
                 PROVE  i = j
    BY <2>1 DEF Distinct
  <2>4. CASE i = 1 /\ j # 1
    <3>1. (<<m>> \o s)[j] = s[j - 1] /\ j - 1 \in 1..Len(s)
      BY <2>1, <2>4
    <3> QED BY <2>1, <2>2, <2>3, <2>4, <3>1
  <2>5. CASE i # 1 /\ j = 1
    <3>1. (<<m>> \o s)[i] = s[i - 1] /\ i - 1 \in 1..Len(s)
      BY <2>1, <2>5
    <3> QED BY <2>1, <2>2, <2>3, <2>5, <3>1
  <2>6. CASE i # 1 /\ j # 1
    <3>1. /\ (<<m>> \o s)[i] = s[i - 1] /\ i - 1 \in 1..Len(s)
          /\ (<<m>> \o s)[j] = s[j - 1] /\ j - 1 \in 1..Len(s)
      BY <2>1, <2>6
    <3>2. i - 1 = j - 1
      BY <1>3, <2>1, <2>3, <3>1 DEF Distinct
    <3> QED BY <2>1, <3>2
  <2> QED BY <2>4, <2>5, <2>6
<1> QED BY <1>1, <1>2, <1>3

\* popMessage(): the message at k, the only one of its writer.
LEMMA PopMail ==
  ASSUME NEW s \in Seq(Message), NEW k \in 1..Len(s)
  PROVE  /\ RemoveAt(s, k) \in Seq(Message) /\ s[k] \in ToSet(s)
         /\ ToSet(RemoveAt(s, k)) \subseteq ToSet(s)
         /\ s[k].from \in Writers(s) /\ Writers(RemoveAt(s, k)) \subseteq Writers(s)
         /\ Distinct(s) => /\ Distinct(RemoveAt(s, k))
                           /\ Writers(RemoveAt(s, k)) = Writers(s) \ {s[k].from}
<1> DEFINE r == RemoveAt(s, k)
<1>1. /\ r \in Seq(Message) /\ Len(r) = Len(s) - 1 /\ Len(s) \in Nat
      /\ DOMAIN s = 1..Len(s) /\ DOMAIN r = 1..(Len(s) - 1)
      /\ \A i \in 1..(Len(s) - 1) : r[i] = IF i < k THEN s[i] ELSE s[i + 1]
  <2>1. /\ r \in Seq(Message) /\ Len(r) = Len(s) - 1
        /\ \A i \in 1..(Len(s) - 1) : r[i] = IF i < k THEN s[i] ELSE s[i + 1]
    BY RemoveAtSeq, Zenon
  <2>2. Len(s) \in Nat /\ DOMAIN s = 1..Len(s) /\ DOMAIN r = 1..Len(r)
    <3> HIDE DEF r
    <3> QED BY <2>1
  <2> QED BY <2>1, <2>2, Zenon
<1> HIDE DEF r
<1>2. /\ ToSet(r) \subseteq ToSet(s) /\ s[k] \in ToSet(s)
      /\ ToSet(s) \subseteq ToSet(r) \cup {s[k]}
  BY RemoveAtSet, <1>1 DEF r, ToSet
<1>3. s[k].from \in Writers(s) /\ Writers(r) \subseteq Writers(s)
      /\ Writers(s) \subseteq Writers(r) \cup {s[k].from}
  BY <1>2 DEF Writers
<1>4. ASSUME Distinct(s) PROVE Distinct(r) /\ s[k].from \notin Writers(r)
  <2> DEFINE from(i) == IF i < k THEN i ELSE i + 1
  <2>1. \A i \in 1..(Len(s) - 1) : r[i] = s[from(i)] /\ from(i) \in 1..Len(s) /\ from(i) # k
    BY <1>1
  <2>2. \A i, j \in 1..(Len(s) - 1) : from(i) = from(j) => i = j
    OBVIOUS
  <2> HIDE DEF from
  <2>3. Distinct(r)
    <3> SUFFICES ASSUME NEW i \in 1..(Len(s) - 1), NEW j \in 1..(Len(s) - 1),
                        r[i].from = r[j].from
                 PROVE  i = j
      BY <1>1 DEF Distinct
    <3>1. from(i) = from(j)
      BY <1>1, <1>4, <2>1 DEF Distinct
    <3> QED BY <2>2, <3>1
  <2>4. \A i \in 1..(Len(s) - 1) : r[i].from # s[k].from
    BY <1>1, <1>4, <2>1 DEF Distinct
  <2> QED BY <1>1, <2>3, <2>4 DEF Writers, ToSet
<1> QED BY <1>1, <1>2, <1>3, <1>4 DEF r

\* The SSI takes the newest message, whoever it is from.
LEMMA HeadMail ==
  ASSUME NEW s \in Seq(Message), s # <<>>, Distinct(s)
  PROVE  /\ Tail(s) \in Seq(Message) /\ Head(s) \in ToSet(s) /\ Head(s) \in Message
         /\ ToSet(Tail(s)) \subseteq ToSet(s) /\ Distinct(Tail(s))
         /\ Head(s).from \in Writers(s)
         /\ Writers(Tail(s)) = Writers(s) \ {Head(s).from}
<1>1. /\ Head(s) \in Message /\ Tail(s) \in Seq(Message)
      /\ ToSet(s) = ToSet(Tail(s)) \cup {Head(s)}
  BY HeadTailSet
<1>2. /\ DOMAIN s = 1..Len(s) /\ Len(s) \in Nat \ {0} /\ DOMAIN Tail(s) = 1..(Len(s) - 1)
      /\ Head(s) = s[1] /\ \A i \in 1..(Len(s) - 1) : Tail(s)[i] = s[i + 1]
  OBVIOUS
<1>3. \A i \in 1..(Len(s) - 1) : Tail(s)[i].from # Head(s).from
  BY <1>2 DEF Distinct
<1>4. Distinct(Tail(s))
  BY <1>2 DEF Distinct
<1>5. Head(s).from \notin Writers(Tail(s))
  BY <1>2, <1>3 DEF Writers, ToSet
<1>6. Writers(s) = Writers(Tail(s)) \cup {Head(s).from}
  BY <1>1 DEF Writers
<1> QED BY <1>1, <1>4, <1>5, <1>6

------------------------------------------------------------------------------
(* What a process may do, as changes to its place and to who has written.   *)

\* From the inboxes box to box2 the only change is a message from p to dest.
Posted(box, box2, p, op, dest) ==
  /\ box2 \in [Proc -> Seq(Message)]
  /\ \A q \in Proc \ {Swap} : Distinct(box2[q])
  /\ \A q \in Proc \ {dest} : box2[q] = box[q]
  /\ dest \notin alive => box2 = box
  /\ dest \in alive => /\ Writers(box2[dest]) = Writers(box[dest]) \cup {p}
                       /\ ToSet(box2[dest]) = ToSet(box[dest]) \cup {[from |-> p, op |-> op]}

LEMMA PushFacts ==
  ASSUME NEW op, NEW box \in [Proc -> Seq(Message)], NEW p \in Proc, NEW dest \in Proc,
         [from |-> p, op |-> op] \in Message,
         dest # Swap => p \notin Writers(box[dest]),
         \A q \in Proc \ {Swap} : Distinct(box[q])
  PROVE  Posted(box, Push(box, p, op, dest), p, op, dest)
<1> DEFINE box2 == Push(box, p, op, dest)
<1>1. CASE dest \notin alive
  BY <1>1 DEF Push, Posted
<1>2. CASE dest \in alive
  <2> DEFINE m == [from |-> p, op |-> op]
  <2>1. box2 = [box EXCEPT ![dest] = <<m>> \o box[dest]]
    BY <1>2 DEF Push
  <2>2. m \in Message /\ m.from = p /\ box[dest] \in Seq(Message)
    OBVIOUS
  <2> HIDE DEF m
  <2>3. /\ <<m>> \o box[dest] \in Seq(Message)
        /\ ToSet(<<m>> \o box[dest]) = ToSet(box[dest]) \cup {m}
        /\ Writers(<<m>> \o box[dest]) = Writers(box[dest]) \cup {p}
        /\ Distinct(box[dest]) /\ p \notin Writers(box[dest]) => Distinct(<<m>> \o box[dest])
    BY <2>2, PushMail
  <2>4. box2[dest] = <<m>> \o box[dest] /\ \A q \in Proc \ {dest} : box2[q] = box[q]
    BY <2>1
  <2>5. box2 \in [Proc -> Seq(Message)]
    BY <2>1, <2>3
  <2>6. \A q \in Proc \ {Swap} : Distinct(box2[q])
    BY <2>3, <2>4
  <2> HIDE DEF box2
  <2> QED BY <1>2, <2>3, <2>4, <2>5, <2>6 DEF m, Posted, box2
<1> QED BY <1>1, <1>2

LEMMA TellFacts ==
  ASSUME Types, Letters, NEW p \in Proc, NEW l, NEW op, NEW dest \in Proc, NEW l2,
         Tell(p, l, op, dest, l2), dest # Swap => p \notin From(dest),
         [from |-> p, op |-> op] \in Message
  PROVE  /\ p \in alive /\ pc[p] = l /\ pc' = [pc EXCEPT ![p] = l2] /\ UNCHANGED alive
         /\ Posted(msg_inbox, msg_inbox', p, op, dest)
<1>1. /\ msg_inbox \in [Proc -> Seq(Message)] /\ \A q \in Proc \ {Swap} : Distinct(msg_inbox[q])
      /\ dest # Swap => p \notin Writers(msg_inbox[dest])
  BY DEF Tell, Types, Letters, From
<1>2. Posted(msg_inbox, Push(msg_inbox, p, op, dest), p, op, dest)
  BY <1>1, PushFacts
<1> QED BY <1>2 DEF Tell, At, Goto

LEMMA MatchFacts ==
  ASSUME Types, NEW p \in Proc, NEW from, Match(p, from) > 0
  PROVE  /\ Match(p, from) \in 1..Len(msg_inbox[p])
         /\ from = NULL \/ msg_inbox[p][Match(p, from)].from = from
<1> DEFINE I == {i \in 1..Len(msg_inbox[p]) : from = NULL \/ msg_inbox[p][i].from = from}
<1>1. Match(p, from) = IF I # {} THEN Min(I) ELSE 0
  BY DEF Match, SelectInSeq
<1>2. I \subseteq Nat /\ I # {}
  BY <1>1 DEF Types
<1>3. Min(I) \in I
  BY <1>2, MinNat
<1> QED BY <1>1, <1>2, <1>3

\* Process p receives a message: w wrote it.
Received(box, box2, p, w) ==
  /\ box2 \in [Proc -> Seq(Message)]
  /\ \A q \in Proc \ {Swap} : Distinct(box2[q])
  /\ \A q \in Proc \ {p} : box2[q] = box[q]
  /\ p # Swap => Writers(box2[p]) = Writers(box[p]) \ {w}

LEMMA ReceiveFacts ==
  ASSUME Types, Letters, NEW p \in Proc, NEW l, NEW from, NEW l2, Receive(p, l, from, l2)
  PROVE  \E w \in From(p) :
           /\ from = NULL \/ w = from
           /\ p \in alive /\ pc[p] = l /\ pc' = [pc EXCEPT ![p] = l2] /\ UNCHANGED alive
           /\ Received(msg_inbox, msg_inbox', p, w)
<1> DEFINE k == Match(p, from)
           s == msg_inbox[p]
<1>1. k \in 1..Len(s) /\ (from = NULL \/ s[k].from = from) /\ s \in Seq(Message)
  BY MatchFacts DEF Receive, Types
<1> HIDE DEF k
<1>2. /\ RemoveAt(s, k) \in Seq(Message) /\ s[k].from \in Writers(s)
      /\ Writers(RemoveAt(s, k)) \subseteq Writers(s)
      /\ Distinct(s) => /\ Distinct(RemoveAt(s, k))
                        /\ Writers(RemoveAt(s, k)) = Writers(s) \ {s[k].from}
  BY <1>1, PopMail
<1>3. msg_inbox' = [msg_inbox EXCEPT ![p] = RemoveAt(s, k)]
  BY DEF Receive, Popped, k
<1>4. /\ msg_inbox' \in [Proc -> Seq(Message)] /\ msg_inbox'[p] = RemoveAt(s, k)
      /\ \A q \in Proc \ {p} : msg_inbox'[q] = msg_inbox[q]
  BY <1>2, <1>3 DEF Types
<1>5. p # Swap => Distinct(s)
  BY DEF Letters
<1>6. \A q \in Proc \ {Swap} : Distinct(msg_inbox'[q])
  BY <1>2, <1>4, <1>5 DEF Letters
<1>7. Received(msg_inbox, msg_inbox', p, s[k].from) /\ s[k].from \in From(p)
  BY <1>2, <1>4, <1>5, <1>6 DEF From, Received
<1>8. p \in alive /\ pc[p] = l /\ pc' = [pc EXCEPT ![p] = l2] /\ UNCHANGED alive
  BY DEF Receive, At, Goto
<1> QED BY <1>1, <1>7, <1>8

\* The SSI takes the message m of its client.
LEMMA ServeFacts ==
  ASSUME Types, Letters, NEW op, Serving(op)
  PROVE  \E m \in ToSet(msg_inbox[Ssi]) :
           /\ m = Head(msg_inbox[Ssi]) /\ m \in Message /\ m.op = op /\ m.from = sender
           /\ sender \in From(Ssi) /\ sender \in Proc
           /\ Served \in [Proc -> Seq(Message)]
           /\ \A q \in Proc \ {Swap} : Distinct(Served[q])
           /\ \A q \in Proc \ {Ssi} : Served[q] = msg_inbox[q]
           /\ Writers(Served[Ssi]) = From(Ssi) \ {sender}
           /\ ToSet(Served[Ssi]) \subseteq ToSet(msg_inbox[Ssi])
<1> DEFINE s == msg_inbox[Ssi]
<1>1. s \in Seq(Message) /\ s # <<>> /\ Head(s).op = op /\ Distinct(s) /\ Head(s).from = sender
  BY Names DEF Serving, Types, Letters, sender
<1>2. /\ Tail(s) \in Seq(Message) /\ Head(s) \in ToSet(s) /\ Head(s) \in Message
      /\ ToSet(Tail(s)) \subseteq ToSet(s) /\ Distinct(Tail(s))
      /\ Head(s).from \in Writers(s)
      /\ Writers(Tail(s)) = Writers(s) \ {Head(s).from}
  BY <1>1, HeadMail
<1>3. Served = [msg_inbox EXCEPT ![Ssi] = Tail(s)]
  BY DEF Served
<1>4. /\ Served \in [Proc -> Seq(Message)] /\ Served[Ssi] = Tail(s)
      /\ \A q \in Proc \ {Ssi} : Served[q] = msg_inbox[q]
  BY <1>2, <1>3, Names DEF Types
<1>5. \A q \in Proc \ {Swap} : Distinct(Served[q])
  BY <1>2, <1>4 DEF Letters
<1> HIDE DEF s
<1>6. sender \in Proc
  BY <1>1, <1>2 DEF Message
<1> QED BY <1>1, <1>2, <1>4, <1>5, <1>6 DEF s, From

------------------------------------------------------------------------------
(* Who has written to whom. *)

LEMMA LettersPosted ==
  ASSUME Letters, NEW p \in Proc, NEW op, NEW dest \in Proc,
         Posted(msg_inbox, msg_inbox', p, op, dest), dest # Swap => MayWrite(p, dest)
  PROVE  Letters'
<1> SUFFICES ASSUME NEW q \in Proc \ {Swap}
             PROVE  Distinct(msg_inbox'[q]) /\ \A w \in From(q)' : MayWrite(w, q)
  BY DEF Letters
<1>1. Distinct(msg_inbox'[q]) /\ \A w \in From(q) : MayWrite(w, q)
  BY DEF Letters, Posted
<1>2. /\ q = dest => Writers(msg_inbox'[q]) \subseteq Writers(msg_inbox[q]) \cup {p}
      /\ q # dest => Writers(msg_inbox'[q]) = Writers(msg_inbox[q])
  BY DEF Posted
<1> QED BY <1>1, <1>2 DEF From

LEMMA LettersReceived ==
  ASSUME Letters, NEW p \in Proc, NEW w, Received(msg_inbox, msg_inbox', p, w)
  PROVE  Letters'
<1> SUFFICES ASSUME NEW q \in Proc \ {Swap}
             PROVE  Distinct(msg_inbox'[q]) /\ \A v \in From(q)' : MayWrite(v, q)
  BY DEF Letters
<1>1. Distinct(msg_inbox'[q]) /\ \A v \in From(q) : MayWrite(v, q)
  BY DEF Letters, Received
<1>2. Writers(msg_inbox'[q]) \subseteq Writers(msg_inbox[q])
  BY DEF Received
<1> QED BY <1>1, <1>2 DEF From

\* The effect of a message and of a RECEIVEMSG on From.
LEMMA PostedFrom ==
  ASSUME NEW p \in Proc, NEW op, NEW dest \in Proc, Posted(msg_inbox, msg_inbox', p, op, dest)
  PROVE  /\ \A q \in Proc \ {dest} : From(q)' = From(q)
         /\ dest \in alive => From(dest)' = From(dest) \cup {p}
         /\ dest \notin alive => From(dest)' = From(dest)
         /\ \A q \in Proc \ {dest} : msg_inbox'[q] = msg_inbox[q]
BY DEF Posted, From

LEMMA ReceivedFrom ==
  ASSUME NEW p \in Proc \ {Swap}, NEW w, Received(msg_inbox, msg_inbox', p, w)
  PROVE  /\ \A q \in Proc \ {p} : From(q)' = From(q)
         /\ From(p)' = From(p) \ {w}
         /\ \A q \in Proc \ {p} : msg_inbox'[q] = msg_inbox[q]
BY DEF Received, From

\* A client that has not asked has no business with the SSI or a device.
LEMMA NotAsked ==
  ASSUME Types, Control, Letters, Conversations, NEW c \in Client,
         pc[c] \notin {"getSwap", "getSst", "getChild", "printWait", "dying"}
  PROVE  /\ c \notin From(Ssi) /\ Ssi \notin From(c) /\ c \in Proc
         /\ \A d \in Device : devQueue[d] # c
<1>1. c \in Proc /\ Ssi \notin From(c)
  BY Names DEF Client, Conversations, Waits
<1>2. c \notin From(Ssi)
  BY DEF Conversations, Asks, From, Writers
<1>3. \A d \in Device : devQueue[d] # c
  BY <1>1, Names DEF Conversations, Slots
<1> QED BY <1>1, <1>2, <1>3

\* A client that has been answered has no request left.
LEMMA NotAskedTwice ==
  ASSUME Conversations, NEW c \in Client, Ssi \in From(c)
  PROVE  /\ c \notin From(Ssi) /\ pc[c] \in Waits(c)
         /\ \A d \in Device : devQueue[d] # c
<1>1. c \notin From(Ssi)
  BY DEF Conversations, From, Writers
<1>2. \A d \in Device : devQueue[d] # c
  BY Names DEF Client, Conversations, Slots
<1> QED BY <1>1, <1>2 DEF Conversations

(* Conversations. *)

LEMMA ConversationsWalk ==
  ASSUME Types, Control, Letters, Conversations, NEW p \in Proc, NEW l2,
         pc' = [pc EXCEPT ![p] = l2],
         pc[p] \notin {"getSwap", "getSst", "getChild", "printWait", "dying"},
         ToSet(msg_inbox'[Ssi]) = ToSet(msg_inbox[Ssi]),
         \A c \in Client : Ssi \in From(c)' => Ssi \in From(c),
         UNCHANGED <<devQueue, printing>>
  PROVE  Conversations'
<1>1. p \in Client => /\ p \notin From(Ssi) /\ Ssi \notin From(p)
                      /\ \A d \in Device : devQueue[d] # p
  BY NotAsked
<1>2. \A q \in Proc \ {p} : pc'[q] = pc[q]
  BY DEF Types
<1>3. /\ \A m \in ToSet(msg_inbox[Ssi]) : m.from \in From(Ssi)
      /\ From(Ssi) \subseteq Client /\ Client \subseteq Proc
  BY LettersRead, Names, Clients DEF From, Writers
<1>4. ASSUME NEW m \in ToSet(msg_inbox'[Ssi])
      PROVE  /\ Asks(m.from, m.op)' /\ Ssi \notin From(m.from)'
             /\ \A d \in Device : devQueue'[d] # m.from
  <2>1. m \in ToSet(msg_inbox[Ssi]) /\ m.from \in Client /\ m.from # p
    BY <1>1, <1>3
  <2>2. Asks(m.from, m.op) /\ Ssi \notin From(m.from) /\ \A d \in Device : devQueue[d] # m.from
    BY <2>1 DEF Conversations
  <2>3. pc'[m.from] = pc[m.from] /\ Ssi \notin From(m.from)'
    BY <1>2, <1>3, <2>1, <2>2
  <2> QED BY <2>2, <2>3 DEF Asks
<1>5. ASSUME NEW c \in Client, Ssi \in From(c)' PROVE pc'[c] \in Waits(c)
  BY <1>1, <1>2, <1>3, <1>5 DEF Conversations
<1>6. ASSUME NEW d \in Device PROVE Slots(d)'
  <2>1. Slots(d) /\ Sst(d[2] + 1) \in Client
    BY Names DEF Conversations, Client, Device
  <2>2. devQueue[d] # NULL => Sst(d[2] + 1) # p
    BY <1>1, <2>1 DEF Slots
  <2> QED BY <1>2, <1>3, <2>1, <2>2 DEF Slots
<1>7. \A d, e \in Device : devQueue'[d] # NULL /\ devQueue'[d] = devQueue'[e] => d = e
  BY DEF Conversations
<1> QED BY <1>4, <1>5, <1>6, <1>7 DEF Conversations

LEMMA ConversationsAsk ==
  ASSUME Types, Control, Letters, Conversations, NEW c \in Client, NEW op, NEW l2,
         pc' = [pc EXCEPT ![c] = l2],
         pc[c] \notin {"getSwap", "getSst", "getChild", "printWait", "dying"},
         Ssi \in alive, Posted(msg_inbox, msg_inbox', c, op, Ssi), Asks(c, op)',
         UNCHANGED <<devQueue, printing>>
  PROVE  Conversations'
<1>1. /\ c \notin From(Ssi) /\ Ssi \notin From(c) /\ c \in Proc
      /\ \A d \in Device : devQueue[d] # c
  BY NotAsked
<1>2. \A q \in Proc \ {c} : pc'[q] = pc[q]
  BY DEF Types
<1>3. /\ \A m \in ToSet(msg_inbox[Ssi]) : m.from \in From(Ssi)
      /\ From(Ssi) \subseteq Client /\ Client \subseteq Proc /\ Ssi \notin Client
  BY LettersRead, Names, Clients DEF From, Writers
<1>4. /\ \A q \in Client : From(q)' = From(q)
      /\ ToSet(msg_inbox'[Ssi]) = ToSet(msg_inbox[Ssi]) \cup {[from |-> c, op |-> op]}
  <2>1. \A q \in Proc \ {Ssi} : From(q)' = From(q)
    BY <1>1, PostedFrom, Names
  <2> QED BY <1>3, <2>1 DEF Posted
<1>5. ASSUME NEW m \in ToSet(msg_inbox'[Ssi])
      PROVE  /\ Asks(m.from, m.op)' /\ Ssi \notin From(m.from)'
             /\ \A d \in Device : devQueue'[d] # m.from
  <2>1. CASE m = [from |-> c, op |-> op]
    BY <1>1, <1>4, <2>1
  <2>2. CASE m \in ToSet(msg_inbox[Ssi])
    <3>1. m.from \in Client /\ m.from # c
      BY <1>1, <1>3, <2>2
    <3>2. /\ Asks(m.from, m.op) /\ Ssi \notin From(m.from)
          /\ \A d \in Device : devQueue[d] # m.from
      BY <2>2 DEF Conversations
    <3>3. pc'[m.from] = pc[m.from] /\ Ssi \notin From(m.from)'
      BY <1>2, <1>3, <1>4, <3>1, <3>2
    <3> QED BY <3>2, <3>3 DEF Asks
  <2> QED BY <1>4, <2>1, <2>2
<1>6. ASSUME NEW q \in Client, Ssi \in From(q)' PROVE pc'[q] \in Waits(q)
  BY <1>1, <1>2, <1>3, <1>4, <1>6 DEF Conversations
<1>7. ASSUME NEW d \in Device PROVE Slots(d)'
  <2>1. Slots(d) /\ Sst(d[2] + 1) \in Client
    BY Names DEF Conversations, Client, Device
  <2>2. devQueue[d] # NULL => Sst(d[2] + 1) # c
    BY <1>1, <2>1 DEF Slots
  <2> QED BY <1>2, <1>3, <1>4, <2>1, <2>2 DEF Slots
<1>8. \A d, e \in Device : devQueue'[d] # NULL /\ devQueue'[d] = devQueue'[e] => d = e
  BY DEF Conversations
<1> QED BY <1>5, <1>6, <1>7, <1>8 DEF Conversations

LEMMA ConversationsHear ==
  ASSUME Types, Control, Letters, Conversations, NEW c \in Client, NEW l2,
         pc' = [pc EXCEPT ![c] = l2], Ssi \in From(c),
         Received(msg_inbox, msg_inbox', c, Ssi), UNCHANGED <<devQueue, printing>>
  PROVE  Conversations'
<1>1. c \notin From(Ssi) /\ \A d \in Device : devQueue[d] # c
  BY NotAskedTwice
<1>2. \A q \in Proc \ {c} : pc'[q] = pc[q]
  BY DEF Types
<1>3. /\ \A m \in ToSet(msg_inbox[Ssi]) : m.from \in From(Ssi)
      /\ From(Ssi) \subseteq Client /\ Client \subseteq Proc
      /\ Ssi \notin Client /\ Swap \notin Client
  BY LettersRead, Names, Clients DEF From, Writers
<1>4. /\ \A q \in Client \ {c} : From(q)' = From(q)
      /\ Ssi \notin From(c)' /\ msg_inbox'[Ssi] = msg_inbox[Ssi]
  BY <1>3, ReceivedFrom, Names
<1>5. ASSUME NEW m \in ToSet(msg_inbox'[Ssi])
      PROVE  /\ Asks(m.from, m.op)' /\ Ssi \notin From(m.from)'
             /\ \A d \in Device : devQueue'[d] # m.from
  <2>1. m.from \in Client /\ m.from # c /\ m \in ToSet(msg_inbox[Ssi])
    BY <1>1, <1>3, <1>4
  <2>2. Asks(m.from, m.op) /\ Ssi \notin From(m.from) /\ \A d \in Device : devQueue[d] # m.from
    BY <2>1 DEF Conversations
  <2>3. pc'[m.from] = pc[m.from] /\ Ssi \notin From(m.from)'
    BY <1>2, <1>3, <1>4, <2>1, <2>2
  <2> QED BY <2>2, <2>3 DEF Asks
<1>6. ASSUME NEW q \in Client, Ssi \in From(q)' PROVE pc'[q] \in Waits(q)
  BY <1>2, <1>3, <1>4, <1>6 DEF Conversations
<1>7. ASSUME NEW d \in Device PROVE Slots(d)'
  <2>1. Slots(d) /\ Sst(d[2] + 1) \in Client
    BY Names DEF Conversations, Client, Device
  <2>2. devQueue[d] # NULL => Sst(d[2] + 1) # c
    BY <1>1, <2>1 DEF Slots
  <2> QED BY <1>2, <1>3, <1>4, <2>1, <2>2 DEF Slots
<1>8. \A d, e \in Device : devQueue'[d] # NULL /\ devQueue'[d] = devQueue'[e] => d = e
  BY DEF Conversations
<1> QED BY <1>5, <1>6, <1>7, <1>8 DEF Conversations

------------------------------------------------------------------------------
(* Births, counting, and the sessions that a step does not concern. *)

LEMMA BirthsKept ==
  ASSUME Types, Births, NEW p \in alive, NEW l2, pc' = [pc EXCEPT ![p] = l2], UNCHANGED alive,
         \A a \in Asid : (Born(a)' <=> Born(a)) /\ (Parent(a)' <=> Parent(a)),
         pc'[Test] \in {"newSwap", "getSwap"} => asid' = 1,
         pc'[Test] \in {"newSst", "getSst"} => asid' \in Asid
  PROVE  Births'
<1>1. \A q \in Proc \ alive : pc'[q] = pc[q]
  BY DEF Types
<1>2. ASSUME NEW a \in Asid PROVE Family(a)'
  <2>1. Family(a)
    BY DEF Births
  <2>2. /\ Sst(a) \notin alive => pc'[Sst(a)] = pc[Sst(a)]
        /\ Uproc(a) \notin alive => pc'[Uproc(a)] = pc[Uproc(a)]
    BY <1>1, Names
  <2> QED BY <2>1, <2>2 DEF Family
<1>3. Test \in alive \/ pc'[Test] = "dying"
  BY <1>1, Names DEF Births
<1> QED BY <1>2, <1>3 DEF Births

LEMMA CountingKept ==
  ASSUME Types, Counting, NEW p \in Proc, NEW l2, pc' = [pc EXCEPT ![p] = l2],
         pc[p] \in {"suicide", "dying"} <=> l2 \in {"suicide", "dying"},
         \A a \in Asid : Sst(a) \in From(Test)' <=> Sst(a) \in From(Test),
         UNCHANGED uProcCount
  PROVE  Counting'
<1>1. \A q \in Proc : pc'[q] \in {"suicide", "dying"} <=> pc[q] \in {"suicide", "dying"}
  BY DEF Types
<1>2. Told' = Told
  BY DEF Told
<1>3. Ended' = Ended
  BY <1>1, Names DEF Ended
<1>4. pc'[Test] \in {"suicide", "dying"} <=> pc[Test] \in {"suicide", "dying"}
  BY <1>1, Names
<1> QED BY <1>2, <1>3, <1>4 DEF Counting

\* Nothing of program a's session changes.
Kept(a) ==
  /\ SstWhere(a)' = SstWhere(a) /\ UprocWhere(a)' = UprocWhere(a)
  /\ Uproc(a) \in From(Sst(a))' <=> Uproc(a) \in From(Sst(a))
  /\ Sst(a) \in From(Uproc(a))' <=> Sst(a) \in From(Uproc(a))
  /\ request'[a] = request[a]

LEMMA SessionKept ==
  ASSUME NEW a, Session(a), Order(a), Kept(a)
  PROVE  Session(a)' /\ Order(a)'
BY DEF Session, Order, Kept

\* A step without a page fault moves one process.
LEMMA WhereWalk ==
  ASSUME Types, NEW p \in Proc, NEW l2, l2 # "fault", pc' = [pc EXCEPT ![p] = l2],
         UNCHANGED exceptState
  PROVE  \A b \in Asid :
           /\ p = Sst(b) => SstWhere(b)' = l2
           /\ p # Sst(b) => SstWhere(b)' = SstWhere(b)
           /\ p = Uproc(b) => UprocWhere(b)' = l2
           /\ p # Uproc(b) => UprocWhere(b)' = UprocWhere(b)
BY Names DEF Types, SstWhere, UprocWhere, Where

LEMMA WhereNow ==
  ASSUME NEW a
  PROVE  /\ pc[Sst(a)] # "fault" => SstWhere(a) = pc[Sst(a)]
         /\ pc[Uproc(a)] # "fault" => UprocWhere(a) = pc[Uproc(a)]
BY DEF SstWhere, UprocWhere, Where

------------------------------------------------------------------------------
(* The parts of the invariant about everyone, when a process of the support *)
(* level moves.                                                             *)

Overall == Letters /\ Births /\ Conversations /\ Counting
Base == Types /\ Control /\ Overall

\* Where the parts do not look.
Calm == {"serve", "decode", "print", "advance", "answer", "tellTest", "fault", "foreign",
         "user", "send", "sent", "recv", "trapRelease", "trapTell", "lost", "nested"}
Elsewhere == UNCHANGED <<alive, asid, uProcCount, devQueue, printing>>

LEMMA CalmParts ==
  ASSUME Base, NEW p \in SupportProcs, p \in alive, NEW l2 \in Calm, pc[p] \in Calm,
         pc' = [pc EXCEPT ![p] = l2], Elsewhere,
         ToSet(msg_inbox'[Ssi]) = ToSet(msg_inbox[Ssi]),
         \A c \in Client : Ssi \in From(c)' <=> Ssi \in From(c),
         \A a \in Asid : Sst(a) \in From(Test)' <=> Sst(a) \in From(Test)
  PROVE  Births' /\ Conversations' /\ Counting'
<1>1. /\ Types /\ Control /\ Births /\ Conversations /\ Counting /\ Letters
      /\ p \in Proc /\ p # Test
      /\ \A a \in Asid : Sst(a) \in Client /\ Sst(a) \in Proc
      /\ Test \in Client
  BY Names, Clients DEF Base, Overall, SupportProcs
<1>2. /\ pc'[Test] = pc[Test]
      /\ \A a \in Asid : pc'[Sst(a)] = pc[Sst(a)] \/ {pc'[Sst(a)], pc[Sst(a)]} \subseteq Calm
  BY <1>1 DEF Types
<1>3. \A a \in Asid : (Born(a)' <=> Born(a)) /\ (Parent(a)' <=> Parent(a))
  BY <1>1, <1>2 DEF Born, Parent, Elsewhere, Calm
<1>4. Births'
  BY <1>1, <1>2, <1>3, BirthsKept DEF Elsewhere, Births
<1>5. Conversations'
  BY <1>1, ConversationsWalk DEF Elsewhere, Calm
<1>6. Counting'
  BY <1>1, CountingKept DEF Elsewhere, Calm
<1> QED BY <1>4, <1>5, <1>6

\* It computes.
LEMMA CalmWalk ==
  ASSUME Base, NEW p \in SupportProcs, p \in alive, NEW l2 \in Calm, pc[p] \in Calm,
         pc' = [pc EXCEPT ![p] = l2], Elsewhere, UNCHANGED msg_inbox
  PROVE  Overall'
<1>1. \A q : From(q)' = From(q)
  BY DEF From
<1>2. Letters'
  BY <1>1 DEF Base, Overall, Letters
<1> QED BY <1>1, <1>2, CalmParts DEF Base, Overall, Births

\* It sends a message to a process of the support level or to swapMutex().
LEMMA CalmTell ==
  ASSUME Base, NEW p \in SupportProcs, p \in alive, NEW l2 \in Calm, pc[p] \in Calm,
         pc' = [pc EXCEPT ![p] = l2], Elsewhere,
         NEW op, NEW dest \in SupportProcs \cup {Swap}, dest # Swap => MayWrite(p, dest),
         Posted(msg_inbox, msg_inbox', p, op, dest)
  PROVE  Overall'
<1>1. /\ p \in Proc /\ dest \in Proc /\ dest # Test /\ dest # Ssi /\ p # Ssi
      /\ Ssi \in Proc /\ Test \in Proc
  BY Names DEF SupportProcs
<1>3. /\ \A q \in Proc : From(q)' = From(q) \/ (q = dest /\ From(q)' = From(q) \cup {p})
      /\ msg_inbox'[Ssi] = msg_inbox[Ssi]
  BY <1>1, PostedFrom
<1>4. /\ \A c \in Client : Ssi \in From(c)' <=> Ssi \in From(c)
      /\ From(Test)' = From(Test)
  BY <1>1, <1>3, Clients
<1>5. Letters'
  BY <1>1, LettersPosted DEF Base, Overall
<1> QED BY <1>3, <1>4, <1>5, CalmParts DEF Overall

\* It receives a message, and not from the SSI.
LEMMA CalmReceive ==
  ASSUME Base, NEW p \in SupportProcs, p \in alive, NEW l2 \in Calm, pc[p] \in Calm,
         pc' = [pc EXCEPT ![p] = l2], Elsewhere,
         NEW w, w # Ssi, Received(msg_inbox, msg_inbox', p, w)
  PROVE  Overall'
<1>1. p \in Proc \ {Swap} /\ p # Test /\ p # Ssi /\ Ssi \in Proc /\ Test \in Proc
  BY Names DEF SupportProcs
<1>3. /\ \A q \in Proc : From(q)' = From(q) \/ (q = p /\ From(q)' = From(q) \ {w})
      /\ msg_inbox'[Ssi] = msg_inbox[Ssi]
  BY <1>1, ReceivedFrom
<1>4. /\ \A c \in Client : Ssi \in From(c)' <=> Ssi \in From(c)
      /\ From(Test)' = From(Test)
  BY <1>1, <1>3, Clients
<1>5. Letters'
  BY <1>1, LettersReceived DEF Base, Overall
<1> QED BY <1>3, <1>4, <1>5, CalmParts DEF Overall

\* An SST asks the SSI for something.
LEMMA SstAsks ==
  ASSUME Base, NEW a \in Asid, Sst(a) \in alive, NEW l2, NEW op,
         \/ pc[Sst(a)] = "newChild" /\ l2 = "getChild" /\ op = "create"
         \/ pc[Sst(a)] = "print" /\ l2 = "printWait" /\ op = "doio"
         \/ pc[Sst(a)] = "suicide" /\ l2 = "dying" /\ op = "kill",
         pc' = [pc EXCEPT ![Sst(a)] = l2], Elsewhere,
         Posted(msg_inbox, msg_inbox', Sst(a), op, Ssi)
  PROVE  Overall'
<1> DEFINE p == Sst(a)
<1>1. /\ Types /\ Control /\ Births /\ Conversations /\ Counting /\ Letters
      /\ p \in Proc /\ p # Test /\ p # Ssi /\ p \in Client
      /\ Ssi \in Proc /\ Test \in Proc /\ Ssi # Test
      /\ MayWrite(p, Ssi)
  BY Names, Clients DEF Base, Overall, MayWrite
<1>3. \A q \in Proc \ {Ssi} : From(q)' = From(q)
  BY <1>1, PostedFrom
<1>4. Letters'
  BY <1>1, LettersPosted
<1>5. Ssi \notin From(p)
  BY <1>1, NotAsked
<1>6. /\ pc'[Test] = pc[Test] /\ pc'[p] = l2
      /\ \A b \in Asid \ {a} : pc'[Sst(b)] = pc[Sst(b)]
  BY <1>1, Names DEF Types
<1>7. \A b \in Asid : (Born(b)' <=> Born(b)) /\ (Parent(b)' <=> Parent(b))
  <2>1. \A b \in Asid : Born(b)' <=> Born(b)
    BY <1>1, <1>3, <1>6 DEF Born, Elsewhere
  <2>2. \A b \in Asid \ {a} : Parent(b)' <=> Parent(b)
    BY <1>3, <1>6, Names DEF Parent
  <2>3. Parent(a)' <=> Parent(a)
    BY <1>1, <1>3, <1>5, <1>6 DEF Parent
  <2> QED BY <2>1, <2>2, <2>3
<1>8. Births'
  BY <1>1, <1>6, <1>7, BirthsKept DEF Elsewhere, Births
<1>9. Conversations'
  <2>1. Asks(p, op)'
    BY <1>6 DEF Asks
  <2> QED BY <1>1, <2>1, ConversationsAsk DEF Elsewhere, Births
<1>10. Counting'
  <2>1. pc[p] \in {"suicide", "dying"} <=> l2 \in {"suicide", "dying"}
    OBVIOUS
  <2>2. From(Test)' = From(Test) /\ UNCHANGED uProcCount
    BY <1>1, <1>3 DEF Elsewhere
  <2> QED BY <1>1, <2>1, <2>2, CountingKept
<1> QED BY <1>4, <1>8, <1>9, <1>10 DEF Overall

\* An SST is answered by the SSI, or by a device in its name.
LEMMA SstHears ==
  ASSUME Base, NEW a \in Asid, Sst(a) \in alive, NEW l2,
         \/ pc[Sst(a)] = "getChild" /\ l2 = "serve"
         \/ pc[Sst(a)] = "printWait" /\ l2 = "advance",
         pc' = [pc EXCEPT ![Sst(a)] = l2], Elsewhere, Ssi \in From(Sst(a)),
         Received(msg_inbox, msg_inbox', Sst(a), Ssi)
  PROVE  Overall'
<1> DEFINE p == Sst(a)
<1>1. /\ Types /\ Control /\ Births /\ Conversations /\ Counting /\ Letters
      /\ p \in Proc \ {Swap} /\ p # Test /\ p \in Client
      /\ Ssi \in Proc /\ Test \in Proc /\ Ssi # Test
  BY Names, Clients DEF Base, Overall
<1>3. \A q \in Proc \ {p} : From(q)' = From(q)
  BY <1>1, ReceivedFrom
<1>4. Letters'
  BY <1>1, LettersReceived
<1>6. /\ pc'[Test] = pc[Test] /\ pc'[p] = l2
      /\ \A b \in Asid \ {a} : pc'[Sst(b)] = pc[Sst(b)]
  BY <1>1, Names DEF Types
<1>7. \A b \in Asid : (Born(b)' <=> Born(b)) /\ (Parent(b)' <=> Parent(b))
  <2>1. \A b \in Asid : Born(b)' <=> Born(b)
    BY <1>1, <1>3, <1>6 DEF Born, Elsewhere
  <2>2. \A b \in Asid \ {a} : Parent(b)' <=> Parent(b)
    BY <1>3, <1>6, Names DEF Parent
  <2>3. Parent(a)' <=> Parent(a)
    BY <1>1, <1>6 DEF Parent
  <2> QED BY <2>1, <2>2, <2>3
<1>8. Births'
  BY <1>1, <1>6, <1>7, BirthsKept DEF Elsewhere, Births
<1>9. Conversations'
  BY <1>1, ConversationsHear DEF Elsewhere
<1>10. Counting'
  <2>1. pc[p] \in {"suicide", "dying"} <=> l2 \in {"suicide", "dying"}
    OBVIOUS
  <2>2. From(Test)' = From(Test) /\ UNCHANGED uProcCount
    BY <1>1, <1>3 DEF Elsewhere
  <2> QED BY <1>1, <2>1, <2>2, CountingKept
<1> QED BY <1>4, <1>8, <1>9, <1>10 DEF Overall

\* An SST tells test() that it ends: it has ended, and is not yet counted.
LEMMA SstEnds ==
  ASSUME Base, NEW a \in Asid, Sst(a) \in alive, pc[Sst(a)] = "tellTest",
         pc' = [pc EXCEPT ![Sst(a)] = "suicide"], Elsewhere, NEW op,
         Posted(msg_inbox, msg_inbox', Sst(a), op, Test)
  PROVE  Overall'
<1> DEFINE p == Sst(a)
<1>1. /\ Types /\ Control /\ Births /\ Conversations /\ Counting /\ Letters
      /\ p \in Proc /\ p # Test /\ p # Ssi /\ p \in Client
      /\ Ssi \in Proc /\ Test \in Proc /\ Ssi # Test
      /\ MayWrite(p, Test)
  BY Names, Clients DEF Base, Overall, MayWrite
<1>3. /\ a \notin Ended /\ pc[Test] \notin {"suicide", "dying"} /\ Test \in alive
      /\ uProcCount = UPROCMAX - Cardinality(Ended \ Told)
  BY <1>1 DEF Counting, Ended, Births
<1>4. /\ \A q \in Proc \ {Test} : From(q)' = From(q)
      /\ From(Test)' = From(Test) \cup {p} /\ msg_inbox'[Ssi] = msg_inbox[Ssi]
  BY <1>1, <1>3, PostedFrom
<1>5. Letters'
  BY <1>1, LettersPosted
<1>6. /\ pc'[Test] = pc[Test] /\ pc'[p] = "suicide"
      /\ \A b \in Asid \ {a} : pc'[Sst(b)] = pc[Sst(b)]
  BY <1>1, Names DEF Types
<1>7. \A b \in Asid : (Born(b)' <=> Born(b)) /\ (Parent(b)' <=> Parent(b))
  <2>1. \A b \in Asid : Born(b)' <=> Born(b)
    BY <1>1, <1>4, <1>6 DEF Born, Elsewhere
  <2>2. \A b \in Asid : Parent(b)' <=> Parent(b)
    BY <1>4, <1>6, Names DEF Parent
  <2> QED BY <2>1, <2>2
<1>8. Births'
  BY <1>1, <1>6, <1>7, BirthsKept DEF Elsewhere, Births
<1>9. Conversations'
  <2>1. \A c \in Client : Ssi \in From(c)' => Ssi \in From(c)
    BY <1>1, <1>4, Clients
  <2> QED BY <1>1, <1>4, <2>1, ConversationsWalk DEF Elsewhere
<1>10. Counting'
  <2>1. Told' = Told \cup {a} /\ a \notin Told
    BY <1>1, <1>3, <1>4, Names DEF Told, Counting
  <2>2. Ended' = Ended \cup {a}
    BY <1>6 DEF Ended
  <2>3. Ended' \ Told' = Ended \ Told
    BY <1>3, <2>1, <2>2
  <2> QED BY <1>1, <1>3, <1>6, <2>1, <2>2, <2>3 DEF Counting, Elsewhere
<1> QED BY <1>5, <1>8, <1>9, <1>10 DEF Overall

------------------------------------------------------------------------------
(* The SSTs. *)

\* s->string++ stays in the text, and what it points to is a character of it.
LEMMA StringFacts ==
  ASSUME NEW s \in String, s # <<>>
  PROVE  Head(s) \in Char /\ Tail(s) \in String
<1>1. PICK t \in UNION {prints[a] : a \in Asid} : s \in Suffixes(t.string)
  <2> DEFINE texts == UNION {prints[a] : a \in Asid}
             all == {Suffixes(t.string) : t \in texts}
  <2>1. s \in UNION all
    BY DEF String
  <2> HIDE DEF texts
  <2>2. PICK S \in all : s \in S
    <3> HIDE DEF all
    <3> QED BY <2>1
  <2> QED BY <2>2 DEF texts
<1> DEFINE text == t.string
<1>2. text \in Seq(ToSet(text))
  BY SupportAssumption
<1>3. ToSet(text) \subseteq Char
  BY DEF Char
<1> HIDE DEF text
<1>4. PICK l \in 1..Len(text) : s = SubSeq(text, l, Len(text))
  BY <1>1 DEF Suffixes, text
<1>5. /\ Len(text) \in Nat /\ \A i \in 1..Len(text) : text[i] \in ToSet(text)
      /\ s \in Seq(ToSet(text)) /\ Len(s) = Len(text) - l + 1
      /\ \A i \in 1..(Len(text) - l + 1) : s[i] = text[l + i - 1]
  BY <1>2, <1>4
<1>6. Head(s) \in Char
  BY <1>3, <1>5
<1>7. CASE l = Len(text)
  <2>1. Len(s) = 1
    BY <1>5, <1>7
  <2>2. Tail(s) \in Seq(ToSet(text)) /\ Len(Tail(s)) = 0
    BY <1>5, <2>1
  <2>3. Tail(s) = <<>>
    BY <2>2, EmptySeq
  <2>4. <<>> \in String
    BY DEF String
  <2> QED BY <1>6, <2>3, <2>4
<1>8. CASE l # Len(text)
  <2> DEFINE r == SubSeq(text, l + 1, Len(text))
  <2>1. l + 1 \in 1..Len(text)
    BY <1>5, <1>8
  <2>2. /\ r \in Seq(ToSet(text)) /\ Len(r) = Len(text) - l
        /\ \A i \in 1..(Len(text) - l) : r[i] = text[l + i]
    BY <1>2, <2>1
  <2>3. /\ Tail(s) \in Seq(ToSet(text)) /\ Len(Tail(s)) = Len(text) - l
        /\ \A i \in 1..(Len(text) - l) : Tail(s)[i] = text[l + i]
    <3>1. /\ Tail(s) \in Seq(ToSet(text)) /\ Len(Tail(s)) = Len(text) - l
          /\ \A i \in 1..(Len(text) - l) : Tail(s)[i] = s[i + 1]
      BY <1>5
    <3>2. \A i \in 1..(Len(text) - l) : s[i + 1] = text[l + i]
      BY <1>5
    <3> QED BY <3>1, <3>2
  <2> HIDE DEF r
  <2>4. Tail(s) = r
    BY <2>2, <2>3, SeqEqual
  <2>5. Tail(s) \in Suffixes(text)
    BY <2>1, <2>4 DEF Suffixes, r
  <2> QED BY <1>6, <2>5 DEF String, text
<1> QED BY <1>7, <1>8

\* An SST, or a program, goes on at l2.
LEMMA SstMoves ==
  ASSUME Types, Control, NEW a \in Asid, NEW l2 \in SstSteps \ {"fault"},
         pc' = [pc EXCEPT ![Sst(a)] = l2], UNCHANGED exceptState
  PROVE  /\ SstWhere(a)' = l2 /\ UprocWhere(a)' = UprocWhere(a)
         /\ \A b \in Asid \ {a} :
              SstWhere(b)' = SstWhere(b) /\ UprocWhere(b)' = UprocWhere(b)
         /\ pc' \in [Proc -> Steps]
         /\ UNCHANGED do_io => Control'
<1>1. /\ Sst(a) \in Proc \ {Ssi, Swap, Test}
      /\ \A b \in Asid : Sst(a) # Uproc(b) /\ (Sst(a) = Sst(b) => a = b)
  BY Names
<1>2. \A q \in Proc : pc'[q] = IF q = Sst(a) THEN l2 ELSE pc[q]
  BY DEF Types
<1>3. l2 \in Steps
  BY DEF SstSteps, Steps, TouchSteps
<1>4. \A b \in Asid : pc'[Sst(b)] \in SstSteps /\ pc'[Uproc(b)] \in UprocSteps
  BY <1>1, <1>2, Names DEF Control
<1>5. UNCHANGED do_io => Control'
  BY <1>1, <1>2, <1>4, Names DEF Control
<1>6. pc' \in [Proc -> Steps]
  BY <1>3 DEF Types
<1>7. \A b \in Asid :
        /\ Sst(a) = Sst(b) => SstWhere(b)' = l2
        /\ Sst(a) # Sst(b) => SstWhere(b)' = SstWhere(b)
        /\ Sst(a) # Uproc(b) => UprocWhere(b)' = UprocWhere(b)
  BY <1>1, WhereWalk
<1> QED BY <1>1, <1>5, <1>6, <1>7

LEMMA UprocMoves ==
  ASSUME Types, Control, NEW a \in Asid, NEW l2 \in UprocSteps \ {"fault"},
         pc' = [pc EXCEPT ![Uproc(a)] = l2], UNCHANGED exceptState
  PROVE  /\ UprocWhere(a)' = l2 /\ SstWhere(a)' = SstWhere(a)
         /\ \A b \in Asid \ {a} :
              SstWhere(b)' = SstWhere(b) /\ UprocWhere(b)' = UprocWhere(b)
         /\ pc' \in [Proc -> Steps]
         /\ UNCHANGED do_io => Control'
<1>1. /\ Uproc(a) \in Proc \ {Ssi, Swap, Test}
      /\ \A b \in Asid : Uproc(a) # Sst(b) /\ (Uproc(a) = Uproc(b) => a = b)
  BY Names
<1>2. \A q \in Proc : pc'[q] = IF q = Uproc(a) THEN l2 ELSE pc[q]
  BY DEF Types
<1>3. l2 \in Steps
  BY DEF UprocSteps, Steps, TouchSteps
<1>4. \A b \in Asid : pc'[Sst(b)] \in SstSteps /\ pc'[Uproc(b)] \in UprocSteps
  BY <1>1, <1>2, Names DEF Control
<1>5. UNCHANGED do_io => Control'
  BY <1>1, <1>2, <1>4, Names DEF Control
<1>6. pc' \in [Proc -> Steps]
  BY <1>3 DEF Types
<1>7. \A b \in Asid :
        /\ Uproc(a) = Uproc(b) => UprocWhere(b)' = l2
        /\ Uproc(a) # Uproc(b) => UprocWhere(b)' = UprocWhere(b)
        /\ Uproc(a) # Sst(b) => SstWhere(b)' = SstWhere(b)
  BY <1>1, WhereWalk
<1> QED BY <1>1, <1>5, <1>6, <1>7

\* What a step of program a does not touch of the others.
LEMMA OthersKept ==
  ASSUME NEW a \in Asid,
         \A b \in Asid \ {a} :
           SstWhere(b)' = SstWhere(b) /\ UprocWhere(b)' = UprocWhere(b),
         \A q \in SupportProcs \ {Sst(a), Uproc(a)} : From(q)' = From(q),
         \A b \in Asid \ {a} : request'[b] = request[b]
  PROVE  \A b \in Asid \ {a} : Kept(b)
BY Names DEF Kept

\* The parts put together, for a step of program a.
LEMMA Assemble ==
  ASSUME IInv, NEW a \in Asid, Types', Control', Overall',
         \A b \in Asid \ {a} : Kept(b), Session(a)', Order(a)'
  PROVE  IInv'
<1>1. ASSUME NEW b \in Asid PROVE Session(b)' /\ Order(b)'
  <2>1. CASE b = a
    BY <2>1
  <2>2. CASE b # a
    BY <2>2, SessionKept DEF IInv
  <2> QED BY <2>1, <2>2
<1> QED BY <1>1 DEF IInv, Overall

LEMMA InvBase == IInv => Base
BY DEF IInv, Base, Overall

\* No mail is in either's inbox while the SST is busy.
LEMMA Busy ==
  ASSUME IInv, NEW a \in Asid, pc[Sst(a)] # "fault", pc[Sst(a)] \notin Idle
  PROVE  /\ Uproc(a) \notin From(Sst(a)) /\ Sst(a) \notin From(Uproc(a))
         /\ UprocWhere(a) \in Waiting /\ request[a] \in Request /\ SstWhere(a) = pc[Sst(a)]
BY WhereNow DEF IInv, Session, Order

LEMMA StepSstStart ==
  ASSUME IInv, NEW a \in Asid, SstStart(a)
  PROVE  IInv'
<1>0. /\ Base /\ Types /\ Letters /\ Sst(a) \in Proc /\ Ssi \in Proc /\ Ssi # Swap /\ Ssi # NULL
      /\ Session(a) /\ Order(a) /\ Sst(a) \in Client
  BY InvBase, Names, Clients DEF IInv
<1>1. CASE Tell(Sst(a), "newChild", "create", Ssi, "getChild")
  <2>1. Sst(a) \notin From(Ssi)
    BY <1>0, <1>1, NotAsked DEF Tell, At, Base, Overall
  <2>2. /\ Sst(a) \in alive /\ pc[Sst(a)] = "newChild"
        /\ pc' = [pc EXCEPT ![Sst(a)] = "getChild"]
        /\ UNCHANGED alive /\ Posted(msg_inbox, msg_inbox', Sst(a), "create", Ssi)
    BY <1>0, <1>1, <2>1, TellFacts DEF Message
  <2>3. Overall'
    BY <1>0, <2>2, SstAsks DEF SstStart, Elsewhere
  <2>4. /\ SstWhere(a)' = "getChild" /\ UprocWhere(a)' = UprocWhere(a)
        /\ \A b \in Asid \ {a} :
             SstWhere(b)' = SstWhere(b) /\ UprocWhere(b)' = UprocWhere(b)
        /\ pc' \in [Proc -> Steps] /\ Control'
    BY <1>0, <2>2, SstMoves DEF SstStart, SstSteps, Base
  <2>5. Types'
    BY <2>2, <2>4 DEF SstStart, Types, Posted, IInv
  <2>6. \A q \in Proc \ {Ssi} : From(q)' = From(q)
    BY <1>0, <2>2, PostedFrom
  <2>7. \A b \in Asid \ {a} : Kept(b)
    BY <1>0, <2>2, <2>4, <2>6, OthersKept, Names DEF SstStart, SupportProcs
  <2>8. /\ SstWhere(a) = "newChild"
        /\ From(Sst(a))' = From(Sst(a)) /\ From(Uproc(a))' = From(Uproc(a))
    BY <1>0, <2>2, <2>6, WhereNow, Names
  <2>9. Session(a)' /\ Order(a)'
    BY <1>0, <2>4, <2>8 DEF Session, Order, Idle, SstStart
  <2> QED BY <2>3, <2>4, <2>5, <2>7, <2>9, Assemble
<1>2. CASE Receive(Sst(a), "getChild", Ssi, "serve")
  <2>1. /\ Ssi \in From(Sst(a)) /\ Sst(a) \in alive /\ pc[Sst(a)] = "getChild"
        /\ pc' = [pc EXCEPT ![Sst(a)] = "serve"] /\ UNCHANGED alive
        /\ Received(msg_inbox, msg_inbox', Sst(a), Ssi)
    BY <1>0, <1>2, ReceiveFacts
  <2>2. Overall'
    BY <1>0, <2>1, SstHears DEF SstStart, Elsewhere
  <2>3. /\ SstWhere(a)' = "serve" /\ UprocWhere(a)' = UprocWhere(a)
        /\ \A b \in Asid \ {a} :
             SstWhere(b)' = SstWhere(b) /\ UprocWhere(b)' = UprocWhere(b)
        /\ pc' \in [Proc -> Steps] /\ Control'
    BY <1>0, <2>1, SstMoves DEF SstStart, SstSteps, Base
  <2>4. Types'
    BY <2>1, <2>3 DEF SstStart, Types, Received, IInv
  <2>5. /\ \A q \in Proc \ {Sst(a)} : From(q)' = From(q)
        /\ From(Sst(a))' = From(Sst(a)) \ {Ssi}
    BY <1>0, <2>1, ReceivedFrom, Names
  <2>6. \A b \in Asid \ {a} : Kept(b)
    BY <1>0, <2>1, <2>3, <2>5, OthersKept, Names DEF SstStart, SupportProcs
  <2>7. /\ SstWhere(a) = "getChild"
        /\ Uproc(a) \in From(Sst(a))' <=> Uproc(a) \in From(Sst(a))
        /\ From(Uproc(a))' = From(Uproc(a))
    BY <1>0, <2>1, <2>5, WhereNow, Names
  <2>8. Session(a)' /\ Order(a)'
    BY <1>0, <2>3, <2>7 DEF Session, Order, Idle, SstStart
  <2> QED BY <2>2, <2>3, <2>4, <2>6, <2>8, Assemble
<1> QED BY <1>1, <1>2 DEF SstStart, newProc

LEMMA StepSstReceive ==
  ASSUME IInv, NEW a \in Asid, SstReceive(a)
  PROVE  IInv'
<1>0. /\ Base /\ Types /\ Letters /\ Sst(a) \in Proc /\ Sst(a) \in SupportProcs
      /\ Uproc(a) # Ssi /\ Uproc(a) # NULL /\ Session(a) /\ Order(a)
  BY InvBase, Names DEF IInv
<1>1. /\ Uproc(a) \in From(Sst(a)) /\ Sst(a) \in alive /\ pc[Sst(a)] = "serve"
      /\ pc' = [pc EXCEPT ![Sst(a)] = "decode"] /\ UNCHANGED alive
      /\ Received(msg_inbox, msg_inbox', Sst(a), Uproc(a))
  BY <1>0, ReceiveFacts DEF SstReceive
<1>2. Overall'
  BY <1>0, <1>1, CalmReceive DEF SstReceive, Elsewhere, Calm
<1>3. /\ SstWhere(a)' = "decode" /\ UprocWhere(a)' = UprocWhere(a)
      /\ \A b \in Asid \ {a} : SstWhere(b)' = SstWhere(b) /\ UprocWhere(b)' = UprocWhere(b)
      /\ pc' \in [Proc -> Steps] /\ Control'
  BY <1>0, <1>1, SstMoves DEF SstReceive, SstSteps, Base
<1>4. Types'
  BY <1>1, <1>3 DEF SstReceive, Types, Received, IInv
<1>5. /\ \A q \in Proc \ {Sst(a)} : From(q)' = From(q)
      /\ From(Sst(a))' = From(Sst(a)) \ {Uproc(a)}
  BY <1>0, <1>1, ReceivedFrom, Names
<1>6. \A b \in Asid \ {a} : Kept(b)
  BY <1>0, <1>1, <1>3, <1>5, OthersKept, Names DEF SstReceive, SupportProcs
<1>7. SstWhere(a) = "serve" /\ From(Uproc(a))' = From(Uproc(a))
  BY <1>0, <1>1, <1>5, WhereNow, Names
<1>8. Session(a)' /\ Order(a)'
  BY <1>0, <1>1, <1>3, <1>5, <1>7 DEF Session, Order, Idle, SstReceive
<1> QED BY <1>2, <1>3, <1>4, <1>6, <1>8, Assemble

LEMMA StepSSTrequest ==
  ASSUME IInv, NEW a \in Asid, SSTrequest(a)
  PROVE  IInv'
<1>0. /\ Base /\ Types /\ Control /\ Sst(a) \in SupportProcs /\ Session(a) /\ Order(a)
  BY InvBase, Names DEF IInv
<1>1. /\ Sst(a) \in alive /\ pc[Sst(a)] = "decode" /\ request[a] \in Request
      /\ Uproc(a) \notin From(Sst(a)) /\ Sst(a) \notin From(Uproc(a)) /\ SstWhere(a) = "decode"
  BY Busy DEF SSTrequest, At, Idle
<1>2. PICK l2 \in {"print", "tellTest", "answer"} :
        /\ pc' = [pc EXCEPT ![Sst(a)] = l2]
        /\ l2 = "print" => request[a].service \in PrintServices
        /\ l2 = "tellTest" => request[a].service = "TERMINATE"
  <2>1. CASE request[a].service \in PrintServices
    BY <2>1 DEF SSTrequest, Goto, PrintServices
  <2>2. CASE request[a].service = "TERMINATE"
    BY <2>2 DEF SSTrequest, Goto, PrintServices
  <2>3. CASE request[a].service \notin PrintServices \cup {"TERMINATE"}
    BY <2>3 DEF SSTrequest, Goto, PrintServices
  <2> QED BY <2>1, <2>2, <2>3
<1>3. /\ UNCHANGED <<nucleus, counting, programs, writing, devices, exceptState, evictions>>
      /\ page' \in [Asid -> {"tlb", "memory", "absent"}]
  BY <1>0 DEF SSTrequest, Touch, Types
<1>4. Overall'
  BY <1>0, <1>1, <1>2, <1>3, CalmWalk DEF Elsewhere, Calm
<1>5. /\ SstWhere(a)' = l2 /\ UprocWhere(a)' = UprocWhere(a)
      /\ \A b \in Asid \ {a} : SstWhere(b)' = SstWhere(b) /\ UprocWhere(b)' = UprocWhere(b)
      /\ pc' \in [Proc -> Steps] /\ Control'
  BY <1>0, <1>2, <1>3, SstMoves DEF SstSteps
<1>6. Types'
  BY <1>0, <1>3, <1>5 DEF Types
<1>7. \A q : From(q)' = From(q)
  BY <1>3 DEF From
<1>8. \A b \in Asid \ {a} : Kept(b)
  BY <1>3, <1>5, <1>7, OthersKept
<1>9. Session(a)' /\ Order(a)'
  BY <1>0, <1>1, <1>2, <1>3, <1>5, <1>7 DEF Session, Order, Idle
<1> QED BY <1>4, <1>5, <1>6, <1>8, <1>9, Assemble

LEMMA StepWriteEnd ==
  ASSUME IInv, NEW a \in Asid, writeEnd(a)
  PROVE  IInv'
<1>0. /\ Base /\ Types /\ Control /\ Sst(a) \in SupportProcs /\ Session(a) /\ Order(a)
  BY InvBase, Names DEF IInv
<1>1. /\ Sst(a) \in alive /\ pc[Sst(a)] = "print" /\ request[a] \in Request
      /\ Uproc(a) \notin From(Sst(a)) /\ Sst(a) \notin From(Uproc(a)) /\ SstWhere(a) = "print"
  BY Busy DEF writeEnd, At, Idle
<1>2. /\ pc' = [pc EXCEPT ![Sst(a)] = "answer"]
      /\ UNCHANGED <<nucleus, counting, programs, writing, devices, exceptState, evictions>>
      /\ page' \in [Asid -> {"tlb", "memory", "absent"}]
  BY <1>0 DEF writeEnd, Touch, Types, Goto
<1>3. Overall'
  BY <1>0, <1>1, <1>2, CalmWalk DEF Elsewhere, Calm
<1>4. /\ SstWhere(a)' = "answer" /\ UprocWhere(a)' = UprocWhere(a)
      /\ \A b \in Asid \ {a} : SstWhere(b)' = SstWhere(b) /\ UprocWhere(b)' = UprocWhere(b)
      /\ pc' \in [Proc -> Steps] /\ Control'
  BY <1>0, <1>2, SstMoves DEF SstSteps
<1>5. Types'
  BY <1>0, <1>2, <1>4 DEF Types
<1>6. \A q : From(q)' = From(q)
  BY <1>2 DEF From
<1>7. \A b \in Asid \ {a} : Kept(b)
  BY <1>2, <1>4, <1>6, OthersKept
<1>8. Session(a)' /\ Order(a)'
  BY <1>0, <1>1, <1>2, <1>4, <1>6 DEF Session, Order, Idle
<1> QED BY <1>3, <1>4, <1>5, <1>7, <1>8, Assemble

LEMMA StepWriteChar ==
  ASSUME IInv, NEW a \in Asid, writeChar(a)
  PROVE  IInv'
<1>0. /\ Base /\ Types /\ Control /\ Letters /\ Sst(a) \in Proc /\ Sst(a) \in Client
      /\ Ssi \in Proc /\ Ssi # Swap /\ Session(a) /\ Order(a)
  BY InvBase, Names, Clients DEF IInv
<1>1. /\ Sst(a) \in alive /\ pc[Sst(a)] = "print" /\ request[a] \in Request
      /\ Uproc(a) \notin From(Sst(a)) /\ Sst(a) \notin From(Uproc(a)) /\ SstWhere(a) = "print"
  BY Busy DEF writeChar, Tell, At, Idle
<1>2. Sst(a) \notin From(Ssi)
  BY <1>0, <1>1, NotAsked DEF Base, Overall
<1>3. /\ pc' = [pc EXCEPT ![Sst(a)] = "printWait"] /\ UNCHANGED alive
      /\ Posted(msg_inbox, msg_inbox', Sst(a), "doio", Ssi)
  BY <1>0, <1>2, TellFacts DEF writeChar, Message
<1>4. /\ UNCHANGED <<counting, programs, printed, devices, exceptState, evictions>>
      /\ page' \in [Asid -> {"tlb", "memory", "absent"}]
  BY <1>0 DEF writeChar, Touch, Types
<1>5. request[a].string # <<>> /\ Head(request[a].string) \in Char
  <2>1. request[a].string \in String /\ request[a].string # <<>>
    BY <1>1 DEF writeChar, AtEnd, Request
  <2> QED BY <2>1, StringFacts
<1>6. /\ DOMAIN do_io' = Asid
      /\ \A b \in Asid : do_io'[b] \in [commandAddr : Commands(b), char : Char \cup {NULL}]
  <2> DEFINE io == [commandAddr |-> CmdAddr(Dev(a)), char |-> Head(request[a].string)]
  <2>1. do_io' = [do_io EXCEPT ![a] = io] /\ DOMAIN do_io = Asid
    BY <1>0 DEF writeChar, Types
  <2>2. io \in [commandAddr : Commands(a), char : Char \cup {NULL}]
    BY <1>5 DEF Commands, Dev
  <2> HIDE DEF io
  <2> QED BY <1>0, <2>1, <2>2 DEF Control
<1>7. Overall'
  BY <1>0, <1>1, <1>3, <1>4, SstAsks DEF Elsewhere
<1>8. /\ SstWhere(a)' = "printWait" /\ UprocWhere(a)' = UprocWhere(a)
      /\ \A b \in Asid \ {a} : SstWhere(b)' = SstWhere(b) /\ UprocWhere(b)' = UprocWhere(b)
      /\ pc' \in [Proc -> Steps]
  BY <1>0, <1>3, <1>4, SstMoves DEF SstSteps
<1>9. Control'
  <2>1. \A b \in Asid : pc'[Sst(b)] \in SstSteps /\ pc'[Uproc(b)] \in UprocSteps
    <3>1. \A q \in Proc : pc'[q] = IF q = Sst(a) THEN "printWait" ELSE pc[q]
      BY <1>0, <1>3 DEF Types
    <3>2. \A b \in Asid : pc[Sst(b)] \in SstSteps /\ pc[Uproc(b)] \in UprocSteps
      BY <1>0 DEF Control
    <3>3. "printWait" \in SstSteps
      BY DEF SstSteps
    <3> QED BY <3>1, <3>2, <3>3, Names
  <2>2. pc'[Ssi] = pc[Ssi] /\ pc'[Swap] = pc[Swap] /\ pc'[Test] = pc[Test]
    BY <1>0, <1>3, Names DEF Types
  <2> QED BY <1>0, <1>4, <1>6, <2>1, <2>2 DEF Control
<1>10. Types'
  BY <1>0, <1>3, <1>4, <1>6, <1>8 DEF Types, Posted
<1>11. \A q \in Proc \ {Ssi} : From(q)' = From(q)
  BY <1>0, <1>3, PostedFrom
<1>12. \A b \in Asid \ {a} : Kept(b)
  BY <1>4, <1>8, <1>11, OthersKept, Names DEF SupportProcs
<1>13. Session(a)' /\ Order(a)'
  BY <1>0, <1>1, <1>4, <1>5, <1>8, <1>11, Names DEF Session, Order, Idle
<1> QED BY <1>7, <1>9, <1>10, <1>12, <1>13, Assemble

LEMMA StepWriteWait ==
  ASSUME IInv, NEW a \in Asid, writeWait(a)
  PROVE  IInv'
<1>0. /\ Base /\ Types /\ Control /\ Letters /\ Sst(a) \in Proc /\ Ssi # NULL /\ Ssi \in Proc
      /\ Session(a) /\ Order(a)
  BY InvBase, Names DEF IInv
<1>1. /\ Uproc(a) \notin From(Sst(a)) /\ Sst(a) \notin From(Uproc(a))
      /\ SstWhere(a) = "printWait"
  BY Busy DEF writeWait, Receive, At, Idle
<1>2. /\ Ssi \in From(Sst(a)) /\ Sst(a) \in alive /\ pc[Sst(a)] = "printWait"
      /\ pc' = [pc EXCEPT ![Sst(a)] = "advance"] /\ UNCHANGED alive
      /\ Received(msg_inbox, msg_inbox', Sst(a), Ssi)
  BY <1>0, ReceiveFacts DEF writeWait
<1>3. Overall'
  BY <1>0, <1>2, SstHears DEF writeWait, Elsewhere
<1>4. /\ SstWhere(a)' = "advance" /\ UprocWhere(a)' = UprocWhere(a)
      /\ \A b \in Asid \ {a} : SstWhere(b)' = SstWhere(b) /\ UprocWhere(b)' = UprocWhere(b)
      /\ pc' \in [Proc -> Steps] /\ Control'
  BY <1>0, <1>2, SstMoves DEF writeWait, SstSteps
<1>5. Types'
  BY <1>0, <1>2, <1>4 DEF writeWait, Types, Received
<1>6. /\ \A q \in Proc \ {Sst(a)} : From(q)' = From(q)
      /\ From(Sst(a))' = From(Sst(a)) \ {Ssi}
  BY <1>0, <1>2, ReceivedFrom, Names
<1>7. \A b \in Asid \ {a} : Kept(b)
  BY <1>0, <1>4, <1>6, OthersKept, Names DEF writeWait, SupportProcs
<1>8. Session(a)' /\ Order(a)'
  BY <1>0, <1>1, <1>4, <1>6, Names DEF Session, Order, Idle, writeWait
<1> QED BY <1>3, <1>4, <1>5, <1>7, <1>8, Assemble

LEMMA StepWriteAdvance ==
  ASSUME IInv, NEW a \in Asid, writeAdvance(a)
  PROVE  IInv'
<1>0. /\ Base /\ Types /\ Control /\ Sst(a) \in SupportProcs /\ Session(a) /\ Order(a)
  BY InvBase, Names DEF IInv
<1>1. /\ Sst(a) \in alive /\ pc[Sst(a)] = "advance" /\ request[a] \in Request
      /\ Uproc(a) \notin From(Sst(a)) /\ Sst(a) \notin From(Uproc(a)) /\ SstWhere(a) = "advance"
  BY Busy DEF writeAdvance, At, Idle
<1>2. /\ pc' = [pc EXCEPT ![Sst(a)] = "print"]
      /\ UNCHANGED <<nucleus, counting, requests, do_io, devices, exceptState, evictions>>
      /\ page' \in [Asid -> {"tlb", "memory", "absent"}] /\ printed' \in [Asid -> Nat]
  BY <1>0 DEF writeAdvance, Touch, Types, Goto
<1>3. /\ request' \in [Asid -> Request \cup {NULL}]
      /\ request'[a] \in Request /\ request'[a].service = request[a].service
      /\ \A b \in Asid \ {a} : request'[b] = request[b]
  <2> DEFINE r == [request[a] EXCEPT !.string = Tail(request[a].string)]
  <2>1. request' = [request EXCEPT ![a] = r]
    BY DEF writeAdvance
  <2>2. Tail(request[a].string) \in String
    <3>1. request[a].string \in String /\ request[a].string # <<>>
      BY <1>0, <1>1 DEF Order, Request
    <3> QED BY <3>1, StringFacts
  <2>3. r \in Request /\ r.service = request[a].service
    BY <1>1, <2>2 DEF Request
  <2> HIDE DEF r
  <2> QED BY <1>0, <2>1, <2>3 DEF Types
<1>4. Overall'
  BY <1>0, <1>1, <1>2, CalmWalk DEF Elsewhere, Calm
<1>5. /\ SstWhere(a)' = "print" /\ UprocWhere(a)' = UprocWhere(a)
      /\ \A b \in Asid \ {a} : SstWhere(b)' = SstWhere(b) /\ UprocWhere(b)' = UprocWhere(b)
      /\ pc' \in [Proc -> Steps] /\ Control'
  BY <1>0, <1>2, SstMoves DEF SstSteps
<1>6. Types'
  BY <1>0, <1>2, <1>3, <1>5 DEF Types
<1>7. \A q : From(q)' = From(q)
  BY <1>2 DEF From
<1>8. \A b \in Asid \ {a} : Kept(b)
  BY <1>3, <1>5, <1>7, OthersKept
<1>9. Session(a)' /\ Order(a)'
  BY <1>0, <1>1, <1>3, <1>5, <1>7 DEF Session, Order, Idle
<1> QED BY <1>4, <1>5, <1>6, <1>8, <1>9, Assemble

LEMMA StepSstAnswer ==
  ASSUME IInv, NEW a \in Asid, SstAnswer(a)
  PROVE  IInv'
<1>0. /\ Base /\ Types /\ Control /\ Letters /\ Sst(a) \in Proc /\ Sst(a) \in SupportProcs
      /\ Uproc(a) \in Proc /\ Uproc(a) \in SupportProcs /\ Uproc(a) # Swap
      /\ Session(a) /\ Order(a) /\ MayWrite(Sst(a), Uproc(a))
  BY InvBase, Names DEF IInv, MayWrite
<1>1. /\ pc[Sst(a)] = "answer" /\ request[a] \in Request /\ UprocWhere(a) \in Waiting
      /\ Uproc(a) \notin From(Sst(a)) /\ Sst(a) \notin From(Uproc(a)) /\ SstWhere(a) = "answer"
  BY Busy DEF SstAnswer, Tell, At, Idle
<1>2. /\ Sst(a) \in alive /\ pc' = [pc EXCEPT ![Sst(a)] = "serve"] /\ UNCHANGED alive
      /\ Posted(msg_inbox, msg_inbox', Sst(a), "answer", Uproc(a))
  BY <1>0, <1>1, TellFacts DEF SstAnswer, Message
<1>3. /\ UNCHANGED <<counting, programs, do_io, devices, memory>> /\ printed' \in [Asid -> Nat]
  BY <1>0 DEF SstAnswer, Types
<1>4. Overall'
  BY <1>0, <1>1, <1>2, <1>3, CalmTell DEF Elsewhere, Calm
<1>5. /\ SstWhere(a)' = "serve" /\ UprocWhere(a)' = UprocWhere(a)
      /\ \A b \in Asid \ {a} : SstWhere(b)' = SstWhere(b) /\ UprocWhere(b)' = UprocWhere(b)
      /\ pc' \in [Proc -> Steps] /\ Control'
  BY <1>0, <1>2, <1>3, SstMoves DEF SstSteps
<1>6. Types'
  BY <1>0, <1>2, <1>3, <1>5 DEF Types, Posted
<1>7. \A q \in Proc \ {Uproc(a)} : From(q)' = From(q)
  BY <1>0, <1>2, PostedFrom
<1>8. \A b \in Asid \ {a} : Kept(b)
  BY <1>3, <1>5, <1>7, OthersKept, Names DEF SupportProcs
<1>9. From(Sst(a))' = From(Sst(a))
  BY <1>0, <1>7, Names
<1>10. Session(a)' /\ Order(a)'
  BY <1>0, <1>1, <1>3, <1>5, <1>9 DEF Session, Order, Idle
<1> QED BY <1>4, <1>5, <1>6, <1>8, <1>10, Assemble

LEMMA StepTerminate ==
  ASSUME IInv, NEW a \in Asid, terminate(a)
  PROVE  IInv'
<1>0. /\ Base /\ Types /\ Control /\ Letters /\ Sst(a) \in Proc /\ Test \in Proc /\ Test # Swap
      /\ Session(a) /\ Order(a)
  BY InvBase, Names DEF IInv
<1>1. /\ pc[Sst(a)] = "tellTest"
      /\ Uproc(a) \notin From(Sst(a)) /\ Sst(a) \notin From(Uproc(a))
      /\ SstWhere(a) = "tellTest"
  BY Busy DEF terminate, Tell, At, Idle
<1>2. Sst(a) \notin From(Test)
  BY <1>0, <1>1 DEF Base, Overall, Counting, Told, Ended
<1>3. /\ Sst(a) \in alive /\ pc' = [pc EXCEPT ![Sst(a)] = "suicide"] /\ UNCHANGED alive
      /\ Posted(msg_inbox, msg_inbox', Sst(a), "done", Test)
  BY <1>0, <1>2, TellFacts DEF terminate, Message
<1>4. Overall'
  BY <1>0, <1>1, <1>3, SstEnds DEF terminate, Elsewhere
<1>5. /\ SstWhere(a)' = "suicide" /\ UprocWhere(a)' = UprocWhere(a)
      /\ \A b \in Asid \ {a} : SstWhere(b)' = SstWhere(b) /\ UprocWhere(b)' = UprocWhere(b)
      /\ pc' \in [Proc -> Steps] /\ Control'
  BY <1>0, <1>3, SstMoves DEF terminate, SstSteps
<1>6. Types'
  BY <1>0, <1>3, <1>5 DEF terminate, Types, Posted
<1>7. \A q \in Proc \ {Test} : From(q)' = From(q)
  BY <1>0, <1>3, PostedFrom
<1>8. \A b \in Asid \ {a} : Kept(b)
  BY <1>5, <1>7, OthersKept, Names DEF terminate, SupportProcs
<1>9. Session(a)' /\ Order(a)'
  BY <1>0, <1>1, <1>5, <1>7, Names DEF Session, Order, Idle, terminate
<1> QED BY <1>4, <1>5, <1>6, <1>8, <1>9, Assemble

LEMMA StepSstSuicide ==
  ASSUME IInv, NEW a \in Asid, suicide(Sst(a))
  PROVE  IInv'
<1>0. /\ Base /\ Types /\ Control /\ Letters /\ Sst(a) \in Proc /\ Sst(a) \in Client
      /\ Ssi \in Proc /\ Ssi # Swap /\ Session(a) /\ Order(a)
  BY InvBase, Names, Clients DEF IInv
<1>1. /\ pc[Sst(a)] = "suicide"
      /\ Uproc(a) \notin From(Sst(a)) /\ Sst(a) \notin From(Uproc(a)) /\ SstWhere(a) = "suicide"
  BY Busy DEF suicide, Tell, At, Idle
<1>2. Sst(a) \notin From(Ssi)
  BY <1>0, <1>1, NotAsked DEF Base, Overall
<1>3. /\ Sst(a) \in alive /\ pc' = [pc EXCEPT ![Sst(a)] = "dying"] /\ UNCHANGED alive
      /\ Posted(msg_inbox, msg_inbox', Sst(a), "kill", Ssi)
  BY <1>0, <1>2, TellFacts DEF suicide, Message
<1>4. Overall'
  BY <1>0, <1>1, <1>3, SstAsks DEF suicide, Elsewhere
<1>5. /\ SstWhere(a)' = "dying" /\ UprocWhere(a)' = UprocWhere(a)
      /\ \A b \in Asid \ {a} : SstWhere(b)' = SstWhere(b) /\ UprocWhere(b)' = UprocWhere(b)
      /\ pc' \in [Proc -> Steps] /\ Control'
  BY <1>0, <1>3, SstMoves DEF suicide, SstSteps
<1>6. Types'
  BY <1>0, <1>3, <1>5 DEF suicide, Types, Posted
<1>7. \A q \in Proc \ {Ssi} : From(q)' = From(q)
  BY <1>0, <1>3, PostedFrom
<1>8. \A b \in Asid \ {a} : Kept(b)
  BY <1>5, <1>7, OthersKept, Names DEF suicide, SupportProcs
<1>9. Session(a)' /\ Order(a)'
  BY <1>0, <1>1, <1>5, <1>7, Names DEF Session, Order, Idle, suicide
<1> QED BY <1>4, <1>5, <1>6, <1>8, <1>9, Assemble

------------------------------------------------------------------------------
(* The page fault handler, which both processes of a program run. *)

LEMMA FaultPlaces ==
  ASSUME Control, NEW a \in Asid
  PROVE  /\ pc[Sst(a)] = "fault" => SstWhere(a) \in {"decode", "print", "advance", "foreign"}
         /\ pc[Uproc(a)] = "fault" => UprocWhere(a) \in {"user", "sent", "foreign"}
         /\ pc[Sst(a)] \in TouchSteps => pc[Sst(a)] \in {"decode", "print", "advance"}
         /\ pc[Uproc(a)] \in TouchSteps => pc[Uproc(a)] \in {"user", "sent"}
BY DEF Control, SstWhere, UprocWhere, Where, TouchSteps, SstSteps, UprocSteps

\* The one that faults loads its own state afterwards, and the other, if it is in the
\* handler too, does not.
LEMMA FaultMoves ==
  ASSUME Types, Control, NEW a \in Asid, NEW p \in SupportProcs, p = Sst(a) \/ p = Uproc(a),
         PageFault(p, a)
  PROVE  /\ p = Sst(a) => /\ SstWhere(a)' = SstWhere(a) /\ SstWhere(a) = pc[Sst(a)]
                          /\ UprocWhere(a)' = UprocWhere(a)
                             \/ (pc[Uproc(a)] = "fault" /\ UprocWhere(a)' = "foreign")
         /\ p = Uproc(a) => /\ UprocWhere(a)' = UprocWhere(a) /\ UprocWhere(a) = pc[Uproc(a)]
                            /\ SstWhere(a)' = SstWhere(a)
                               \/ (pc[Sst(a)] = "fault" /\ SstWhere(a)' = "foreign")
         /\ \A b \in Asid \ {a} :
              SstWhere(b)' = SstWhere(b) /\ UprocWhere(b)' = UprocWhere(b)
         /\ pc' = [pc EXCEPT ![p] = "fault"] /\ pc' \in [Proc -> Steps]
         /\ exceptState' = [exceptState EXCEPT ![a] = [who |-> p, at |-> pc[p]]]
         /\ exceptState' \in [Asid -> [who : SupportProcs \cup {NULL}, at : Steps]]
         /\ Control'
<1>1. /\ pc' = [pc EXCEPT ![p] = "fault"] /\ pc[p] \in TouchSteps /\ UNCHANGED do_io
      /\ exceptState' = [exceptState EXCEPT ![a] = [who |-> p, at |-> pc[p]]]
      /\ p \in Proc \ {Ssi, Swap, Test}
  BY Names DEF PageFault, Goto
<1>2. \A q \in Proc : pc'[q] = IF q = p THEN "fault" ELSE pc[q]
  BY <1>1 DEF Types
<1>3. /\ exceptState'[a].who = p /\ exceptState'[a].at = pc[p]
      /\ \A b \in Asid \ {a} : exceptState'[b] = exceptState[b]
      /\ exceptState' \in [Asid -> [who : SupportProcs \cup {NULL}, at : Steps]]
  BY <1>1 DEF Types
<1>4. /\ p = Sst(a) => pc[p] \in {"decode", "print", "advance"}
      /\ p = Uproc(a) => pc[p] \in {"user", "sent"}
  BY <1>1, FaultPlaces
<1>5. pc' \in [Proc -> Steps]
  BY <1>1 DEF Types, Steps
<1>6. Control'
  <2>1. \A b \in Asid : pc'[Sst(b)] \in SstSteps /\ pc'[Uproc(b)] \in UprocSteps
    BY <1>2, Names DEF Control, SstSteps, UprocSteps
  <2>2. pc'[Ssi] = pc[Ssi] /\ pc'[Swap] = pc[Swap] /\ pc'[Test] = pc[Test]
    BY <1>1, <1>2, Names
  <2>3. Sst(a) # Uproc(a)
    BY Names
  <2> QED BY <1>1, <1>3, <1>4, <2>1, <2>2, <2>3 DEF Control
<1>7. \A b \in Asid \ {a} : SstWhere(b)' = SstWhere(b) /\ UprocWhere(b)' = UprocWhere(b)
  BY <1>2, <1>3, Names DEF SstWhere, UprocWhere, Where
<1>8. p = Sst(a) => /\ SstWhere(a)' = SstWhere(a) /\ SstWhere(a) = pc[Sst(a)]
                    /\ UprocWhere(a)' = UprocWhere(a)
                       \/ (pc[Uproc(a)] = "fault" /\ UprocWhere(a)' = "foreign")
  BY <1>1, <1>2, <1>3, <1>4, Names DEF SstWhere, UprocWhere, Where
<1>9. p = Uproc(a) => /\ UprocWhere(a)' = UprocWhere(a) /\ UprocWhere(a) = pc[Uproc(a)]
                      /\ SstWhere(a)' = SstWhere(a)
                         \/ (pc[Sst(a)] = "fault" /\ SstWhere(a)' = "foreign")
  BY <1>1, <1>2, <1>3, <1>4, Names DEF SstWhere, UprocWhere, Where
<1> QED BY <1>1, <1>3, <1>5, <1>6, <1>7, <1>8, <1>9

LEMMA StepPageFault ==
  ASSUME IInv, NEW a \in Asid, NEW p \in SupportProcs, p = Sst(a) \/ p = Uproc(a),
         PageFault(p, a)
  PROVE  IInv'
<1>0. /\ Base /\ Types /\ Control /\ Session(a) /\ Order(a) /\ p \in alive
      /\ UNCHANGED <<nucleus, counting, programs, writing, devices, page, evictions>>
  BY InvBase DEF IInv, PageFault
<1>1. /\ p = Sst(a) => /\ SstWhere(a)' = SstWhere(a) /\ SstWhere(a) = pc[Sst(a)]
                       /\ UprocWhere(a)' = UprocWhere(a)
                          \/ (pc[Uproc(a)] = "fault" /\ UprocWhere(a)' = "foreign")
      /\ p = Uproc(a) => /\ UprocWhere(a)' = UprocWhere(a) /\ UprocWhere(a) = pc[Uproc(a)]
                         /\ SstWhere(a)' = SstWhere(a)
                            \/ (pc[Sst(a)] = "fault" /\ SstWhere(a)' = "foreign")
      /\ \A b \in Asid \ {a} : SstWhere(b)' = SstWhere(b) /\ UprocWhere(b)' = UprocWhere(b)
      /\ pc' = [pc EXCEPT ![p] = "fault"] /\ pc' \in [Proc -> Steps]
      /\ exceptState' \in [Asid -> [who : SupportProcs \cup {NULL}, at : Steps]]
      /\ Control'
  BY <1>0, FaultMoves
<1>2. pc[p] \in Calm
  BY <1>0, FaultPlaces DEF PageFault, Calm
<1>3. Overall'
  BY <1>0, <1>1, <1>2, CalmWalk DEF Elsewhere, Calm
<1>4. Types'
  BY <1>0, <1>1 DEF Types
<1>5. \A q : From(q)' = From(q)
  BY <1>0 DEF From
<1>6. \A b \in Asid \ {a} : Kept(b)
  BY <1>0, <1>1, <1>5, OthersKept
<1>7. CASE p = Sst(a)
  <2>1. SstWhere(a) \notin Idle /\ UprocWhere(a) \in Waiting
    BY <1>0, <1>1, <1>7, FaultPlaces DEF PageFault, Idle, Session
  <2> QED BY <1>0, <1>1, <1>3, <1>4, <1>5, <1>6, <1>7, <2>1, Assemble
          DEF Session, Order, Waiting
<1>8. CASE p = Uproc(a)
  <2>1. /\ pc[Sst(a)] = "fault" => SstWhere(a) \notin Idle
        /\ pc[Uproc(a)] # "lost"
    BY <1>0, <1>8, FaultPlaces DEF Idle, PageFault
  <2>2. Session(a)'
    BY <1>0, <1>1, <1>5, <1>8, <2>1 DEF Session, Idle
  <2>3. Order(a)'
    BY <1>0, <1>1, <1>5, <1>8, <2>1 DEF Order, Idle
  <2> QED BY <1>1, <1>3, <1>4, <1>6, <2>2, <2>3, Assemble
<1> QED BY <1>7, <1>8

LEMMA StepPageIn ==
  ASSUME IInv, NEW a \in Asid, NEW p \in SupportProcs, p = Sst(a) \/ p = Uproc(a), PageIn(p, a)
  PROVE  /\ IInv' /\ \A b \in Asid : Kept(b)
         /\ pc' = [pc EXCEPT ![p] = Where(a, p)] /\ Where(a, p) # "fault"
<1>0. /\ Base /\ Types /\ Control /\ Session(a) /\ Order(a) /\ p \in alive /\ pc[p] = "fault"
      /\ UNCHANGED <<nucleus, counting, programs, writing, devices, exceptState, evictions>>
      /\ page' \in [Asid -> {"tlb", "memory", "absent"}]
  BY InvBase DEF IInv, PageIn, At, Types
<1> DEFINE l2 == Where(a, p)
<1>1. pc' = [pc EXCEPT ![p] = l2]
  BY <1>0 DEF PageIn, Goto, Where
<1>2. /\ p = Sst(a) => l2 = SstWhere(a) /\ l2 \in SstSteps \ {"fault"}
      /\ p = Uproc(a) => l2 = UprocWhere(a) /\ l2 \in UprocSteps \ {"fault"}
      /\ l2 \in Calm
  BY <1>0, FaultPlaces DEF SstWhere, UprocWhere, SstSteps, UprocSteps, Calm
<1> HIDE DEF l2
<1>3. Overall'
  BY <1>0, <1>1, <1>2, CalmWalk DEF Elsewhere, Calm
<1>4. /\ \A b \in Asid : SstWhere(b)' = SstWhere(b) /\ UprocWhere(b)' = UprocWhere(b)
      /\ pc' \in [Proc -> Steps] /\ Control'
  <2>1. CASE p = Sst(a)
    BY <1>0, <1>1, <1>2, <2>1, SstMoves
  <2>2. CASE p = Uproc(a)
    BY <1>0, <1>1, <1>2, <2>2, UprocMoves
  <2> QED BY <2>1, <2>2
<1>5. Types'
  BY <1>0, <1>4 DEF Types
<1>6. \A q : From(q)' = From(q)
  BY <1>0 DEF From
<1>7. \A b \in Asid : Kept(b)
  BY <1>0, <1>4, <1>6 DEF Kept
<1>8. l2 # "fault"
  BY <1>2
<1>9. IInv'
  BY <1>0, <1>3, <1>4, <1>5, <1>7, SessionKept, Assemble
<1> QED BY <1>1, <1>7, <1>8, <1>9 DEF l2

------------------------------------------------------------------------------
(* The programs. *)

\* While a program computes its SST waits, and neither has mail from the other.
LEMMA Turn ==
  ASSUME IInv, NEW a \in Asid, pc[Uproc(a)] # "fault", pc[Uproc(a)] \notin Waiting
  PROVE  /\ Uproc(a) \notin From(Sst(a)) /\ Sst(a) \notin From(Uproc(a))
         /\ SstWhere(a) \in Idle /\ UprocWhere(a) = pc[Uproc(a)]
BY WhereNow DEF IInv, Session

LEMMA StepAsk ==
  ASSUME IInv, NEW a \in Asid, NEW r \in Request, Ask(a, r)
  PROVE  IInv'
<1>0. /\ Base /\ Types /\ Control /\ Uproc(a) \in SupportProcs /\ Session(a) /\ Order(a)
  BY InvBase, Names DEF IInv
<1>1. /\ Uproc(a) \in alive /\ pc[Uproc(a)] = "user" /\ SstWhere(a) \in Idle
      /\ Uproc(a) \notin From(Sst(a)) /\ Sst(a) \notin From(Uproc(a))
  BY Turn DEF Ask, At, Waiting
<1>2. /\ pc' = [pc EXCEPT ![Uproc(a)] = "send"]
      /\ UNCHANGED <<nucleus, counting, writing, devices, exceptState, evictions>>
      /\ page' \in [Asid -> {"tlb", "memory", "absent"}]
      /\ requests' \in [Asid -> Nat] /\ request' \in [Asid -> Request \cup {NULL}]
      /\ request'[a] = r /\ \A b \in Asid \ {a} : request'[b] = request[b]
  BY <1>0 DEF Ask, Touch, Types, Goto
<1>3. Overall'
  BY <1>0, <1>1, <1>2, CalmWalk DEF Elsewhere, Calm
<1>4. /\ UprocWhere(a)' = "send" /\ SstWhere(a)' = SstWhere(a)
      /\ \A b \in Asid \ {a} : SstWhere(b)' = SstWhere(b) /\ UprocWhere(b)' = UprocWhere(b)
      /\ pc' \in [Proc -> Steps] /\ Control'
  BY <1>0, <1>2, UprocMoves DEF UprocSteps
<1>5. Types'
  BY <1>0, <1>2, <1>4 DEF Types
<1>6. \A q : From(q)' = From(q)
  BY <1>2 DEF From
<1>7. \A b \in Asid \ {a} : Kept(b)
  BY <1>2, <1>4, <1>6, OthersKept
<1>8. Session(a)' /\ Order(a)'
  BY <1>0, <1>1, <1>2, <1>4, <1>6 DEF Session, Order, Idle
<1> QED BY <1>3, <1>4, <1>5, <1>7, <1>8, Assemble

LEMMA StepAsks ==
  ASSUME IInv, NEW a \in Asid, AskPrint(a) \/ AskQuery(a) \/ AskEnd(a)
  PROVE  IInv' /\ \E r \in Request : Ask(a, r)
<1>1. PICK r \in Request : Ask(a, r)
  <2>1. <<>> \in String /\ 0 \in Nat
    BY DEF String
  <2>2. CASE AskPrint(a)
    <3>1. PICK s \in services[a] \cap PrintServices, t \in prints[a] :
            Ask(a, [service |-> s, string |-> t.string, length |-> t.length])
      BY <2>2 DEF AskPrint
    <3>2. t.length \in Nat /\ t.string \in Seq(ToSet(t.string))
      BY SupportAssumption
    <3>3. t.string \in Suffixes(t.string)
      <4>1. CASE t.string = <<>>
        BY <4>1 DEF Suffixes
      <4>2. CASE t.string # <<>>
        <5> DEFINE s2 == t.string
        <5>1. 1 \in 1..Len(s2) /\ Len(s2) \in Nat
          BY <3>2, <4>2
        <5>2. SubSeq(s2, 1, Len(s2)) = s2
          BY <3>2
        <5> QED BY <5>1, <5>2 DEF Suffixes
      <4> QED BY <4>1, <4>2
    <3>4. t.string \in String
      BY <3>3 DEF String
    <3>5. s \in Service
      BY DEF Service
    <3> QED BY <3>1, <3>2, <3>4, <3>5 DEF Request
  <2>3. CASE AskQuery(a)
    <3>1. PICK s \in services[a] \ PrintServices : Ask(a, Payload(s))
      BY <2>3 DEF AskQuery
    <3>2. s \in Service
      BY SupportAssumption
    <3> QED BY <2>1, <3>1, <3>2 DEF Request, Payload
  <2>4. CASE AskEnd(a)
    BY <2>1, <2>4 DEF AskEnd, Request, Payload, Service
  <2> QED BY <2>2, <2>3, <2>4
<1> QED BY <1>1, StepAsk

LEMMA StepSent ==
  ASSUME IInv, NEW a \in Asid, Sent(a)
  PROVE  IInv'
<1>0. /\ Base /\ Types /\ Control /\ Uproc(a) \in SupportProcs /\ Session(a) /\ Order(a)
  BY InvBase, Names DEF IInv
<1>1. /\ Uproc(a) \in alive /\ pc[Uproc(a)] = "sent" /\ UprocWhere(a) = "sent"
  BY WhereNow DEF Sent, At
<1>2. /\ pc' = [pc EXCEPT ![Uproc(a)] = "recv"]
      /\ UNCHANGED <<nucleus, counting, programs, writing, devices, exceptState, evictions>>
      /\ page' \in [Asid -> {"tlb", "memory", "absent"}]
  BY <1>0 DEF Sent, Touch, Types, Goto
<1>3. Overall'
  BY <1>0, <1>1, <1>2, CalmWalk DEF Elsewhere, Calm
<1>4. /\ UprocWhere(a)' = "recv" /\ SstWhere(a)' = SstWhere(a)
      /\ \A b \in Asid \ {a} : SstWhere(b)' = SstWhere(b) /\ UprocWhere(b)' = UprocWhere(b)
      /\ pc' \in [Proc -> Steps] /\ Control'
  BY <1>0, <1>2, UprocMoves DEF UprocSteps
<1>5. Types'
  BY <1>0, <1>2, <1>4 DEF Types
<1>6. \A q : From(q)' = From(q)
  BY <1>2 DEF From
<1>7. \A b \in Asid \ {a} : Kept(b)
  BY <1>2, <1>4, <1>6, OthersKept
<1>8. Session(a)' /\ Order(a)'
  BY <1>0, <1>1, <1>2, <1>4, <1>6 DEF Session, Order, Waiting
<1> QED BY <1>3, <1>4, <1>5, <1>7, <1>8, Assemble

LEMMA StepTrap ==
  ASSUME IInv, NEW a \in Asid, Trap(a)
  PROVE  IInv'
<1>0. /\ Base /\ Types /\ Control /\ Uproc(a) \in SupportProcs /\ Session(a) /\ Order(a)
  BY InvBase, Names DEF IInv
<1>1. /\ Uproc(a) \in alive /\ pc[Uproc(a)] = "user" /\ SstWhere(a) \in Idle
      /\ Uproc(a) \notin From(Sst(a)) /\ Sst(a) \notin From(Uproc(a))
  BY Turn DEF Trap, At, Waiting
<1>2. /\ pc' = [pc EXCEPT ![Uproc(a)] = "trapRelease"]
      /\ UNCHANGED <<nucleus, counting, programs, writing, devices, memory>>
  BY DEF Trap, Goto
<1>3. Overall'
  BY <1>0, <1>1, <1>2, CalmWalk DEF Elsewhere, Calm
<1>4. /\ UprocWhere(a)' = "trapRelease" /\ SstWhere(a)' = SstWhere(a)
      /\ \A b \in Asid \ {a} : SstWhere(b)' = SstWhere(b) /\ UprocWhere(b)' = UprocWhere(b)
      /\ pc' \in [Proc -> Steps] /\ Control'
  BY <1>0, <1>2, UprocMoves DEF UprocSteps
<1>5. Types'
  BY <1>0, <1>2, <1>4 DEF Types
<1>6. \A q : From(q)' = From(q)
  BY <1>2 DEF From
<1>7. \A b \in Asid \ {a} : Kept(b)
  BY <1>2, <1>4, <1>6, OthersKept
<1>8. Session(a)' /\ Order(a)'
  BY <1>0, <1>1, <1>2, <1>4, <1>6 DEF Session, Order, Idle
<1> QED BY <1>3, <1>4, <1>5, <1>7, <1>8, Assemble


LEMMA StepUsyscallSend ==
  ASSUME IInv, NEW a \in Asid, usyscallSend(a)
  PROVE  IInv'
<1>0. /\ Base /\ Types /\ Control /\ Letters /\ Session(a) /\ Order(a)
      /\ Uproc(a) \in Proc /\ Uproc(a) \in SupportProcs /\ Sst(a) # Swap
      /\ Sst(a) \in Proc /\ Sst(a) \in SupportProcs /\ MayWrite(Uproc(a), Sst(a))
  BY InvBase, Names DEF IInv, MayWrite
<1>1. /\ pc[Uproc(a)] = "send" /\ SstWhere(a) \in Idle /\ UprocWhere(a) = "send"
      /\ Uproc(a) \notin From(Sst(a)) /\ Sst(a) \notin From(Uproc(a))
  BY Turn DEF usyscallSend, Tell, At, Waiting
<1>2. /\ Uproc(a) \in alive /\ pc' = [pc EXCEPT ![Uproc(a)] = "sent"] /\ UNCHANGED alive
      /\ Posted(msg_inbox, msg_inbox', Uproc(a), "request", Sst(a))
  BY <1>0, <1>1, TellFacts DEF usyscallSend, Message
<1>3. UNCHANGED <<counting, programs, writing, devices, memory>>
  BY DEF usyscallSend
<1>4. Overall'
  BY <1>0, <1>1, <1>2, <1>3, CalmTell DEF Elsewhere, Calm
<1>5. /\ UprocWhere(a)' = "sent" /\ SstWhere(a)' = SstWhere(a)
      /\ \A b \in Asid \ {a} : SstWhere(b)' = SstWhere(b) /\ UprocWhere(b)' = UprocWhere(b)
      /\ pc' \in [Proc -> Steps] /\ Control'
  BY <1>0, <1>2, <1>3, UprocMoves DEF UprocSteps
<1>6. Types'
  BY <1>0, <1>2, <1>3, <1>5 DEF Types, Posted
<1>7. \A q \in Proc \ {Sst(a)} : From(q)' = From(q)
  BY <1>0, <1>2, PostedFrom
<1>8. \A b \in Asid \ {a} : Kept(b)
  BY <1>3, <1>5, <1>7, OthersKept, Names DEF SupportProcs
<1>9. From(Uproc(a))' = From(Uproc(a))
  BY <1>0, <1>7, Names
<1>10. Session(a)' /\ Order(a)'
  BY <1>0, <1>1, <1>3, <1>5, <1>9 DEF Session, Order, Idle, Waiting
<1> QED BY <1>4, <1>5, <1>6, <1>8, <1>10, Assemble

LEMMA StepUsyscallReceive ==
  ASSUME IInv, NEW a \in Asid, usyscallReceive(a)
  PROVE  IInv'
<1>0. /\ Base /\ Types /\ Control /\ Letters /\ Session(a) /\ Order(a)
      /\ Uproc(a) \in Proc \ {Swap} /\ Uproc(a) \in SupportProcs
      /\ From(Uproc(a)) \subseteq {Sst(a)} /\ Sst(a) # Ssi /\ Sst(a) # Uproc(a)
      /\ Sst(a) \in Proc
  BY InvBase, Names, LettersRead DEF IInv
<1> DEFINE l2 == IF request[a].service = "GET_TOD" /\ page[a] # "tlb" THEN "nested" ELSE "user"
<1>1. Receive(Uproc(a), "recv", NULL, l2) /\ l2 \in {"nested", "user"}
  BY DEF usyscallReceive
<1> HIDE DEF l2
<1>2. /\ Sst(a) \in From(Uproc(a)) /\ Uproc(a) \in alive /\ pc[Uproc(a)] = "recv"
      /\ pc' = [pc EXCEPT ![Uproc(a)] = l2] /\ UNCHANGED alive
      /\ Received(msg_inbox, msg_inbox', Uproc(a), Sst(a))
  BY <1>0, <1>1, ReceiveFacts
<1>3. /\ UNCHANGED <<counting, requests, writing, devices, memory>>
      /\ request' = [request EXCEPT ![a] = NULL]
  BY DEF usyscallReceive
<1>4. Overall'
  BY <1>0, <1>1, <1>2, <1>3, CalmReceive DEF Elsewhere, Calm
<1>5. /\ UprocWhere(a)' = l2 /\ SstWhere(a)' = SstWhere(a)
      /\ \A b \in Asid \ {a} : SstWhere(b)' = SstWhere(b) /\ UprocWhere(b)' = UprocWhere(b)
      /\ pc' \in [Proc -> Steps] /\ Control'
  BY <1>0, <1>1, <1>2, <1>3, UprocMoves DEF UprocSteps
<1>6. Types'
  BY <1>0, <1>2, <1>3, <1>5 DEF Types, Received
<1>7. /\ \A q \in Proc \ {Uproc(a)} : From(q)' = From(q)
      /\ From(Uproc(a))' = From(Uproc(a)) \ {Sst(a)}
  BY <1>0, <1>2, ReceivedFrom
<1>8. \A b \in Asid \ {a} : Kept(b)
  <2>1. \A b \in Asid \ {a} : request'[b] = request[b]
    BY <1>0, <1>3 DEF Types
  <2> QED BY <1>5, <1>7, <2>1, OthersKept, Names DEF SupportProcs
<1>9. SstWhere(a) \in Idle /\ Uproc(a) \notin From(Sst(a)) /\ From(Sst(a))' = From(Sst(a))
  BY <1>0, <1>2, <1>7 DEF Session
<1>10. Session(a)'
  BY <1>0, <1>1, <1>5, <1>7, <1>9 DEF Session
<1>11. Order(a)'
  BY <1>0, <1>1, <1>5, <1>7, <1>9 DEF Order, Idle
<1> QED BY <1>4, <1>5, <1>6, <1>8, <1>10, <1>11, Assemble

LEMMA StepTrapRelease ==
  ASSUME IInv, NEW a \in Asid, Tell(Uproc(a), "trapRelease", "release", Swap, "trapTell"),
         UNCHANGED counting, Quiet
  PROVE  IInv'
<1>0. /\ Base /\ Types /\ Control /\ Letters /\ Session(a) /\ Order(a)
      /\ Uproc(a) \in Proc /\ Uproc(a) \in SupportProcs /\ Swap \in Proc
  BY InvBase, Names DEF IInv
<1>1. /\ pc[Uproc(a)] = "trapRelease" /\ SstWhere(a) \in Idle
      /\ Uproc(a) \notin From(Sst(a)) /\ Sst(a) \notin From(Uproc(a))
  BY Turn DEF Tell, At, Waiting
<1>2. /\ Uproc(a) \in alive /\ pc' = [pc EXCEPT ![Uproc(a)] = "trapTell"] /\ UNCHANGED alive
      /\ Posted(msg_inbox, msg_inbox', Uproc(a), "release", Swap)
  BY <1>0, TellFacts DEF Message
<1>4. Overall'
  BY <1>0, <1>1, <1>2, CalmTell DEF Elsewhere, Calm
<1>5. /\ UprocWhere(a)' = "trapTell" /\ SstWhere(a)' = SstWhere(a)
      /\ \A b \in Asid \ {a} : SstWhere(b)' = SstWhere(b) /\ UprocWhere(b)' = UprocWhere(b)
      /\ pc' \in [Proc -> Steps] /\ Control'
  BY <1>0, <1>2, UprocMoves DEF UprocSteps
<1>6. Types'
  BY <1>0, <1>2, <1>5 DEF Types, Posted
<1>7. \A q \in Proc \ {Swap} : From(q)' = From(q)
  BY <1>0, <1>2, PostedFrom
<1>8. \A b \in Asid \ {a} : Kept(b)
  BY <1>5, <1>7, OthersKept, Names DEF SupportProcs
<1>10. Session(a)' /\ Order(a)'
  BY <1>0, <1>1, <1>5, <1>7, Names DEF Session, Order, Idle
<1> QED BY <1>4, <1>5, <1>6, <1>8, <1>10, Assemble

LEMMA StepTrapTell ==
  ASSUME IInv, NEW a \in Asid, Tell(Uproc(a), "trapTell", "request", Sst(a), "lost"),
         request' = [request EXCEPT ![a] = Payload("TERMINATE")],
         UNCHANGED <<counting, requests, writing, devices, memory>>
  PROVE  IInv'
<1>0. /\ Base /\ Types /\ Control /\ Letters /\ Session(a) /\ Order(a)
      /\ Uproc(a) \in Proc /\ Uproc(a) \in SupportProcs /\ Sst(a) # Swap
      /\ Sst(a) \in Proc /\ Sst(a) \in SupportProcs /\ MayWrite(Uproc(a), Sst(a))
  BY InvBase, Names DEF IInv, MayWrite
<1>1. /\ pc[Uproc(a)] = "trapTell" /\ SstWhere(a) \in Idle
      /\ Uproc(a) \notin From(Sst(a)) /\ Sst(a) \notin From(Uproc(a))
  BY Turn DEF Tell, At, Waiting
<1>2. /\ Uproc(a) \in alive /\ pc' = [pc EXCEPT ![Uproc(a)] = "lost"] /\ UNCHANGED alive
      /\ Posted(msg_inbox, msg_inbox', Uproc(a), "request", Sst(a))
  BY <1>0, <1>1, TellFacts DEF Message
<1>3. /\ request' \in [Asid -> Request \cup {NULL}] /\ request'[a] \in Request
      /\ \A b \in Asid \ {a} : request'[b] = request[b]
  <2>1. Payload("TERMINATE") \in Request
    BY DEF Payload, Request, Service, String
  <2> QED BY <1>0, <2>1 DEF Types
<1>4. Overall'
  BY <1>0, <1>1, <1>2, CalmTell DEF Elsewhere, Calm
<1>5. /\ UprocWhere(a)' = "lost" /\ SstWhere(a)' = SstWhere(a)
      /\ \A b \in Asid \ {a} : SstWhere(b)' = SstWhere(b) /\ UprocWhere(b)' = UprocWhere(b)
      /\ pc' \in [Proc -> Steps] /\ Control'
  BY <1>0, <1>2, UprocMoves DEF UprocSteps
<1>6. Types'
  BY <1>0, <1>2, <1>3, <1>5 DEF Types, Posted
<1>7. \A q \in Proc \ {Sst(a)} : From(q)' = From(q)
  BY <1>0, <1>2, PostedFrom
<1>8. \A b \in Asid \ {a} : Kept(b)
  BY <1>3, <1>5, <1>7, OthersKept, Names DEF SupportProcs
<1>9. From(Uproc(a))' = From(Uproc(a))
  BY <1>0, <1>7, Names
<1>10. Session(a)' /\ Order(a)'
  BY <1>0, <1>1, <1>3, <1>5, <1>9 DEF Session, Order, Idle, Waiting
<1> QED BY <1>4, <1>5, <1>6, <1>8, <1>10, Assemble

------------------------------------------------------------------------------
(* Steps that leave the processes where they are. *)

\* Everything but pages and the answers to swapMutex() is as it was.
LEMMA Unmoved ==
  ASSUME IInv, Types', Control',
         UNCHANGED <<alive, pc, counting, programs, devices, exceptState>>,
         \A q \in Proc \ {Swap} : msg_inbox'[q] = msg_inbox[q]
  PROVE  IInv'
<1>1. /\ \A q \in Proc \ {Swap} : From(q)' = From(q)
      /\ msg_inbox'[Ssi] = msg_inbox[Ssi] /\ From(Test)' = From(Test) /\ From(Ssi)' = From(Ssi)
      /\ \A a \in Asid : From(Sst(a))' = From(Sst(a)) /\ From(Uproc(a))' = From(Uproc(a))
      /\ \A c \in Client : From(c)' = From(c)
  BY Names, Clients DEF From
<1>2. Letters'
  BY <1>1 DEF IInv, Letters
<1>3. Births'
  <2>1. ASSUME NEW a \in Asid PROVE Family(a)'
    BY <1>1 DEF IInv, Births, Family, Born, Parent
  <2> QED BY <2>1 DEF IInv, Births
<1>4. Conversations'
  <2>1. ASSUME NEW m \in ToSet(msg_inbox'[Ssi])
        PROVE  /\ Asks(m.from, m.op)' /\ Ssi \notin From(m.from)'
               /\ \A d \in Device : devQueue'[d] # m.from
    <3>1. m \in ToSet(msg_inbox[Ssi]) /\ m.from \in From(Ssi) /\ From(Ssi) \subseteq Client
      BY <1>1, LettersRead DEF IInv, From, Writers
    <3> QED BY <1>1, <3>1 DEF IInv, Conversations, Asks
  <2>2. ASSUME NEW d \in Device PROVE Slots(d)'
    <3>1. Sst(d[2] + 1) \in Client /\ Slots(d)
      BY Names DEF Client, Device, IInv, Conversations
    <3> QED BY <1>1, <3>1 DEF Slots
  <2> QED BY <1>1, <2>1, <2>2 DEF IInv, Conversations, Waits
<1>5. Counting'
  BY <1>1 DEF IInv, Counting, Ended, Told
<1>6. \A a \in Asid : Kept(a)
  BY <1>1 DEF Kept, SstWhere, UprocWhere, Where
<1>7. \A a \in Asid : Session(a)' /\ Order(a)'
  BY <1>6, SessionKept DEF IInv
<1> QED BY <1>2, <1>3, <1>4, <1>5, <1>7 DEF IInv

LEMMA StepPages ==
  ASSUME IInv, NEW a \in Asid, Drop(a) \/ Evict(a)
  PROVE  IInv'
<1>1. /\ UNCHANGED <<nucleus, pc, counting, programs, writing, devices, exceptState>>
      /\ page' \in [Asid -> {"tlb", "memory", "absent"}] /\ evictions' \in 0..MaxEvictions
  <2>1. CASE Drop(a)
    BY <2>1 DEF Drop, IInv, Types
  <2>2. CASE Evict(a)
    BY <2>2, SupportAssumption DEF Evict, IInv, Types
  <2> QED BY <2>1, <2>2
<1>2. Types'
  BY <1>1 DEF IInv, Types
<1>3. Control'
  BY <1>1 DEF IInv, Control
<1> QED BY <1>1, <1>2, <1>3, Unmoved

LEMMA StepStutter ==
  ASSUME IInv, UNCHANGED vars
  PROVE  IInv'
<1>1. UNCHANGED <<nucleus, pc, counting, programs, writing, devices, memory>>
  BY DEF vars
<1>2. Types'
  BY <1>1 DEF IInv, Types
<1>3. Control'
  BY <1>1 DEF IInv, Control
<1> QED BY <1>1, <1>2, <1>3, Unmoved

LEMMA StepSwapMutex ==
  ASSUME IInv, SwapMutex
  PROVE  IInv'
<1>1. PICK w \in From(Swap) :
        /\ Swap \in alive /\ pc[Swap] = "serve" /\ pc' = [pc EXCEPT ![Swap] = "serve"]
        /\ UNCHANGED alive /\ Received(msg_inbox, msg_inbox', Swap, w)
  BY ReceiveFacts, Names DEF IInv, SwapMutex
<1>2. /\ UNCHANGED <<alive, pc, counting, programs, writing, devices, memory>>
      /\ msg_inbox' \in [Proc -> Seq(Message)]
      /\ \A q \in Proc \ {Swap} : msg_inbox'[q] = msg_inbox[q]
  BY <1>1 DEF IInv, SwapMutex, Types, Received
<1>3. Types'
  BY <1>2 DEF IInv, Types
<1>4. Control'
  BY <1>2 DEF IInv, Control
<1> QED BY <1>2, <1>3, <1>4, Unmoved

------------------------------------------------------------------------------
(* test(). *)

\* test() goes on at l2: what the rest of the invariant needs.
LEMMA TestAssemble ==
  ASSUME IInv, NEW l2 \in TestSteps, pc' = [pc EXCEPT ![Test] = l2], UNCHANGED alive, Quiet,
         msg_inbox' \in [Proc -> Seq(Message)],
         asid' \in 1..(UPROCMAX + 1), uProcCount' \in 0..UPROCMAX, Overall',
         \A q \in Proc \ {Test, Ssi} : From(q)' = From(q)
  PROVE  IInv'
<1>1. \A q \in Proc \ {Test} : pc'[q] = pc[q]
  BY DEF IInv, Types
<1>2. pc'[Test] = l2 /\ pc' \in [Proc -> Steps]
  <2>1. l2 \in Steps
    BY DEF TestSteps, Steps
  <2> QED BY <2>1, Names DEF IInv, Types
<1>3. Types'
  BY <1>2 DEF IInv, Types
<1>4. Control'
  BY <1>1, <1>2, Names DEF IInv, Control
<1>5. ASSUME NEW b \in Asid PROVE Kept(b)
  <2>1. /\ From(Sst(b))' = From(Sst(b)) /\ From(Uproc(b))' = From(Uproc(b))
        /\ pc'[Sst(b)] = pc[Sst(b)] /\ pc'[Uproc(b)] = pc[Uproc(b)]
    BY <1>1, Names
  <2>2. SstWhere(b)' = SstWhere(b) /\ UprocWhere(b)' = UprocWhere(b)
    BY <2>1 DEF SstWhere, UprocWhere, Where
  <2> QED BY <2>1, <2>2 DEF Kept
<1>6. \A b \in Asid : Session(b)' /\ Order(b)'
  BY <1>5, SessionKept DEF IInv
<1> QED BY <1>3, <1>4, <1>6 DEF IInv, Overall

LEMMA TestAsks ==
  ASSUME IInv, NEW l, NEW l2, NEW op,
         \/ l = "newSwap" /\ l2 = "getSwap" /\ op = "create"
         \/ l = "newSst" /\ l2 = "getSst" /\ op = "create"
         \/ l = "suicide" /\ l2 = "dying" /\ op = "kill",
         Tell(Test, l, op, Ssi, l2), UNCHANGED counting, Quiet
  PROVE  IInv'
<1>1. /\ Types /\ Control /\ Births /\ Conversations /\ Counting /\ Letters
      /\ Test \in Proc /\ Test \in Client /\ Ssi \in Proc /\ Ssi # Test /\ Ssi # Swap
      /\ MayWrite(Test, Ssi)
  BY Names, Clients DEF IInv, MayWrite
<1>2. Test \notin From(Ssi) /\ Ssi \notin From(Test)
  BY <1>1, NotAsked DEF Tell, At
<1>3. /\ Test \in alive /\ pc[Test] = l /\ pc' = [pc EXCEPT ![Test] = l2] /\ UNCHANGED alive
      /\ Posted(msg_inbox, msg_inbox', Test, op, Ssi)
  BY <1>1, <1>2, TellFacts DEF Message
<1>4. \A q \in Proc \ {Ssi} : From(q)' = From(q)
  BY <1>1, <1>3, PostedFrom
<1>5. Letters'
  BY <1>1, <1>3, LettersPosted
<1>6. /\ pc'[Test] = l2 /\ \A b \in Asid : pc'[Sst(b)] = pc[Sst(b)]
  BY <1>1, <1>3, Names DEF Types
<1>7. Births'
  <2>1. \A b \in Asid : Born(b)' <=> Born(b)
    BY <1>1, <1>2, <1>3, <1>4, <1>6 DEF Born
  <2>2. \A b \in Asid : Parent(b)' <=> Parent(b)
    BY <1>4, <1>6, Names DEF Parent
  <2> QED BY <1>1, <1>3, <1>6, <2>1, <2>2, BirthsKept DEF Births
<1>8. Conversations'
  <2>1. Asks(Test, op)'
    BY <1>6 DEF Asks
  <2> QED BY <1>1, <1>3, <2>1, ConversationsAsk DEF Births
<1>9. Counting'
  <2>1. l \in {"suicide", "dying"} <=> l2 \in {"suicide", "dying"}
    OBVIOUS
  <2>2. From(Test)' = From(Test)
    BY <1>1, <1>4
  <2> QED BY <1>1, <1>3, <2>1, <2>2, CountingKept
<1>10. l2 \in TestSteps
  BY DEF TestSteps
<1>11. /\ msg_inbox' \in [Proc -> Seq(Message)]
       /\ asid' \in 1..(UPROCMAX + 1) /\ uProcCount' \in 0..UPROCMAX
  BY <1>1, <1>3 DEF Types, Posted
<1> QED BY <1>3, <1>4, <1>5, <1>7, <1>8, <1>9, <1>10, <1>11, TestAssemble DEF Overall

LEMMA TestHears ==
  ASSUME IInv, NEW l \in {"getSwap", "getSst"}, NEW l2 \in {"newSst", "count"},
         Receive(Test, l, Ssi, l2), UNCHANGED uProcCount, Quiet,
         l = "getSwap" => asid' = asid /\ l2 = "newSst",
         l = "getSst" => asid' = asid + 1 /\ (l2 = "newSst" <=> asid # UPROCMAX)
  PROVE  IInv'
<1>1. /\ Types /\ Control /\ Births /\ Conversations /\ Counting /\ Letters
      /\ Test \in Proc \ {Swap} /\ Test \in Client /\ Ssi \in Proc /\ Ssi # Test
      /\ Ssi # NULL /\ UPROCMAX \in Nat \ {0} /\ Asid = 1..UPROCMAX
  BY Names, Clients DEF IInv
<1>2. /\ Ssi \in From(Test) /\ Test \in alive /\ pc[Test] = l
      /\ pc' = [pc EXCEPT ![Test] = l2] /\ UNCHANGED alive
      /\ Received(msg_inbox, msg_inbox', Test, Ssi)
  BY <1>1, ReceiveFacts
<1>3. /\ \A q \in Proc \ {Test} : From(q)' = From(q)
      /\ From(Test)' = From(Test) \ {Ssi}
  BY <1>1, <1>2, ReceivedFrom
<1>4. Letters'
  BY <1>1, <1>2, LettersReceived
<1>5. /\ pc'[Test] = l2 /\ \A b \in Asid : pc'[Sst(b)] = pc[Sst(b)]
  BY <1>1, <1>2, Names DEF Types
<1>6. /\ asid \in Asid /\ (l = "getSwap" => asid = 1)
      /\ asid' \in 1..(UPROCMAX + 1) /\ (l2 = "newSst" => asid' \in Asid)
  BY <1>1, <1>2 DEF Births, Types
<1>7. Births'
  <2>1. ASSUME NEW b \in Asid PROVE Born(b)' <=> Born(b)
    BY <1>1, <1>2, <1>5, <1>6 DEF Born
  <2>2. \A b \in Asid : Parent(b)' <=> Parent(b)
    BY <1>3, <1>5, Names DEF Parent
  <2> QED BY <1>1, <1>2, <1>5, <1>6, <2>1, <2>2, BirthsKept
<1>8. Conversations'
  BY <1>1, <1>2, ConversationsHear
<1>9. Counting'
  <2>1. \A b \in Asid : Sst(b) \in From(Test)' <=> Sst(b) \in From(Test)
    BY <1>3, Names
  <2> QED BY <1>1, <1>2, <2>1, CountingKept
<1>10. l2 \in TestSteps /\ msg_inbox' \in [Proc -> Seq(Message)] /\ uProcCount' \in 0..UPROCMAX
  BY <1>1, <1>2 DEF Types, TestSteps, Received
<1> QED BY <1>2, <1>3, <1>4, <1>6, <1>7, <1>8, <1>9, <1>10, TestAssemble DEF Overall

\* The last SST to be counted is the last to end.
LEMMA StepTestCounts ==
  ASSUME IInv, TestCounts
  PROVE  IInv'
<1>1. /\ Types /\ Control /\ Births /\ Conversations /\ Counting /\ Letters
      /\ Test \in Proc \ {Swap} /\ Test \in Client /\ Ssi \in Proc /\ Ssi # Test
      /\ UPROCMAX \in Nat \ {0} /\ Asid = 1..UPROCMAX
  BY Names, Clients DEF IInv
<1> DEFINE l2 == IF uProcCount = 1 THEN "suicide" ELSE "count"
<1>2. Receive(Test, "count", NULL, l2) /\ uProcCount' = uProcCount - 1 /\ asid' = asid /\ Quiet
  BY DEF TestCounts
<1> HIDE DEF l2
<1>3. PICK w \in From(Test) :
        /\ Test \in alive /\ pc[Test] = "count" /\ pc' = [pc EXCEPT ![Test] = l2]
        /\ UNCHANGED alive /\ Received(msg_inbox, msg_inbox', Test, w)
  BY <1>1, <1>2, ReceiveFacts
<1>4. Ssi \notin From(Test)
  BY <1>1, <1>3 DEF Conversations, Waits
<1>5. PICK a \in Asid : w = Sst(a)
  BY <1>1, <1>3, <1>4, LettersRead
<1>6. /\ \A q \in Proc \ {Test} : From(q)' = From(q)
      /\ From(Test)' = From(Test) \ {w} /\ msg_inbox'[Ssi] = msg_inbox[Ssi]
  BY <1>1, <1>3, ReceivedFrom
<1>7. Letters'
  BY <1>1, <1>3, LettersReceived
<1>8. /\ pc'[Test] = l2 /\ l2 \in {"suicide", "count"}
      /\ \A b \in Asid : pc'[Sst(b)] = pc[Sst(b)]
  BY <1>1, <1>3, Names DEF Types, l2
<1>9. Births'
  <2>1. ASSUME NEW b \in Asid PROVE Born(b)' <=> Born(b)
    BY <1>1, <1>2, <1>3, <1>8 DEF Born
  <2>2. \A b \in Asid : Parent(b)' <=> Parent(b)
    BY <1>6, <1>8, Names DEF Parent
  <2> QED BY <1>1, <1>3, <1>8, <2>1, <2>2, BirthsKept
<1>10. Conversations'
  <2>1. \A c \in Client : Ssi \in From(c)' => Ssi \in From(c)
    BY <1>6, Clients
  <2> QED BY <1>1, <1>2, <1>3, <1>6, <2>1, ConversationsWalk
<1>11. /\ a \in Told /\ Told \subseteq Ended /\ Ended \subseteq Asid
       /\ uProcCount = UPROCMAX - Cardinality(Ended \ Told)
  BY <1>1, <1>3, <1>5 DEF Counting, Told, Ended
<1>12. Ended' = Ended /\ Told' = Told \ {a}
  BY <1>5, <1>6, <1>8, Names DEF Ended, Told
<1>13. /\ Cardinality(Ended' \ Told') = Cardinality(Ended \ Told) + 1
       /\ Cardinality(Ended \ Told) \in Nat /\ Cardinality(Ended' \ Told') <= UPROCMAX
       /\ Cardinality(Ended' \ Told') = UPROCMAX => Ended' \ Told' = Asid
  <2>1. IsFiniteSet(Asid) /\ Cardinality(Asid) = UPROCMAX
    BY <1>1, FS_Interval
  <2> DEFINE S == Ended \ Told
  <2>2. S \in SUBSET Asid /\ S \cup {a} \in SUBSET Asid /\ a \notin S
    BY <1>11
  <2>3. Ended' \ Told' = S \cup {a}
    BY <1>11, <1>12
  <2> HIDE DEF S
  <2>4. IsFiniteSet(S)
    BY <2>1, <2>2, FS_Subset
  <2>5. Cardinality(S) \in Nat /\ Cardinality(S \cup {a}) = Cardinality(S) + 1
    BY <2>2, <2>4, FS_CardinalityType, FS_AddElement
  <2>6. /\ Cardinality(S \cup {a}) <= Cardinality(Asid)
        /\ Cardinality(Asid) = Cardinality(S \cup {a}) => Asid = S \cup {a}
    BY <2>1, <2>2, FS_Subset
  <2> QED BY <2>1, <2>3, <2>5, <2>6 DEF S
<1>14. uProcCount' = UPROCMAX - Cardinality(Ended' \ Told') /\ uProcCount' \in 0..UPROCMAX
  BY <1>1, <1>2, <1>11, <1>13
<1>15. Told' \subseteq Ended'
  BY <1>11, <1>12
<1>16. l2 = "suicide" => Ended' = Asid
  <2> SUFFICES ASSUME l2 = "suicide" PROVE Ended' = Asid
    OBVIOUS
  <2>1. uProcCount' = 0
    BY <1>2 DEF l2
  <2>2. Cardinality(Ended' \ Told') = UPROCMAX
    BY <1>1, <1>13, <1>14, <2>1
  <2> QED BY <1>11, <1>12, <1>13, <2>2
<1>17. Counting'
  BY <1>8, <1>14, <1>15, <1>16 DEF Counting
<1>18. l2 \in TestSteps /\ msg_inbox' \in [Proc -> Seq(Message)] /\ asid' \in 1..(UPROCMAX + 1)
  BY <1>1, <1>2, <1>3, <1>8 DEF Types, TestSteps, Received
<1> QED BY <1>2, <1>3, <1>6, <1>7, <1>9, <1>10, <1>14, <1>17, <1>18, TestAssemble DEF Overall

LEMMA StepTest ==
  ASSUME IInv, TestStep
  PROVE  IInv'
<1>1. CASE TestNewSwap
  <2>1. CASE Tell(Test, "newSwap", "create", Ssi, "getSwap")
    BY <1>1, <2>1, TestAsks DEF TestNewSwap
  <2>2. CASE Receive(Test, "getSwap", Ssi, "newSst")
    BY <1>1, <2>2, TestHears DEF TestNewSwap
  <2> QED BY <1>1, <2>1, <2>2 DEF TestNewSwap, newProc
<1>2. CASE TestNewSst
  <2> DEFINE l2 == IF asid = UPROCMAX THEN "count" ELSE "newSst"
  <2>1. CASE Tell(Test, "newSst", "create", Ssi, "getSst")
    <3>1. UNCHANGED counting /\ Quiet
      BY <1>2, <2>1 DEF TestNewSst, Tell, At
    <3> QED BY <2>1, <3>1, TestAsks
  <2>2. CASE Receive(Test, "getSst", Ssi, l2)
    <3>1. asid' = asid + 1 /\ UNCHANGED uProcCount /\ Quiet
      BY <1>2, <2>2 DEF TestNewSst, Receive, At
    <3>2. l2 \in {"newSst", "count"} /\ (l2 = "newSst" <=> asid # UPROCMAX)
      OBVIOUS
    <3> HIDE DEF l2
    <3> QED BY <2>2, <3>1, <3>2, TestHears
  <2> QED BY <1>2, <2>1, <2>2 DEF TestNewSst, newProc
<1>3. CASE TestCounts
  BY <1>3, StepTestCounts
<1>4. CASE suicide(Test)
  BY <1>4, TestAsks DEF suicide
<1> QED BY <1>1, <1>2, <1>3, <1>4 DEF TestStep

------------------------------------------------------------------------------
(* The SSI and the devices: they answer, and no process moves. *)

\* The message the SSI serves is the request of a client that waits.
LEMMA Serves ==
  ASSUME IInv, NEW op, Serving(op)
  PROVE  /\ sender \in Client /\ sender \in Proc \ {Ssi, Swap} /\ Asks(sender, op)
         /\ sender \notin Writers(Served[Ssi]) /\ Ssi \notin From(sender)
         /\ \A d \in Device : devQueue[d] # sender
         /\ Served \in [Proc -> Seq(Message)]
         /\ \A q \in Proc \ {Swap} : Distinct(Served[q])
         /\ \A q \in Proc \ {Ssi} : Served[q] = msg_inbox[q]
         /\ Writers(Served[Ssi]) = From(Ssi) \ {sender}
         /\ ToSet(Served[Ssi]) \subseteq ToSet(msg_inbox[Ssi])
<1>1. PICK m \in ToSet(msg_inbox[Ssi]) :
        /\ m.op = op /\ m.from = sender /\ sender \in From(Ssi) /\ sender \in Proc
        /\ Served \in [Proc -> Seq(Message)]
        /\ \A q \in Proc \ {Swap} : Distinct(Served[q])
        /\ \A q \in Proc \ {Ssi} : Served[q] = msg_inbox[q]
        /\ Writers(Served[Ssi]) = From(Ssi) \ {sender}
        /\ ToSet(Served[Ssi]) \subseteq ToSet(msg_inbox[Ssi])
  BY ServeFacts DEF IInv
<1>2. sender \in Client /\ sender \notin {Ssi, Swap}
  BY <1>1, LettersRead, Clients DEF IInv
<1>3. Asks(sender, op) /\ Ssi \notin From(sender) /\ \A d \in Device : devQueue[d] # sender
  BY <1>1 DEF IInv, Conversations
<1> QED BY <1>1, <1>2, <1>3

\* Letters, and what the programs see, when only messages to and from the SSI change.
SsiWrites ==
  \A q \in Proc \ {Swap} :
    \A w \in From(q)' : w \in From(q) \/ (w = Ssi /\ MayWrite(Ssi, q))

LEMMA Answered ==
  ASSUME IInv, UNCHANGED <<pc, counting, programs, memory>>,
         msg_inbox' \in [Proc -> Seq(Message)],
         \A q \in Proc \ {Swap} : Distinct(msg_inbox'[q]),
         SsiWrites,
         \A a \in Asid :
           /\ From(Uproc(a))' = From(Uproc(a))
           /\ Uproc(a) \in From(Sst(a))' <=> Uproc(a) \in From(Sst(a))
  PROVE  Letters' /\ \A a \in Asid : Session(a)' /\ Order(a)'
<1>1. Letters'
  BY DEF IInv, Letters, SsiWrites
<1>2. \A a \in Asid : SstWhere(a)' = SstWhere(a) /\ UprocWhere(a)' = UprocWhere(a)
  BY DEF SstWhere, UprocWhere, Where
<1>3. ASSUME NEW a \in Asid PROVE Session(a)' /\ Order(a)'
  <2>1. /\ Uproc(a) \in From(Sst(a))' => Uproc(a) \in From(Sst(a))
        /\ Sst(a) \in From(Uproc(a))' =>
             /\ Sst(a) \in From(Uproc(a))
             /\ (Uproc(a) \in From(Sst(a))' <=> Uproc(a) \in From(Sst(a)))
    OBVIOUS
  <2> QED BY <1>2, <2>1 DEF IInv, Session, Order
<1> QED BY <1>1, <1>3

LEMMA StepSsiCreate ==
  ASSUME IInv, SsiCreate
  PROVE  IInv'
<1>0. PICK c : c = sender
  OBVIOUS
<1>1. /\ Types /\ Control /\ Births /\ Conversations /\ Counting /\ Letters
      /\ Test \in Proc \ {Swap} /\ Test \in Client /\ Ssi \in Proc \ {Swap} /\ Ssi # Test
      /\ Client \subseteq Proc
      /\ UNCHANGED <<pc, counting, programs, writing, devices, memory>>
  BY Names, Clients DEF IInv, SsiCreate
<1>2. /\ c \in Client /\ c \in Proc \ {Ssi, Swap} /\ pc[c] \in {"getSwap", "getSst", "getChild"}
      /\ c \notin Writers(Served[Ssi]) /\ Ssi \notin From(c)
      /\ \A d \in Device : devQueue[d] # c
      /\ Served \in [Proc -> Seq(Message)]
      /\ \A q \in Proc \ {Swap} : Distinct(Served[q])
      /\ \A q \in Proc \ {Ssi} : Served[q] = msg_inbox[q]
      /\ Writers(Served[Ssi]) = From(Ssi) \ {c}
      /\ ToSet(Served[Ssi]) \subseteq ToSet(msg_inbox[Ssi])
  BY <1>0, Serves DEF SsiCreate, Asks
<1>3. /\ c = Test /\ pc[Test] \in {"getSwap", "getSst"}
      \/ \E a \in Asid : c = Sst(a) /\ pc[Sst(a)] = "getChild"
  BY <1>1, <1>2, Clients DEF Control, TestSteps, SstSteps
<1>4. c \in alive
  BY <1>1, <1>3 DEF Births, Family
<1>5. /\ Posted(Served, msg_inbox', Ssi, "answer", c) /\ alive' = alive \cup {NewChild}
  <2>1. msg_inbox' = Push(Served, Ssi, "answer", c) /\ alive' = alive \cup {NewChild}
    BY <1>0 DEF SsiCreate
  <2>2. Ssi \notin Writers(Served[c])
    BY <1>2 DEF From
  <2>3. [from |-> Ssi, op |-> "answer"] \in Message
    BY <1>1 DEF Message
  <2> QED BY <1>1, <1>2, <2>1, <2>2, <2>3, PushFacts
<1>6. /\ \A q \in Proc : q # Ssi /\ q # c => From(q)' = From(q)
      /\ From(c)' = From(c) \cup {Ssi} /\ From(Ssi)' = From(Ssi) \ {c}
      /\ ToSet(msg_inbox'[Ssi]) \subseteq ToSet(msg_inbox[Ssi])
      /\ msg_inbox' \in [Proc -> Seq(Message)]
      /\ \A q \in Proc \ {Swap} : Distinct(msg_inbox'[q])
  <2>1. /\ \A q \in Proc \ {c} : msg_inbox'[q] = Served[q]
        /\ Writers(msg_inbox'[c]) = Writers(Served[c]) \cup {Ssi}
        /\ msg_inbox' \in [Proc -> Seq(Message)]
        /\ \A q \in Proc \ {Swap} : Distinct(msg_inbox'[q])
    BY <1>4, <1>5 DEF Posted
  <2>2. \A q \in Proc : q # Ssi /\ q # c => From(q)' = From(q)
    BY <1>2, <2>1 DEF From
  <2>3. From(c)' = From(c) \cup {Ssi}
    BY <1>2, <2>1 DEF From
  <2>4. msg_inbox'[Ssi] = Served[Ssi]
    BY <1>1, <1>2, <2>1
  <2>5. From(Ssi)' = From(Ssi) \ {c} /\ ToSet(msg_inbox'[Ssi]) \subseteq ToSet(msg_inbox[Ssi])
    BY <1>2, <2>4 DEF From
  <2> QED BY <2>1, <2>2, <2>3, <2>5
<1>7. NewChild \in Proc
  BY <1>0, <1>1, <1>3, Names DEF NewChild, Births
<1>8. Types' /\ Control'
  BY <1>1, <1>5, <1>6, <1>7 DEF Types, Control
<1>9. \A a \in Asid : /\ From(Uproc(a))' = From(Uproc(a))
                      /\ Uproc(a) \in From(Sst(a))' <=> Uproc(a) \in From(Sst(a))
  <2>1. \A a \in Asid : /\ Uproc(a) # c /\ Uproc(a) \in Proc /\ Uproc(a) # Ssi
                        /\ Sst(a) \in Proc /\ Sst(a) # Ssi
    BY <1>2, Clients, Names
  <2> QED BY <1>6, <2>1
<1>10. Letters' /\ \A a \in Asid : Session(a)' /\ Order(a)'
  <2>1. MayWrite(Ssi, c)
    BY <1>3 DEF MayWrite
  <2>2. SsiWrites
    BY <1>1, <1>6, <2>1 DEF SsiWrites
  <2> QED BY <1>1, <1>6, <1>9, <2>2, Answered
<1>11. Conversations'
  <2>1. ASSUME NEW m \in ToSet(msg_inbox'[Ssi])
        PROVE  /\ Asks(m.from, m.op)' /\ Ssi \notin From(m.from)'
               /\ \A d \in Device : devQueue'[d] # m.from
    <3>1. m \in ToSet(msg_inbox[Ssi]) /\ m.from \in From(Ssi)' /\ m.from \in From(Ssi)
      BY <1>6 DEF From, Writers
    <3>2. m.from # c /\ m.from \in Proc /\ m.from # Ssi
      BY <1>1, <1>6, <3>1, LettersRead, Clients
    <3>3. From(m.from)' = From(m.from)
      BY <1>6, <3>2
    <3> QED BY <1>1, <3>1, <3>3 DEF Conversations, Asks
  <2>2. ASSUME NEW q \in Client, Ssi \in From(q)' PROVE pc'[q] \in Waits(q)
    <3>1. CASE q = c
      BY <1>1, <1>3, <3>1, Names DEF Waits
    <3>2. CASE q # c
      BY <1>1, <1>6, <2>2, <3>2, Clients DEF Conversations
    <3> QED BY <3>1, <3>2
  <2>3. ASSUME NEW d \in Device PROVE Slots(d)'
    <3>1. /\ Sst(d[2] + 1) \in Proc /\ Sst(d[2] + 1) # Ssi /\ Slots(d)
          /\ devQueue[d] # NULL => Sst(d[2] + 1) # c
      BY <1>1, <1>2, Names DEF Device, Conversations, Slots
    <3> QED BY <1>1, <1>6, <3>1 DEF Slots
  <2> QED BY <1>1, <2>1, <2>2, <2>3 DEF Conversations, Waits
<1>12. Counting'
  <2>0. From(Test)' = From(Test) \/ From(Test)' = From(Test) \cup {Ssi}
    BY <1>1, <1>6
  <2>1. \A a \in Asid : Sst(a) \in From(Test)' <=> Sst(a) \in From(Test)
    BY <2>0, Names
  <2>2. Told' = Told /\ Ended' = Ended
    BY <1>1, <2>1 DEF Told, Ended
  <2> QED BY <1>1, <2>2 DEF Counting
<1>13. Births'
  <2>2. \A a \in Asid : Family(a)'
    <3>1. CASE c = Test /\ pc[Test] = "getSwap"
      <4>1. alive' = alive \cup {Swap}
        BY <1>0, <1>5, <3>1 DEF NewChild
      <4>2. ASSUME NEW a \in Asid PROVE Family(a)'
        <5>1. Family(a) /\ From(Sst(a))' = From(Sst(a))
          BY <1>1, <1>6, <3>1, Names DEF Births
        <5>2. (Born(a)' <=> Born(a)) /\ (Parent(a)' <=> Parent(a))
          BY <1>1, <3>1, <5>1 DEF Born, Parent
        <5>3. /\ Sst(a) \in alive' <=> Sst(a) \in alive
              /\ Uproc(a) \in alive' <=> Uproc(a) \in alive
          BY <4>1, Names
        <5> QED BY <1>1, <5>1, <5>2, <5>3 DEF Family
      <4> QED BY <4>2
    <3>2. CASE c = Test /\ pc[Test] = "getSst"
      <4>1. alive' = alive \cup {Sst(asid)} /\ asid \in Asid
        BY <1>0, <1>1, <1>5, <3>2 DEF NewChild, Births
      <4>2. ASSUME NEW a \in Asid PROVE Family(a)'
        <5>1. Family(a) /\ From(Sst(a))' = From(Sst(a)) /\ From(Test)' = From(Test) \cup {Ssi}
          <6>1. Family(a) /\ From(Test)' = From(Test) \cup {Ssi}
            BY <1>1, <1>6, <3>2 DEF Births
          <6>2. Sst(a) \in Proc /\ Sst(a) # c /\ Sst(a) # Ssi
            BY <3>2, Names
          <6> QED BY <1>6, <6>1, <6>2
        <5>2. Born(a)' <=> Born(a) \/ a = asid
          BY <1>1, <3>2, <5>1 DEF Born
        <5>3. Parent(a)' <=> Parent(a)
          BY <1>1, <5>1 DEF Parent
        <5>4. /\ Sst(a) \in alive' <=> Sst(a) \in alive \/ a = asid
              /\ Uproc(a) \in alive' <=> Uproc(a) \in alive
          BY <4>1, Names
        <5>5. a = asid => ~Born(a)
          BY <1>1, <1>2, <3>2 DEF Born, Types
        <5>6. a = asid => ~Parent(a)
          BY <5>1, <5>5 DEF Family, Parent
        <5> QED BY <1>1, <5>1, <5>2, <5>3, <5>4, <5>6 DEF Family
      <4> QED BY <4>2
    <3>3. ASSUME NEW b \in Asid, c = Sst(b), pc[Sst(b)] = "getChild"
          PROVE  \A a \in Asid : Family(a)'
      <4>1. alive' = alive \cup {Uproc(b)}
        BY <1>0, <1>5, <3>3, Names DEF NewChild
      <4>2. ASSUME NEW a \in Asid PROVE Family(a)'
        <5>1. /\ Family(a) /\ From(Test)' = From(Test)
              /\ a # b => From(Sst(a))' = From(Sst(a))
              /\ a = b => Ssi \in From(Sst(a))'
          BY <1>1, <1>6, <3>3, Names DEF Births
        <5>2. Born(a)' <=> Born(a)
          BY <1>1, <5>1 DEF Born
        <5>3. /\ a # b => (Parent(a)' <=> Parent(a))
              /\ a = b => Parent(a)'
          BY <1>1, <3>3, <5>1 DEF Parent
        <5>4. /\ Sst(a) \in alive' <=> Sst(a) \in alive
              /\ Uproc(a) \in alive' <=> Uproc(a) \in alive \/ a = b
          BY <4>1, Names
        <5> QED BY <1>1, <1>4, <3>3, <5>1, <5>2, <5>3, <5>4 DEF Family
      <4> QED BY <4>2
    <3> QED BY <1>3, <3>1, <3>2, <3>3
  <2> QED BY <1>1, <1>5, <2>2 DEF Births
<1> QED BY <1>8, <1>10, <1>11, <1>12, <1>13 DEF IInv

\* The address in do_io is that of the client's own printer or terminal.
LEMMA OwnDevice ==
  ASSUME NEW a \in Asid, NEW address \in Commands(a)
  PROVE  /\ SlotOf(address) \in Device /\ SlotOf(address)[2] + 1 = a
         /\ DeviceAt(address) = SlotOf(address)
<1>0. a \in 1..8 /\ a \in 1..UPROCLIMIT /\ a \in 1..UPROCMAX /\ UPROCMAX \in Nat /\ a \in Int
      /\ \A i \in 0..(UPROCMAX - 1) : i \in Int
  BY SupportAssumption DEF Asid, UPROCLIMIT
<1>1. PICK line \in {PRNTINT, TERMINT} :
        /\ SlotOf(address) = <<line - 3, a - 1>>
        /\ address \in DevAddrBase(line, a - 1)..(DevAddrBase(line, a - 1) + 15)
  <2>1. CASE address = CmdAddr(PrinterDev(a))
    <3>1. SlotOf(address) = <<PRNTINT - 3, a - 1>>
      BY <1>0, <2>1, DevicesOfAsid
    <3>2. address \in DevAddrBase(PRNTINT, a - 1)..(DevAddrBase(PRNTINT, a - 1) + 15)
      BY <1>0, <2>1 DEF CmdAddr, PrinterDev, DevAddrBase, START_DEVREG, PRNTINT, PRNT0ADDR,
                       TERM0ADDR, DTPCOMMAND, TRANSMCOMMAND
    <3> QED BY <3>1, <3>2
  <2>2. CASE address = CmdAddr(TerminalDev(a))
    <3>1. SlotOf(address) = <<TERMINT - 3, a - 1>>
      BY <1>0, <2>2, DevicesOfAsid
    <3>2. address \in DevAddrBase(TERMINT, a - 1)..(DevAddrBase(TERMINT, a - 1) + 15)
      BY <1>0, <2>2 DEF CmdAddr, TerminalDev, DevAddrBase, START_DEVREG, TERMINT, TERM0ADDR,
                       DTPCOMMAND, TRANSMCOMMAND
    <3> QED BY <3>1, <3>2
  <2> QED BY <2>1, <2>2 DEF Commands
<1> DEFINE d == <<line - 3, a - 1>>
<1>2. d \in Device /\ d[1] = line - 3 /\ d[2] = a - 1 /\ d[2] + 1 = a /\ line - 3 + 3 = line
  BY <1>0, <1>1 DEF Device, PRNTINT, TERMINT
<1>3. address \in DevAddrBase(d[1] + 3, d[2])..(DevAddrBase(d[1] + 3, d[2]) + 15)
  BY <1>1, <1>2
<1>4. ASSUME NEW e \in Device,
             address \in DevAddrBase(e[1] + 3, e[2])..(DevAddrBase(e[1] + 3, e[2]) + 15)
      PROVE  e = d
  <2>1. /\ e[1] \in {3, 4} /\ e[2] \in 0..7 /\ e = <<e[1], e[2]>>
    BY SupportAssumption DEF Device, PRNTINT, TERMINT, UPROCLIMIT
  <2>2. line \in {6, 7} /\ a - 1 \in 0..7
    BY <1>0 DEF PRNTINT, TERMINT
  <2>3. e[1] = line - 3 /\ e[2] = a - 1
    BY <1>1, <1>4, <2>1, <2>2 DEF DevAddrBase, START_DEVREG
  <2> QED BY <2>1, <2>3
<1>5. DeviceAt(address) = d
  BY <1>2, <1>3, <1>4, Zenon DEF DeviceAt
<1> QED BY <1>1, <1>2, <1>5

LEMMA StepSsiDoIO ==
  ASSUME IInv, SsiDoIO
  PROVE  IInv'
<1>0. PICK c : c = sender
  OBVIOUS
<1>1. /\ Types /\ Control /\ Births /\ Conversations /\ Counting /\ Letters
      /\ Ssi \in Proc \ {Swap} /\ Client \subseteq Proc \ {Ssi, Swap} /\ Test \in Client
      /\ UNCHANGED <<alive, pc, counting, programs, writing, output, memory>>
  BY Names, Clients DEF IInv, SsiDoIO
<1>2. /\ c \in Client /\ pc[c] = "printWait"
      /\ c \notin Writers(Served[Ssi]) /\ Ssi \notin From(c)
      /\ \A d \in Device : devQueue[d] # c
      /\ Served \in [Proc -> Seq(Message)]
      /\ \A q \in Proc \ {Swap} : Distinct(Served[q])
      /\ \A q \in Proc \ {Ssi} : Served[q] = msg_inbox[q]
      /\ Writers(Served[Ssi]) = From(Ssi) \ {c}
      /\ ToSet(Served[Ssi]) \subseteq ToSet(msg_inbox[Ssi])
      /\ msg_inbox' = Served
  BY <1>0, Serves DEF SsiDoIO, Asks
<1>3. PICK a \in Asid : c = Sst(a)
  BY <1>1, <1>2, Clients DEF Control, TestSteps
<1>4. /\ \A q \in Proc : q # Ssi => From(q)' = From(q)
      /\ From(Ssi)' = From(Ssi) \ {c}
      /\ ToSet(msg_inbox'[Ssi]) \subseteq ToSet(msg_inbox[Ssi])
  BY <1>2 DEF From
<1>5. PICK d \in Device :
        /\ d[2] + 1 = a
        /\ devQueue' = [devQueue EXCEPT ![d] = c]
        /\ printing' = [printing EXCEPT ![d] = do_io[a].char]
  <2>1. do_io[sender[2]] = do_io[a]
    BY <1>0, <1>3, Names
  <2>2. do_io[a].commandAddr \in Commands(a)
    BY <1>1 DEF Control
  <2> DEFINE d == SlotOf(do_io[a].commandAddr)
  <2>3. d \in Device /\ d[2] + 1 = a /\ DeviceAt(do_io[a].commandAddr) = d
    BY <2>2, OwnDevice
  <2>4. /\ devQueue' = [devQueue EXCEPT ![d] = c]
        /\ printing' = [printing EXCEPT ![d] = do_io[a].char]
    BY <1>0, <2>1, <2>3 DEF SsiDoIO
  <2> HIDE DEF d
  <2> QED BY <2>3, <2>4
<1>6. /\ devQueue' \in [Device -> Proc \cup {NULL}] /\ devQueue'[d] = c
      /\ printing' \in [Device -> Char \cup {NULL}]
      /\ \A e \in Device \ {d} : devQueue'[e] = devQueue[e] /\ printing'[e] = printing[e]
  <2>1. do_io[a].char \in Char \cup {NULL}
    BY <1>1 DEF Control
  <2>2. c \in Proc
    BY <1>1, <1>2
  <2> QED BY <1>1, <1>5, <2>1, <2>2 DEF Types
<1>7. Types' /\ Control'
  BY <1>1, <1>2, <1>6 DEF Types, Control
<1>8. \A b \in Asid : From(Uproc(b))' = From(Uproc(b)) /\ From(Sst(b))' = From(Sst(b))
  BY <1>4, Names
<1>9. Letters' /\ \A b \in Asid : Session(b)' /\ Order(b)'
  <2>1. SsiWrites
    BY <1>4 DEF SsiWrites
  <2> QED BY <1>1, <1>2, <1>8, <2>1, Answered
<1>10. \A q \in Client : From(q)' = From(q)
  BY <1>1, <1>4
<1>11. Conversations'
  <2>1. ASSUME NEW m \in ToSet(msg_inbox'[Ssi])
        PROVE  /\ Asks(m.from, m.op)' /\ Ssi \notin From(m.from)'
               /\ \A e \in Device : devQueue'[e] # m.from
    <3>1. m \in ToSet(msg_inbox[Ssi]) /\ m.from \in From(Ssi)' /\ m.from \in From(Ssi)
      BY <1>4 DEF From, Writers
    <3>2. m.from # c /\ m.from \in Client
      BY <1>1, <1>4, <3>1, LettersRead
    <3>3. /\ Asks(m.from, m.op) /\ Ssi \notin From(m.from)
          /\ \A e \in Device : devQueue[e] # m.from
      BY <1>1, <3>1 DEF Conversations
    <3>4. \A e \in Device : devQueue'[e] # m.from
      BY <1>6, <3>2, <3>3
    <3> QED BY <1>1, <1>10, <3>2, <3>3, <3>4 DEF Asks
  <2>2. ASSUME NEW e \in Device PROVE Slots(e)'
    <3>1. CASE e = d
      <4>1. c # NULL /\ Sst(d[2] + 1) = c
        BY <1>1, <1>2, <1>3, <1>5, Names
      <4>2. Ssi \notin From(c)'
        BY <1>2, <1>10
      <4> QED BY <1>1, <1>2, <1>6, <3>1, <4>1, <4>2 DEF Slots
    <3>2. CASE e # d
      <4>1. Sst(e[2] + 1) \in Client /\ Slots(e)
        BY <1>1, Names DEF Device, Conversations, Client
      <4> QED BY <1>1, <1>6, <1>10, <3>2, <4>1 DEF Slots
    <3> QED BY <3>1, <3>2
  <2>3. \A e, f \in Device : devQueue'[e] # NULL /\ devQueue'[e] = devQueue'[f] => e = f
    BY <1>1, <1>2, <1>6 DEF Conversations
  <2> QED BY <1>1, <1>10, <2>1, <2>2, <2>3 DEF Conversations, Waits
<1>12. Counting'
  <2>1. Told' = Told /\ Ended' = Ended
    BY <1>1, <1>10 DEF Told, Ended
  <2> QED BY <1>1, <2>1 DEF Counting
<1>13. Births'
  <2>2. ASSUME NEW b \in Asid PROVE Family(b)'
    <3>1. Family(b) /\ (Born(b)' <=> Born(b)) /\ (Parent(b)' <=> Parent(b))
      BY <1>1, <1>8, <1>10 DEF Births, Born, Parent
    <3> QED BY <1>1, <3>1 DEF Family
  <2> QED BY <1>1, <2>2 DEF Births
<1> QED BY <1>7, <1>9, <1>11, <1>12, <1>13 DEF IInv

\* suicide() of an SST or of test() takes away its programs, and no one who waits
\* for a device.
LEMMA KillsEnded ==
  ASSUME IInv, NEW c, c = sender, Serving("kill")
  PROVE  /\ Descendants(c) \subseteq Proc \ {Ssi} /\ c \in Descendants(c)
         /\ \A a \in Asid : Sst(a) \in Descendants(c) <=> Uproc(a) \in Descendants(c)
         /\ \A a \in Asid : Sst(a) \in Descendants(c) => a \in Ended
         /\ Test \in Descendants(c) => c = Test /\ pc[Test] = "dying"
         /\ Test \notin Descendants(c) => c # Test
<1>1. c \in Client /\ pc[c] = "dying"
  BY Serves DEF Asks
<1>2. CASE c = Test
  <2>1. Descendants(c) = Proc \ {Ssi}
    BY <1>2 DEF Descendants
  <2>2. Ended = Asid
    BY <1>1, <1>2 DEF IInv, Counting
  <2> QED BY <1>1, <1>2, <2>1, <2>2, Names
<1>3. ASSUME NEW b \in Asid, c = Sst(b)
      PROVE  Descendants(c) = {Sst(b), Uproc(b)} /\ b \in Ended /\ c # Test
  <2>1. c # Test /\ c[2] = b
    BY <1>3, Names
  <2>2. Descendants(c) = {q \in {Sst(a) : a \in Asid} : q = c} \cup
                         {q \in {Uproc(a) : a \in Asid} : q[2] = b}
    BY <2>1 DEF Descendants
  <2>3. {q \in {Sst(a) : a \in Asid} : q = c} = {Sst(b)}
    BY <1>3
  <2>4. {q \in {Uproc(a) : a \in Asid} : q[2] = b} = {Uproc(b)}
    BY Names
  <2>5. b \in Ended
    BY <1>1, <1>3 DEF Ended
  <2> QED BY <2>1, <2>2, <2>3, <2>4, <2>5
<1>4. ASSUME NEW b \in Asid, c = Sst(b)
      PROVE  /\ Descendants(c) \subseteq Proc \ {Ssi} /\ c \in Descendants(c)
             /\ \A a \in Asid : Sst(a) \in Descendants(c) <=> Uproc(a) \in Descendants(c)
             /\ \A a \in Asid : Sst(a) \in Descendants(c) => a \in Ended
             /\ Test \notin Descendants(c) /\ c # Test
  BY <1>3, <1>4, Names
<1>5. c = Test \/ \E b \in Asid : c = Sst(b)
  BY <1>1, Clients
<1> QED BY <1>2, <1>4, <1>5

LEMMA StepSsiKill ==
  ASSUME IInv, SsiKill
  PROVE  IInv'
<1>0. PICK c : c = sender
  OBVIOUS
<1> DEFINE D == Descendants(c)
<1>1. /\ Types /\ Control /\ Births /\ Conversations /\ Counting /\ Letters
      /\ Ssi \in Proc \ {Swap} /\ Client \subseteq Proc \ {Ssi, Swap} /\ Test \in Client
      /\ UNCHANGED <<pc, counting, programs, writing, printing, output, memory>>
  BY Names, Clients DEF IInv, SsiKill
<1>2. /\ c \in Client /\ pc[c] = "dying"
      /\ c \notin Writers(Served[Ssi])
      /\ Served \in [Proc -> Seq(Message)]
      /\ \A q \in Proc \ {Swap} : Distinct(Served[q])
      /\ \A q \in Proc \ {Ssi} : Served[q] = msg_inbox[q]
      /\ Writers(Served[Ssi]) = From(Ssi) \ {c}
      /\ ToSet(Served[Ssi]) \subseteq ToSet(msg_inbox[Ssi])
  BY <1>0, Serves DEF SsiKill, Asks
<1>3. /\ D \subseteq Proc \ {Ssi}
      /\ \A a \in Asid : Sst(a) \in D <=> Uproc(a) \in D
      /\ \A a \in Asid : Sst(a) \in D => a \in Ended
      /\ Test \in D => c = Test /\ pc[Test] = "dying"
  BY <1>0, KillsEnded DEF SsiKill
<1>4. /\ alive' = alive \ D
      /\ msg_inbox' = Served
      /\ devQueue' = [d \in Device |-> IF devQueue[d] \in D THEN NULL ELSE devQueue[d]]
  BY <1>0 DEF SsiKill
<1> HIDE DEF D
<1>5. /\ \A q \in Proc : q # Ssi => From(q)' = From(q)
      /\ From(Ssi)' = From(Ssi) \ {c}
      /\ ToSet(msg_inbox'[Ssi]) \subseteq ToSet(msg_inbox[Ssi])
  BY <1>2, <1>4 DEF From
<1>6. devQueue' = devQueue
  <2>1. ASSUME NEW d \in Device PROVE devQueue[d] \notin D
    <3>1. devQueue[d] # NULL =>
            \E b \in Asid : devQueue[d] = Sst(b) /\ pc[Sst(b)] = "printWait"
      BY <1>1, Names DEF Conversations, Slots, Device
    <3>2. NULL \notin D
      BY <1>3, Names
    <3> QED BY <1>3, <3>1, <3>2 DEF Ended
  <2> QED BY <1>1, <1>4, <2>1 DEF Types
<1>7. Types' /\ Control'
  BY <1>1, <1>2, <1>4, <1>6 DEF Types, Control
<1>8. \A a \in Asid : From(Uproc(a))' = From(Uproc(a)) /\ From(Sst(a))' = From(Sst(a))
  BY <1>5, Names
<1>9. Letters' /\ \A b \in Asid : Session(b)' /\ Order(b)'
  <2>1. SsiWrites
    BY <1>5 DEF SsiWrites
  <2> QED BY <1>1, <1>2, <1>4, <1>8, <2>1, Answered
<1>10. \A q \in Client : From(q)' = From(q)
  BY <1>1, <1>5
<1>11. Conversations'
  <2>1. ASSUME NEW m \in ToSet(msg_inbox'[Ssi])
        PROVE  /\ Asks(m.from, m.op)' /\ Ssi \notin From(m.from)'
               /\ \A e \in Device : devQueue'[e] # m.from
    <3>1. m \in ToSet(msg_inbox[Ssi]) /\ m.from \in From(Ssi)
      BY <1>5 DEF From, Writers
    <3>2. m.from \in Client
      BY <1>1, <3>1, LettersRead
    <3> QED BY <1>1, <1>6, <1>10, <3>1, <3>2 DEF Conversations, Asks
  <2>2. ASSUME NEW e \in Device PROVE Slots(e)'
    <3>1. Sst(e[2] + 1) \in Client /\ Slots(e)
      BY <1>1, Names DEF Device, Conversations, Client
    <3> QED BY <1>1, <1>6, <1>10, <3>1 DEF Slots
  <2> QED BY <1>1, <1>6, <1>10, <2>1, <2>2 DEF Conversations, Waits
<1>12. Counting'
  <2>1. Ended' = Ended /\ Told' = Told
    BY <1>1, <1>10 DEF Told, Ended
  <2> QED BY <1>1, <2>1 DEF Counting
<1>13. Births'
  <2>2. Ssi \in alive' /\ (Test \in alive' \/ pc'[Test] = "dying")
    BY <1>1, <1>3, <1>4 DEF Births
  <2>3. ASSUME NEW a \in Asid PROVE Family(a)'
    <3>1. Family(a)
      BY <1>1 DEF Births
    <3>2. Born(a)' <=> Born(a)
      BY <1>1, <1>10 DEF Born
    <3>3. CASE Sst(a) \in D
      <4>1. /\ pc[Sst(a)] \in {"suicide", "dying"}
            /\ Sst(a) \notin alive' /\ Uproc(a) \notin alive'
        BY <1>3, <1>4, <3>3 DEF Ended
      <4> QED BY <1>1, <3>1, <3>2, <4>1 DEF Family, Parent
    <3>4. CASE Sst(a) \notin D
      <4>1. /\ Sst(a) \in alive' <=> Sst(a) \in alive
            /\ Uproc(a) \in alive' <=> Uproc(a) \in alive
            /\ Parent(a)' <=> Parent(a)
        BY <1>1, <1>3, <1>4, <1>8, <3>4 DEF Parent
      <4> QED BY <1>1, <3>1, <3>2, <4>1 DEF Family
    <3> QED BY <3>3, <3>4
  <2> QED BY <1>1, <2>2, <2>3 DEF Births
<1> QED BY <1>7, <1>9, <1>11, <1>12, <1>13 DEF IInv

\* A device answers the SST that waits for it.
LEMMA StepDeviceInterrupt ==
  ASSUME IInv, NEW d \in Device, DeviceInterrupt(d)
  PROVE  IInv'
<1> DEFINE a == d[2] + 1
           p == Sst(a)
<1>1. /\ Types /\ Control /\ Births /\ Conversations /\ Counting /\ Letters
      /\ Ssi \in Proc \ {Swap} /\ Client \subseteq Proc \ {Ssi, Swap} /\ Test \in Client
      /\ UNCHANGED <<alive, pc, counting, programs, writing, memory>>
  BY Names, Clients DEF IInv, DeviceInterrupt
<1>2. a \in Asid /\ p \in Client /\ p # Test /\ p \in Proc \ {Ssi, Swap}
  <2>1. a \in Asid
    BY Names DEF Device
  <2> HIDE DEF a
  <2> QED BY <2>1, Names, Clients
<1>3. /\ printing[d] # NULL /\ devQueue[d] = p /\ p # NULL /\ pc[p] = "printWait"
      /\ Ssi \notin From(p)
  BY <1>1, <1>2, Names DEF DeviceInterrupt, Conversations, Slots
<1> HIDE DEF a
<1>4. p \in alive
  BY <1>1, <1>2, <1>3 DEF Births, Family
<1>5. /\ msg_inbox' = Push(msg_inbox, Ssi, "status", p)
      /\ output' = [output EXCEPT ![d] = Append(output[d], printing[d])]
      /\ printing' = [printing EXCEPT ![d] = NULL]
      /\ devQueue' = [devQueue EXCEPT ![d] = NULL]
  BY <1>3 DEF DeviceInterrupt
<1>6. Posted(msg_inbox, msg_inbox', Ssi, "status", p)
  <2>1. [from |-> Ssi, op |-> "status"] \in Message
    BY <1>1 DEF Message
  <2>2. Ssi \notin Writers(msg_inbox[p])
    BY <1>3 DEF From
  <2> HIDE DEF p
  <2> QED BY <1>1, <1>2, <1>5, <2>1, <2>2, PushFacts DEF Types, Letters
<1>7. /\ \A q \in Proc \ {p} : From(q)' = From(q)
      /\ From(p)' = From(p) \cup {Ssi} /\ msg_inbox'[Ssi] = msg_inbox[Ssi]
      /\ msg_inbox' \in [Proc -> Seq(Message)]
      /\ \A q \in Proc \ {Swap} : Distinct(msg_inbox'[q])
  <2>1. /\ msg_inbox' \in [Proc -> Seq(Message)]
        /\ \A q \in Proc \ {Swap} : Distinct(msg_inbox'[q])
    BY <1>6 DEF Posted
  <2> HIDE DEF p
  <2> QED BY <1>1, <1>2, <1>4, <1>6, <2>1, PostedFrom
<1>8. Types' /\ Control'
  <2>1. /\ devQueue' \in [Device -> Proc \cup {NULL}]
        /\ printing' \in [Device -> Char \cup {NULL}]
      /\ output' \in [Device -> Seq(Char)]
    <3>1. printing[d] \in Char /\ output[d] \in Seq(Char)
      BY <1>1, <1>3 DEF Types
    <3> QED BY <1>1, <1>5, <3>1 DEF Types
  <2> QED BY <1>1, <1>7, <2>1 DEF Types, Control
<1>9. \A b \in Asid : /\ From(Uproc(b))' = From(Uproc(b))
                      /\ Uproc(b) \in From(Sst(b))' <=> Uproc(b) \in From(Sst(b))
  <2>1. \A b \in Asid : Uproc(b) # p /\ Uproc(b) \in Proc /\ Uproc(b) # Ssi /\ Sst(b) \in Proc
    BY <1>2, Names
  <2> HIDE DEF p
  <2>2. \A b \in Asid : From(Uproc(b))' = From(Uproc(b))
    BY <1>7, <2>1
  <2>3. \A b \in Asid : From(Sst(b))' = From(Sst(b)) \/ From(Sst(b))' = From(Sst(b)) \cup {Ssi}
    BY <1>7, <2>1
  <2> QED BY <2>1, <2>2, <2>3
<1>10. Letters' /\ \A b \in Asid : Session(b)' /\ Order(b)'
  <2>1. MayWrite(Ssi, p)
    BY <1>2 DEF MayWrite
  <2> HIDE DEF p
  <2>2. SsiWrites
    BY <1>1, <1>7, <2>1 DEF SsiWrites
  <2> QED BY <1>1, <1>7, <1>9, <2>2, Answered
<1>11. /\ devQueue'[d] = NULL /\ printing'[d] = NULL
       /\ \A e \in Device \ {d} : devQueue'[e] = devQueue[e] /\ printing'[e] = printing[e]
  BY <1>1, <1>5 DEF Types
<1>12. Conversations'
  <2>1. ASSUME NEW m \in ToSet(msg_inbox'[Ssi])
        PROVE  /\ Asks(m.from, m.op)' /\ Ssi \notin From(m.from)'
               /\ \A e \in Device : devQueue'[e] # m.from
    <3>1. m \in ToSet(msg_inbox[Ssi]) /\ m.from \in From(Ssi)
      BY <1>7 DEF From, Writers
    <3>2. m.from \in Client
      BY <1>1, <3>1, LettersRead
    <3>3. /\ Asks(m.from, m.op) /\ Ssi \notin From(m.from)
          /\ \A e \in Device : devQueue[e] # m.from
      BY <1>1, <3>1 DEF Conversations
    <3>4. m.from # p /\ m.from \in Proc /\ m.from # NULL
      BY <1>1, <1>3, <3>2, <3>3, Names
    <3>5. \A e \in Device : devQueue'[e] # m.from
      BY <1>11, <3>3, <3>4
    <3>6. Ssi \notin From(m.from)'
      BY <1>7, <3>3, <3>4
    <3> QED BY <1>1, <3>3, <3>5, <3>6 DEF Asks
  <2>2. ASSUME NEW q \in Client, Ssi \in From(q)' PROVE pc'[q] \in Waits(q)
    <3>1. CASE q = p
      BY <1>1, <1>2, <1>3, <3>1 DEF Waits
    <3>2. CASE q # p
      BY <1>1, <1>7, <2>2, <3>2 DEF Conversations
    <3> QED BY <3>1, <3>2
  <2>3. ASSUME NEW e \in Device PROVE Slots(e)'
    <3>1. CASE e = d
      BY <1>11, <3>1 DEF Slots
    <3>2. CASE e # d
      <4>1. Sst(e[2] + 1) \in Client /\ Slots(e)
        BY <1>1, Names DEF Device, Conversations, Client
      <4>2. devQueue[e] # NULL => Sst(e[2] + 1) # p
        BY <1>1, <1>3, <3>2, <4>1 DEF Conversations, Slots
      <4> HIDE DEF p
      <4> QED BY <1>1, <1>7, <1>11, <3>2, <4>1, <4>2 DEF Slots
    <3> QED BY <3>1, <3>2
  <2>4. \A e, f \in Device : devQueue'[e] # NULL /\ devQueue'[e] = devQueue'[f] => e = f
    BY <1>1, <1>11 DEF Conversations
  <2> QED BY <1>1, <2>1, <2>2, <2>3, <2>4 DEF Conversations, Waits
<1>13. From(Test)' = From(Test)
  <2> HIDE DEF p
  <2> QED BY <1>1, <1>2, <1>7
<1>14. Counting'
  <2>1. Told' = Told /\ Ended' = Ended
    BY <1>1, <1>13 DEF Told, Ended
  <2> QED BY <1>1, <2>1 DEF Counting
<1>15. Births'
  <2>2. ASSUME NEW b \in Asid PROVE Family(b)'
    <3>1. Family(b) /\ (Born(b)' <=> Born(b))
      BY <1>1, <1>13 DEF Births, Born
    <3>2. Parent(b)' <=> Parent(b)
      <4>1. CASE Sst(b) = p
        BY <1>1, <1>3, <4>1 DEF Parent
      <4>2. CASE Sst(b) # p
        BY <1>1, <1>7, <4>2, Names DEF Parent
      <4> QED BY <4>1, <4>2
    <3> QED BY <1>1, <3>1, <3>2 DEF Family
  <2> QED BY <1>1, <2>2 DEF Births
<1> QED BY <1>8, <1>10, <1>12, <1>14, <1>15 DEF IInv

------------------------------------------------------------------------------
(* The invariant. *)

LEMMA Begins == Init => IInv
<1> SUFFICES ASSUME Init PROVE IInv
  OBVIOUS
<1>1. /\ \A q \in Proc : msg_inbox[q] = <<>>
      /\ \A q \in Proc : From(q) = {}
      /\ \A a \in Asid : From(Sst(a)) = {} /\ From(Uproc(a)) = {}
      /\ From(Test) = {} /\ From(Ssi) = {} /\ \A c \in Client : From(c) = {}
  <2>1. \A q \in Proc : msg_inbox[q] = <<>>
    BY DEF Init
  <2>2. \A q \in Proc : From(q) = {}
    BY <2>1, NoMail DEF From
  <2> QED BY <2>1, <2>2, Names, Clients
<1>2. /\ pc[Test] = "newSwap" /\ pc[Ssi] = "serve" /\ pc[Swap] = "serve"
      /\ \A a \in Asid : pc[Sst(a)] = "newChild" /\ pc[Uproc(a)] = "user"
      /\ pc \in [Proc -> Steps]
  <2> DEFINE l(p) == CASE p = Test -> "newSwap" [] p \in {Ssi, Swap} -> "serve"
                       [] p[1] = "SST" -> "newChild" [] OTHER -> "user"
  <2>1. pc = [p \in Proc |-> l(p)]
    BY DEF Init
  <2>2. l(Test) = "newSwap"
    BY DEF Test, Ssi, Swap
  <2>3. l(Ssi) = "serve" /\ l(Swap) = "serve"
    BY Names DEF Ssi, Swap
  <2>4. ASSUME NEW a \in Asid PROVE l(Sst(a)) = "newChild" /\ l(Uproc(a)) = "user"
    <3>1. Sst(a) \notin {Test, Ssi, Swap} /\ Uproc(a) \notin {Test, Ssi, Swap}
      BY Names
    <3>2. Sst(a)[1] = "SST" /\ Uproc(a)[1] = "uproc"
      BY DEF Sst, Uproc
    <3> QED BY <3>1, <3>2
  <2>5. /\ pc[Test] = "newSwap" /\ pc[Ssi] = "serve" /\ pc[Swap] = "serve"
        /\ \A a \in Asid : pc[Sst(a)] = "newChild" /\ pc[Uproc(a)] = "user"
    <3> HIDE DEF l
    <3> QED BY <2>1, <2>2, <2>3, <2>4, Names
  <2>6. \A p \in Proc : pc[p] \in Steps
    BY <2>5, Names DEF Steps, TouchSteps
  <2> HIDE DEF l
  <2> QED BY <2>1, <2>5, <2>6
<1>3. Types
  <2>1. alive \subseteq Proc /\ msg_inbox \in [Proc -> Seq(Message)]
    BY Names DEF Init
  <2>2. /\ asid \in 1..(UPROCMAX + 1) /\ uProcCount \in 0..UPROCMAX
        /\ evictions \in 0..MaxEvictions
    BY Names, SupportAssumption DEF Init
  <2>3. /\ request \in [Asid -> Request \cup {NULL}]
        /\ requests \in [Asid -> Nat] /\ printed \in [Asid -> Nat]
        /\ DOMAIN do_io = Asid
        /\ devQueue \in [Device -> Proc \cup {NULL}]
        /\ printing \in [Device -> Char \cup {NULL}]
        /\ output \in [Device -> Seq(Char)]
        /\ page \in [Asid -> {"tlb", "memory", "absent"}]
    BY DEF Init
  <2>4. exceptState \in [Asid -> [who : SupportProcs \cup {NULL}, at : Steps]]
    BY DEF Init, Steps, TouchSteps
  <2> QED BY <1>2, <2>1, <2>2, <2>3, <2>4 DEF Types
<1>4. Control
  <2>1. \A a \in Asid : /\ exceptState[a].who = NULL
                        /\ do_io[a] \in [commandAddr : Commands(a), char : Char \cup {NULL}]
    BY DEF Init, Commands
  <2>2. \A a \in Asid : NULL # Sst(a) /\ NULL # Uproc(a)
    BY Names
  <2> QED BY <1>2, <2>1, <2>2 DEF Control, TestSteps, SstSteps, UprocSteps
<1>5. Letters
  BY <1>1, NoMail DEF Letters
<1>6. Births
  <2>1. alive = {Ssi, Test} /\ asid = 1 /\ 1 \in Asid
    BY Names DEF Init
  <2>2. ASSUME NEW a \in Asid PROVE Family(a)
    <3>1. ~Born(a) /\ ~Parent(a)
      BY <1>2, <2>1, Names DEF Born, Parent
    <3> QED BY <1>2, <2>1, <3>1, Names DEF Family
  <2> QED BY <1>1, <1>2, <2>1, <2>2 DEF Births
<1>7. Conversations
  <2>1. ToSet(msg_inbox[Ssi]) = {} /\ \A d \in Device : devQueue[d] = NULL /\ printing[d] = NULL
    BY <1>1, NoMail, Names DEF Init
  <2> QED BY <1>1, <2>1 DEF Conversations, Slots
<1>8. Counting
  <2>1. Ended = {} /\ Told = {}
    BY <1>1, <1>2 DEF Ended, Told
  <2>2. Cardinality({}) = 0 /\ uProcCount = UPROCMAX /\ UPROCMAX \in Nat /\ Ended \ Told = {}
    BY <2>1, FS_EmptySet, Names DEF Init
  <2> QED BY <1>2, <2>1, <2>2 DEF Counting
<1>9. ASSUME NEW a \in Asid PROVE Session(a) /\ Order(a)
  <2>1. SstWhere(a) = "newChild" /\ UprocWhere(a) = "user"
    BY <1>2, WhereNow
  <2> QED BY <1>1, <2>1 DEF Session, Order, Idle
<1> QED BY <1>3, <1>4, <1>5, <1>6, <1>7, <1>8, <1>9 DEF IInv

LEMMA StepWrite ==
  ASSUME IInv, NEW a \in Asid, writeString(a)
  PROVE  IInv'
BY StepWriteEnd, StepWriteChar, StepWriteWait, StepWriteAdvance DEF writeString

LEMMA StepHandler ==
  ASSUME IInv, NEW a \in Asid, Handler(Sst(a), a) \/ Handler(Uproc(a), a)
  PROVE  IInv'
BY Names, StepPageFault, StepPageIn DEF Handler

LEMMA StepSst ==
  ASSUME IInv, NEW a \in Asid, SstStep(a)
  PROVE  IInv'
BY StepSstStart, StepSstReceive, StepSSTrequest, StepWrite, StepSstAnswer, StepTerminate,
   StepSstSuicide, StepHandler DEF SstStep

LEMMA StepUproc ==
  ASSUME IInv, NEW a \in Asid, UprocStep(a)
  PROVE  IInv'
<1>1. CASE programTrapsHandler(a)
  BY <1>1, StepTrapRelease, StepTrapTell DEF programTrapsHandler
<1> QED BY <1>1, StepAsks, StepUsyscallSend, StepSent, StepUsyscallReceive, StepTrap,
           StepHandler DEF UprocStep

LEMMA Preserved ==
  ASSUME IInv, [Next]_vars
  PROVE  IInv'
<1>1. CASE SsiStep
  BY <1>1, StepSsiCreate, StepSsiDoIO, StepSsiKill DEF SsiStep
<1>2. CASE \E a \in Asid : SstStep(a) \/ UprocStep(a) \/ Drop(a) \/ Evict(a)
  BY <1>2, StepSst, StepUproc, StepPages
<1>3. CASE \E d \in Device : DeviceInterrupt(d)
  BY <1>3, StepDeviceInterrupt
<1>4. CASE Halt
  BY <1>4, StepStutter DEF Halt
<1> QED BY <1>1, <1>2, <1>3, <1>4, StepTest, StepSwapMutex, StepStutter DEF Next

LEMMA Invariant == Spec => []IInv
<1>1. Init => IInv
  BY Begins
<1>2. IInv /\ [Next]_vars => IInv'
  BY Preserved
<1> QED BY <1>1, <1>2, PTL DEF Spec

\* A pointer into a text is one of TypeOK's strings.
LEMMA StringText == String \subseteq Text \cup {<<>>}
<1> SUFFICES ASSUME NEW s \in String, s # <<>> PROVE s \in Text
  OBVIOUS
<1>1. PICK t \in UNION {prints[a] : a \in Asid} : s \in Suffixes(t.string)
  <2> DEFINE texts == UNION {prints[a] : a \in Asid}
             all == {Suffixes(t.string) : t \in texts}
  <2>1. s \in UNION all
    BY DEF String
  <2> HIDE DEF texts
  <2>2. PICK S \in all : s \in S
    <3> HIDE DEF all
    <3> QED BY <2>1
  <2> QED BY <2>2 DEF texts
<1>2. t.string \in Seq(ToSet(t.string))
  BY SupportAssumption
<1> DEFINE text == t.string
<1>3. PICK l \in 1..Len(text) : s = SubSeq(text, l, Len(text))
  BY <1>1 DEF Suffixes
<1>4. s \in Seq(ToSet(text)) /\ Len(s) \in Nat \ {0} /\ s = SubSeq(s, 1, Len(s))
  BY <1>2, <1>3
<1>5. s \in Prefixes(s)
  <2>1. Len(s) \in 0..Len(s)
    BY <1>4
  <2> QED BY <1>4, <2>1 DEF Prefixes
<1>6. s \in UNION {Prefixes(u) : u \in Suffixes(t.string)}
  BY <1>1, <1>5
<1> QED BY <1>6 DEF Text

\* A pointer of a request is at a sequence of characters.
LEMMA StringSeq ==
  ASSUME NEW s \in String
  PROVE  s \in Seq(Char)
<1>1. CASE s = <<>>
  BY <1>1
<1>2. CASE s # <<>>
  <2>1. PICK t \in UNION {prints[a] : a \in Asid} : s \in Suffixes(t.string)
    <3> DEFINE texts == UNION {prints[a] : a \in Asid}
               all == {Suffixes(t.string) : t \in texts}
    <3>1. s \in UNION all
      BY <1>2 DEF String
    <3> HIDE DEF texts
    <3>2. PICK S \in all : s \in S
      <4> HIDE DEF all
      <4> QED BY <3>1
    <3> QED BY <3>2 DEF texts
  <2> DEFINE text == t.string
  <2>2. text \in Seq(ToSet(text))
    BY SupportAssumption
  <2>3. ToSet(text) \subseteq Char
    BY DEF Char
  <2> HIDE DEF text
  <2>4. PICK l \in 1..Len(text) : s = SubSeq(text, l, Len(text))
    BY <1>2, <2>1 DEF Suffixes, text
  <2>5. \A i \in 1..Len(text) : text[i] \in Char
    BY <2>2, <2>3
  <2>6. l \in Int /\ Len(text) \in Int /\ \A i \in l..Len(text) : text[i] \in Char
    BY <2>2, <2>5
  <2>7. SubSeq(text, l, Len(text)) \in Seq(Char)
    BY <2>6, SubSeqProperties
  <2> QED BY <2>4, <2>7
<1> QED BY <1>1, <1>2

LEMMA SomeRequest ==
  ASSUME NEW r \in Request
  PROVE  r # NULL
<1>1. r.string \in Seq(Char)
  BY StringSeq DEF Request
<1>2. /\ r = [service |-> r.service, string |-> r.string, length |-> r.length]
      /\ r.service \in Service /\ r.length \in Nat
  BY DEF Request
<1>3. r \in [service : Service, string : Seq(Char), length : Nat]
  BY <1>1, <1>2
<1> QED BY <1>3, NullAssumption

------------------------------------------------------------------------------
(* What the invariant says. *)

\* Types: processes are at steps of their own code, inboxes hold messages, and the
\* string pointer of a request never leaves the text it points into (print.h, sst.c).
THEOREM SupportTypes == Spec => []TypeOK
<1>1. IInv => TypeOK
  <2> SUFFICES ASSUME IInv PROVE TypeOK
    OBVIOUS
  <2>1. request \in [Asid -> [service : Service, string : Text \cup {<<>>}, length : Nat]
                              \cup {NULL}]
    <3>1. Request \subseteq [service : Service, string : Text \cup {<<>>}, length : Nat]
      BY StringText DEF Request
    <3> QED BY <3>1 DEF IInv, Types
  <2>2. \A a \in Asid : do_io[a].char \in Char \cup {NULL}
    BY DEF IInv, Control
  <2> QED BY <2>1, <2>2 DEF IInv, Types, TypeOK
<1> QED BY <1>1, Invariant, PTL

\* test() asks to be killed, and with it everything, only when every SST has been told
\* to terminate: no message from anyone else is counted in place of an SST's, and none
\* is counted twice (initProc.c, the loop over uProcCount).
THEOREM SupportEndsLast == Spec => []TestEndsLast
<1>1. IInv => TestEndsLast
  <2> SUFFICES ASSUME IInv, pc[Test] \in {"suicide", "dying"}, NEW a \in Asid
               PROVE  pc[Sst(a)] \in {"suicide", "dying"} /\ request[a].service = "TERMINATE"
    BY DEF TestEndsLast
  <2>1. a \in Ended
    BY DEF IInv, Counting
  <2>2. pc[Sst(a)] \in {"suicide", "dying"} /\ SstWhere(a) = pc[Sst(a)]
    BY <2>1, WhereNow DEF Ended
  <2> QED BY <2>2 DEF IInv, Order
<1> QED BY <1>1, Invariant, PTL

\* From its birth on, a program lives exactly as long as its SST: killProcess() of the
\* one takes the other with it, and nobody else is killed (sst.c, ssi.c).
THEOREM SupportEndsTogether == Spec => []EndTogether
<1>1. IInv => EndTogether
  BY DEF IInv, Births, Family, Parent, EndTogether
<1> QED BY <1>1, Invariant, PTL

\* The inbox of a program that computes is empty, so that its RECEIVEMSG from anyone
\* takes the answer to the request it has just made (sysSupport.c, sst.c).
THEOREM SupportAnswersFresh == Spec => []NoStaleAnswer
<1>1. IInv => NoStaleAnswer
  <2> SUFFICES ASSUME IInv, NEW a \in Asid, pc[Uproc(a)] = "user"
               PROVE  msg_inbox[Uproc(a)] = <<>>
    BY DEF NoStaleAnswer
  <2>1. Sst(a) \notin From(Uproc(a))
    BY Turn DEF Waiting
  <2>2. From(Uproc(a)) = {}
    BY <2>1, LettersRead DEF IInv
  <2>3. msg_inbox[Uproc(a)] \in Seq(Message)
    BY Names DEF IInv, Types
  <2> DEFINE s == msg_inbox[Uproc(a)]
  <2>4. s # <<>> => s[1].from \in Writers(s)
    BY <2>3 DEF Writers, ToSet
  <2> QED BY <2>2, <2>4 DEF From
<1> QED BY <1>1, Invariant, PTL

\* A device that prints is answered to the SST of its own program, which waits for it:
\* the slot that doIO() computes from the command address is that of the device whose
\* register it is, for every one of the programs there may be (ssi.c, interrupts.c).
THEOREM SupportInterrupts == Spec => []InterruptFindsSst
<1>1. IInv => InterruptFindsSst
  BY DEF IInv, Conversations, Slots, InterruptFindsSst
<1> QED BY <1>1, Invariant, PTL

------------------------------------------------------------------------------
(* Processes that go astray. *)

\* A step of p other than of its page fault handler.
Walks(p) ==
  /\ UNCHANGED exceptState /\ pc[p] \notin {"fault", "foreign", "nested"}
  /\ \E l2 \in Steps \ {"fault"} : pc' = [pc EXCEPT ![p] = l2]

\* It leaves the others where they are.
LEMMA StrayWalk ==
  ASSUME IInv, Astray, NEW p \in Proc, Walks(p)
  PROVE  Astray'
<1>0. PICK a \in Asid : \E q \in {Sst(a), Uproc(a)} : Where(a, q) \in {"foreign", "nested"}
  BY DEF Astray
<1>1. PICK q \in {Sst(a), Uproc(a)} : Where(a, q) \in {"foreign", "nested"}
  BY <1>0
<1>2. q # p
  BY <1>1 DEF Walks, Where
<1>3. pc'[q] = pc[q] /\ exceptState' = exceptState
  BY <1>2, Names DEF Walks, IInv, Types
<1>4. Where(a, q)' = Where(a, q)
  BY <1>3 DEF Where
<1> QED BY <1>1, <1>4 DEF Astray

LEMMA TestWalks == ASSUME IInv, TestStep PROVE Walks(Test)
<1>1. /\ UNCHANGED exceptState /\ pc[Test] \in TestSteps
      /\ \E l2 \in TestSteps : pc' = [pc EXCEPT ![Test] = l2]
  <2>1. UNCHANGED exceptState
    BY DEF TestStep, TestNewSwap, TestNewSst, TestCounts, suicide
  <2>2. \E l2 \in TestSteps : Goto(Test, l2)
    BY DEF TestStep, TestNewSwap, TestNewSst, TestCounts, suicide, newProc, Tell, Receive,
           TestSteps
  <2> QED BY <2>1, <2>2 DEF Goto, IInv, Control
<1>2. TestSteps \subseteq Steps \ {"fault", "foreign", "nested"}
  BY DEF TestSteps, Steps
<1> QED BY <1>1, <1>2 DEF Walks

LEMMA SwapWalks == ASSUME IInv, SwapMutex PROVE Walks(Swap)
<1>1. /\ UNCHANGED exceptState /\ pc[Swap] = "serve"
      /\ pc' = [pc EXCEPT ![Swap] = "serve"]
  BY DEF SwapMutex, Receive, At, Goto
<1>2. "serve" \in Steps \ {"fault", "foreign", "nested"}
  BY DEF Steps
<1> QED BY <1>1, <1>2 DEF Walks

LEMMA SstWalks ==
  ASSUME IInv, NEW a \in Asid, SstStep(a), ~Handler(Sst(a), a)
  PROVE  Walks(Sst(a))
<1>1. (\E l \in SstSteps \ {"fault", "foreign"} : At(Sst(a), l))
      /\ \E l2 \in SstSteps \ {"fault", "foreign"} : Goto(Sst(a), l2)
  <2>1. CASE SSTrequest(a)
    BY <2>1, Zenon DEF SSTrequest, SstSteps
  <2>2. CASE writeString(a)
    BY <2>2 DEF writeString, writeEnd, writeChar, writeWait, writeAdvance, Tell, Receive,
               SstSteps
  <2>3. CASE SstStart(a) \/ SstReceive(a) \/ SstAnswer(a) \/ terminate(a) \/ suicide(Sst(a))
    BY <2>3 DEF SstStart, SstReceive, SstAnswer, terminate, suicide, newProc, Tell, Receive,
               SstSteps
  <2> QED BY <2>1, <2>2, <2>3 DEF SstStep
<1>2. UNCHANGED exceptState
  BY DEF SstStep, SSTrequest, writeString, writeEnd, writeChar, writeWait, writeAdvance,
         SstStart, SstReceive, SstAnswer, terminate, suicide, Touch
<1>3. SstSteps \subseteq Steps \ {"nested"}
  BY DEF SstSteps, Steps, TouchSteps
<1> QED BY <1>1, <1>2, <1>3 DEF Walks, At, Goto

LEMMA UprocWalks ==
  ASSUME IInv, NEW a \in Asid, UprocStep(a), ~Handler(Uproc(a), a)
  PROVE  Walks(Uproc(a))
<1> DEFINE Mine == UprocSteps \ {"fault", "foreign", "nested"}
<1>1. (\E l \in Mine : At(Uproc(a), l)) /\ \E l2 \in UprocSteps \ {"fault"} : Goto(Uproc(a), l2)
  <2>1. CASE AskPrint(a) \/ AskQuery(a) \/ AskEnd(a) \/ Sent(a)
    BY <2>1 DEF AskPrint, AskQuery, AskEnd, Ask, Sent, UprocSteps
  <2>2. CASE usyscallSend(a) \/ usyscallReceive(a)
    BY <2>2 DEF usyscallSend, usyscallReceive, Tell, Receive, UprocSteps
  <2>3. CASE Trap(a) \/ programTrapsHandler(a)
    BY <2>3 DEF Trap, programTrapsHandler, Tell, At, UprocSteps
  <2> QED BY <2>1, <2>2, <2>3 DEF UprocStep
<1>2. UNCHANGED exceptState
  BY DEF UprocStep, AskPrint, AskQuery, AskEnd, Ask, Sent, usyscallSend, usyscallReceive, Trap,
         programTrapsHandler, Touch
<1>3. UprocSteps \subseteq Steps
  BY DEF UprocSteps, Steps, TouchSteps
<1> QED BY <1>1, <1>2, <1>3 DEF Walks, At, Goto

\* A page fault of one process does not bring the other back, nor does its end.
LEMMA StrayHandler ==
  ASSUME IInv, Astray, NEW a \in Asid, NEW p \in SupportProcs, p = Sst(a) \/ p = Uproc(a),
         Handler(p, a)
  PROVE  Astray'
<1>0. PICK b \in Asid : \E q \in {Sst(b), Uproc(b)} : Where(b, q) \in {"foreign", "nested"}
  BY DEF Astray
<1>1. PICK q \in {Sst(b), Uproc(b)} : Where(b, q) \in {"foreign", "nested"}
  BY <1>0
<1>2. Where(b, q)' \in {"foreign", "nested"}
  <2>1. CASE PageFault(p, a)
    <3>1. /\ SstWhere(b)' = SstWhere(b) \/ SstWhere(b)' = "foreign"
          /\ UprocWhere(b)' = UprocWhere(b) \/ UprocWhere(b)' = "foreign"
      BY <2>1, FaultMoves DEF IInv
    <3> QED BY <1>1, <3>1 DEF SstWhere, UprocWhere
  <2>2. CASE PageIn(p, a)
    <3>1. SstWhere(b)' = SstWhere(b) /\ UprocWhere(b)' = UprocWhere(b)
      BY <2>2, StepPageIn DEF Kept
    <3> QED BY <1>1, <3>1 DEF SstWhere, UprocWhere
  <2> QED BY <2>1, <2>2 DEF Handler
<1> QED BY <1>1, <1>2 DEF Astray

LEMMA StrayStays ==
  ASSUME IInv, Astray, [Next]_vars
  PROVE  Astray'
<1>1. CASE TestStep \/ SwapMutex
  BY <1>1, TestWalks, SwapWalks, StrayWalk, Names
<1>2. CASE SsiStep \/ Halt \/ UNCHANGED vars \/ (\E d \in Device : DeviceInterrupt(d))
           \/ \E a \in Asid : Drop(a) \/ Evict(a)
  <2>1. UNCHANGED <<pc, exceptState>>
    BY <1>2 DEF SsiStep, SsiCreate, SsiDoIO, SsiKill, Halt, vars, DeviceInterrupt, Drop, Evict
  <2> QED BY <2>1 DEF Astray, Where
<1>3. ASSUME NEW a \in Asid, Handler(Sst(a), a) \/ Handler(Uproc(a), a) PROVE Astray'
  BY <1>3, StrayHandler, Names
<1>4. ASSUME NEW a \in Asid, SstStep(a) \/ UprocStep(a) PROVE Astray'
  BY <1>3, <1>4, SstWalks, UprocWalks, StrayWalk, Names
<1> QED BY <1>1, <1>2, <1>4 DEF Next

\* Whenever pages leave, a process that returns from the page fault handler to the state
\* of the other process of its program has met it between the program's SENDMSG and its
\* RECEIVEMSG: exceptState is safe from the SST while the program computes, and from the
\* program while the SST waits for a request (vmSupport.c, sysSupport.c, sst.c).
THEOREM SupportStrays == Spec => []StrayOnlyInRequest
<1>1. IInv => StrayOnlyInRequest
  <2> SUFFICES ASSUME IInv, NEW a \in Asid, "foreign" \in {SstWhere(a), UprocWhere(a)}
               PROVE  UprocWhere(a) \in {"sent", "recv", "foreign"} /\ request[a] # NULL
    BY DEF StrayOnlyInRequest, SstWhere, UprocWhere
  <2>1. Session(a) /\ Order(a)
    BY DEF IInv
  <2>2. UprocWhere(a) \in {"sent", "recv", "foreign"}
    BY <2>1 DEF Session, Idle, Waiting
  <2>3. request[a] \in Request
    BY <2>1, <2>2 DEF Order
  <2> QED BY <2>2, <2>3, SomeRequest
<1> QED BY <1>1, Invariant, PTL

------------------------------------------------------------------------------
(* Support implements Console. *)

\* The device that prints for a service.
KindOf(d) == IF d[1] = PRNTINT - 3 THEN "WRITEPRINTER" ELSE "WRITETERMINAL"

\* What is printed is what the program has asked for: it has asked for nothing while
\* it computes, the count starts at 0, the SST hands the next character to the device
\* of the service, and the device prints it.
Written(a) ==
  /\ UprocWhere(a) \in {"user", "trapRelease", "trapTell"} => request[a] = NULL
  /\ SstWhere(a) \in Idle => printed[a] = 0
  /\ SstWhere(a) \in {"printWait", "advance"} => ~AtEnd(a)
  /\ SstWhere(a) = "printWait" =>
       do_io[a] = [commandAddr |-> CmdAddr(Dev(a)), char |-> Head(request[a].string)]
  /\ \A d \in Device : d[2] + 1 = a /\ printing[d] # NULL =>
       request[a].service = KindOf(d) /\ printing[d] = Head(request[a].string)

\* How far the SST is with the character its pointer is at: 0, not printed; 1,
\* printed; 2, there is nothing left to print.
Phase(a) ==
  IF SstWhere(a) = "answer" \/ Sst(a) \in From(Uproc(a)) THEN 2
  ELSE IF SstWhere(a) = "advance" \/ (SstWhere(a) = "printWait" /\ Ssi \in From(Sst(a))) THEN 1
  ELSE 0
Remains(s, n, phase) == IF phase = 2 THEN <<>> ELSE SubSeq(s, phase + 1, Min({Len(s), n}))
Pending(a) ==
  IF request[a] # NULL /\ request[a].service \in PrintServices
  THEN [kind |-> request[a].service,
        rest |-> Remains(request[a].string, request[a].length - printed[a], Phase(a))]
  ELSE NULL

Printed == IInv /\ ~Astray /\ \A a \in Asid : Written(a)

(* Sequences. *)

LEMMA MinTwo ==
  ASSUME NEW m \in Int, NEW n \in Int
  PROVE  Min({m, n}) = IF m <= n THEN m ELSE n
<1>1. PICK r \in {m, n} : r = IF m <= n THEN m ELSE n
  OBVIOUS
<1>2. \A y \in {m, n} : r <= y
  BY <1>1
<1>3. \A x \in {m, n} : (\A y \in {m, n} : x <= y) => x = r
  BY <1>1, <1>2
<1>4. Min({m, n}) = r
  BY <1>2, <1>3, Zenon DEF Min
<1> QED BY <1>1, <1>4

LEMMA NothingRemains ==
  ASSUME NEW S, NEW s \in Seq(S), NEW n \in Int, n <= 0 \/ s = <<>>
  PROVE  Remains(s, n, 0) = <<>>
<1>1. Len(s) \in Nat /\ (s = <<>> => Len(s) = 0)
  OBVIOUS
<1>2. PICK k \in Int : k = Min({Len(s), n}) /\ k < 1
  BY <1>1, MinTwo
<1>3. SubSeq(s, 1, k) = <<>>
  BY <1>2, SubSeqEmpty
<1>4. 0 # 2 /\ 0 + 1 = 1
  OBVIOUS
<1>5. Remains(s, n, 0) = SubSeq(s, 1, Min({Len(s), n}))
  BY <1>4, Zenon DEF Remains
<1> QED BY <1>2, <1>3, <1>5, Zenon

LEMMA ShiftedSub ==
  ASSUME NEW S, NEW s \in Seq(S), NEW t \in Seq(S), Len(t) = Len(s) - 1,
         \A i \in 1..Len(t) : t[i] = s[i + 1], NEW k \in Int, k <= Len(s)
  PROVE  SubSeq(t, 1, k - 1) = SubSeq(s, 2, k)
<1> DEFINE u == SubSeq(t, 1, k - 1)
           v == SubSeq(s, 2, k)
<1>1. /\ Len(s) \in Nat /\ \A i \in 1..(k - 1) : t[i] \in S /\ t[i] = s[i + 1]
      /\ \A i \in 2..k : s[i] \in S
  OBVIOUS
<1>2. /\ u \in Seq(S) /\ Len(u) = IF 1 <= k - 1 THEN k - 1 - 1 + 1 ELSE 0
      /\ \A i \in 1..(k - 1 - 1 + 1) : u[i] = t[1 + i - 1]
  <2>1. 1 \in Int /\ k - 1 \in Int
    OBVIOUS
  <2> QED BY <1>1, <2>1, SubSeqProperties
<1>3. /\ v \in Seq(S) /\ Len(v) = IF 2 <= k THEN k - 2 + 1 ELSE 0
      /\ \A i \in 1..(k - 2 + 1) : v[i] = s[2 + i - 1]
  <2>1. 2 \in Int /\ k \in Int
    OBVIOUS
  <2> QED BY <1>1, <2>1, SubSeqProperties
<1> HIDE DEF u, v
<1>4. Len(u) = Len(v) /\ \A i \in 1..Len(u) : i \in 1..(k - 1)
  BY <1>2, <1>3
<1>5. ASSUME NEW i \in 1..(k - 1) PROVE u[i] = v[i]
  <2>1. i \in 1..(k - 1 - 1 + 1) /\ 1 + i - 1 = i
    OBVIOUS
  <2>2. i \in 1..(k - 2 + 1) /\ 2 + i - 1 = i + 1
    OBVIOUS
  <2>3. u[i] = t[i]
    BY <1>2, <2>1
  <2>4. v[i] = s[i + 1]
    BY <1>3, <2>2
  <2> QED BY <1>1, <2>3, <2>4
<1>6. u = v
  BY <1>2, <1>3, <1>4, <1>5, SeqEqual
<1> QED BY <1>6 DEF u, v

LEMMA OneLess ==
  ASSUME NEW S, NEW s \in Seq(S), s # <<>>, NEW n \in Int
  PROVE  /\ Remains(Tail(s), n - 1, 0) = Remains(s, n, 1)
         /\ n > 0 => /\ Remains(s, n, 0) # <<>> /\ Head(Remains(s, n, 0)) = Head(s)
                     /\ Tail(Remains(s, n, 0)) = Remains(s, n, 1)
<1>1. Len(s) \in Nat \ {0} /\ Tail(s) \in Seq(S) /\ Len(Tail(s)) = Len(s) - 1
  OBVIOUS
<1>2. PICK k \in Int : /\ k = Min({Len(s), n}) /\ k - 1 = Min({Len(Tail(s)), n - 1})
                       /\ k <= Len(s) /\ (n > 0 => k > 0)
  BY <1>1, MinTwo
<1>3. /\ Remains(s, n, 0) = SubSeq(s, 1, k) /\ Remains(s, n, 1) = SubSeq(s, 2, k)
      /\ Remains(Tail(s), n - 1, 0) = SubSeq(Tail(s), 1, k - 1)
  <2>1. 0 # 2 /\ 1 # 2 /\ 0 + 1 = 1 /\ 1 + 1 = 2
    OBVIOUS
  <2> QED BY <1>2, <2>1, Zenon DEF Remains
<1>4. SubSeq(Tail(s), 1, k - 1) = SubSeq(s, 2, k)
  <2>1. \A i \in 1..Len(Tail(s)) : Tail(s)[i] = s[i + 1]
    OBVIOUS
  <2> QED BY <1>1, <1>2, <2>1, ShiftedSub
<1>5. ASSUME n > 0
      PROVE  /\ SubSeq(s, 1, k) # <<>> /\ Head(SubSeq(s, 1, k)) = Head(s)
             /\ Tail(SubSeq(s, 1, k)) = SubSeq(s, 2, k)
  <2>1. 1 \in 1..Len(s) /\ k \in 1..Len(s) /\ 1 + 1 = 2 /\ Head(s) = s[1]
    BY <1>1, <1>2, <1>5
  <2>2. Head(SubSeq(s, 1, k)) = s[1] /\ Tail(SubSeq(s, 1, k)) = SubSeq(s, 1 + 1, k)
    BY <2>1, HeadTailOfSubSeq, Zenon
  <2>3. Len(SubSeq(s, 1, k)) = k
    BY <2>1
  <2>4. SubSeq(s, 1, k) # <<>>
    BY <2>1, <2>3, EmptySeq
  <2> QED BY <2>1, <2>2, <2>4, Zenon
<1> QED BY <1>3, <1>4, <1>5, Zenon

\* What is to be printed of a text, at first.
LEMMA TextAsked ==
  ASSUME NEW a \in Asid, NEW t \in prints[a]
  PROVE  /\ t.length \in Nat /\ t.string \in Suffixes(t.string)
         /\ Remains(t.string, t.length, 0) \in Text
<1>1. t.length \in Nat /\ t.string \in Seq(ToSet(t.string))
  BY SupportAssumption
<1> DEFINE s == t.string
<1>2. s \in Suffixes(s)
  <2>1. CASE s = <<>>
    BY <2>1 DEF Suffixes
  <2>2. CASE s # <<>>
    <3>1. 1 \in 1..Len(s)
      BY <1>1, <2>2
    <3>2. SubSeq(s, 1, Len(s)) = s
      BY <1>1, SubSeqFull
    <3> QED BY <3>1, <3>2 DEF Suffixes
  <2> QED BY <2>1, <2>2
<1> DEFINE k == Min({Len(s), t.length})
<1>3. k \in 0..Len(s)
  BY <1>1, MinTwo
<1> HIDE DEF k
<1>4. SubSeq(s, 1, k) \in Prefixes(s)
  BY <1>3 DEF Prefixes
<1>5. Remains(s, t.length, 0) = SubSeq(s, 1, k)
  <2>1. 0 # 2 /\ 0 + 1 = 1
    OBVIOUS
  <2> QED BY <2>1, Zenon DEF Remains, k
<1>6. t \in UNION {prints[b] : b \in Asid}
  OBVIOUS
<1>7. SubSeq(s, 1, k) \in UNION {Prefixes(u) : u \in Suffixes(s)}
  BY <1>2, <1>4
<1> DEFINE all == UNION {prints[b] : b \in Asid}
           Parts(v) == UNION {Prefixes(u) : u \in Suffixes(v.string)}
<1>8. Text = UNION {Parts(v) : v \in all}
  BY DEF Text
<1>9. t \in all /\ SubSeq(s, 1, k) \in Parts(t)
  BY <1>6, <1>7
<1> HIDE DEF all, Parts
<1>10. SubSeq(s, 1, k) \in Text
  BY <1>8, <1>9
<1> QED BY <1>1, <1>2, <1>5, <1>10

LEMMA MatchFrom ==
  ASSUME Types, NEW p \in Proc, NEW w \in Proc
  PROVE  Match(p, w) > 0 <=> w \in From(p)
<1> DEFINE I == {i \in 1..Len(msg_inbox[p]) : w = NULL \/ msg_inbox[p][i].from = w}
<1>1. Match(p, w) = IF I # {} THEN Min(I) ELSE 0
  BY DEF Match, SelectInSeq
<1>2. I # {} => Min(I) \in I
  <2>1. I \subseteq Nat
    BY DEF Types
  <2> HIDE DEF I
  <2> QED BY <2>1, MinNat
<1>3. Match(p, w) > 0 <=> I # {}
  BY <1>1, <1>2
<1>4. w # NULL /\ msg_inbox[p] \in Seq(Message)
  BY Names DEF Types
<1>5. I # {} <=> w \in From(p)
  BY <1>4 DEF From, Writers, ToSet
<1> QED BY <1>3, <1>5

LEMMA Mapping ==
  ASSUME IInv
  PROVE  pending = [a \in Asid |-> Pending(a)]
<1>1. \A a \in Asid : SstAt(a) = SstWhere(a)
  BY DEF SstAt, SstWhere
<1>2. ASSUME NEW a \in Asid
      PROVE  Rest(a) = Remains(request[a].string, request[a].length - printed[a], Phase(a))
  <2> DEFINE s == request[a].string
             n == request[a].length - printed[a]
  <2>1. /\ Match(Uproc(a), Sst(a)) > 0 <=> Sst(a) \in From(Uproc(a))
        /\ Match(Sst(a), Ssi) > 0 <=> Ssi \in From(Sst(a))
    BY MatchFrom, Names DEF IInv
  <2>2. Rest(a) = IF SstWhere(a) = "answer" \/ Sst(a) \in From(Uproc(a)) THEN <<>>
                  ELSE SubSeq(s, IF CharPrinted(a) THEN 2 ELSE 1, Min({Len(s), n}))
    BY <1>1, <2>1, Zenon DEF Rest
  <2>3. CharPrinted(a) <=> \/ SstWhere(a) = "advance"
                           \/ SstWhere(a) = "printWait" /\ Ssi \in From(Sst(a))
    BY <1>1, <2>1, Zenon DEF CharPrinted
  <2>4. 0 # 2 /\ 1 # 2 /\ 0 + 1 = 1 /\ 1 + 1 = 2
    OBVIOUS
  <2>5. Remains(s, n, 2) = <<>>
    BY Zenon DEF Remains
  <2>6. Remains(s, n, 1) = SubSeq(s, 2, Min({Len(s), n}))
    BY <2>4, Zenon DEF Remains
  <2>7. Remains(s, n, 0) = SubSeq(s, 1, Min({Len(s), n}))
    BY <2>4, Zenon DEF Remains
  <2> HIDE DEF s, n
  <2>8. Rest(a) = Remains(s, n, Phase(a))
    <3>1. CASE SstWhere(a) = "answer" \/ Sst(a) \in From(Uproc(a))
      BY <2>2, <2>5, <3>1, Zenon DEF Phase
    <3>2. CASE ~(SstWhere(a) = "answer" \/ Sst(a) \in From(Uproc(a))) /\ CharPrinted(a)
      BY <2>2, <2>3, <2>6, <3>2, Zenon DEF Phase
    <3>3. CASE ~(SstWhere(a) = "answer" \/ Sst(a) \in From(Uproc(a))) /\ ~CharPrinted(a)
      BY <2>2, <2>3, <2>7, <3>3, Zenon DEF Phase
    <3> QED BY <3>1, <3>2, <3>3
  <2> QED BY <2>8 DEF s, n
<1> QED BY <1>2, Zenon DEF pending, Pending

LEMMA RemainsSeq ==
  ASSUME NEW s \in Seq(Char), NEW n \in Int, NEW phase \in {0, 1, 2}
  PROVE  Remains(s, n, phase) \in Seq(Char)
<1>1. CASE phase = 2
  <2>1. Remains(s, n, phase) = <<>>
    BY <1>1, Zenon DEF Remains
  <2>2. <<>> \in Seq(Char)
    OBVIOUS
  <2> QED BY <2>1, <2>2
<1>2. CASE phase \in {0, 1}
  <2>1. Len(s) \in Nat
    OBVIOUS
  <2>2. PICK k \in Int : k = Min({Len(s), n}) /\ k <= Len(s)
    BY <2>1, MinTwo
  <2>3. phase + 1 \in Int /\ \A i \in (phase + 1)..k : s[i] \in Char
    BY <1>2, <2>1, <2>2
  <2>4. SubSeq(s, phase + 1, k) \in Seq(Char)
    BY <2>2, <2>3, SubSeqProperties
  <2>5. phase # 2
    BY <1>2
  <2> QED BY <2>2, <2>4, <2>5, Zenon DEF Remains
<1> QED BY <1>1, <1>2

LEMMA SomeText ==
  ASSUME NEW k \in PrintServices, NEW s \in Seq(Char)
  PROVE  [kind |-> k, rest |-> s] # NULL
<1>1. [kind |-> k, rest |-> s] \in [kind : PrintServices, rest : Seq(Char)]
  OBVIOUS
<1> QED BY <1>1, NullAssumption

(* What a step leaves to a program. *)

Alike(b) ==
  /\ SstWhere(b)' = SstWhere(b) /\ UprocWhere(b)' = UprocWhere(b)
  /\ request'[b] = request[b] /\ printed'[b] = printed[b] /\ do_io'[b] = do_io[b]
Heard(b) ==
  /\ Sst(b) \in From(Uproc(b))' <=> Sst(b) \in From(Uproc(b))
  /\ SstWhere(b) = "printWait" => (Ssi \in From(Sst(b))' <=> Ssi \in From(Sst(b)))

LEMMA AlikeWritten ==
  ASSUME NEW b \in Asid, Written(b), Alike(b),
         \A d \in Device : d[2] + 1 = b => printing'[d] \in {NULL, printing[d]}
  PROVE  Written(b)'
<1>1. (AtEnd(b)' <=> AtEnd(b)) /\ Dev(b)' = Dev(b)
  BY DEF Alike, AtEnd, Dev
<1>2. \A d \in Device : d[2] + 1 = b /\ printing'[d] # NULL =>
        request'[b].service = KindOf(d) /\ printing'[d] = Head(request'[b].string)
  BY DEF Alike, Written
<1> QED BY <1>1, <1>2 DEF Alike, Written

LEMMA AlikePending ==
  ASSUME NEW b \in Asid, Alike(b), Heard(b)
  PROVE  Pending(b)' = Pending(b)
<1>1. Phase(b)' = Phase(b)
  BY DEF Alike, Heard, Phase
<1> QED BY <1>1 DEF Alike, Pending

\* What the other programs have is not concerned when p of program a moves.
Apart(a) ==
  /\ \A q \in SupportProcs \ {Sst(a), Uproc(a)} :
       pc'[q] = pc[q] /\ msg_inbox'[q] = msg_inbox[q]
  /\ \A b \in Asid \ {a} :
       /\ exceptState'[b] = exceptState[b] /\ request'[b] = request[b]
       /\ printed'[b] = printed[b] /\ do_io'[b] = do_io[b]
  /\ UNCHANGED <<printing, output>>

LEMMA OthersAlike ==
  ASSUME NEW a \in Asid, Apart(a)
  PROVE  \A b \in Asid \ {a} : Alike(b) /\ Heard(b)
<1> SUFFICES ASSUME NEW b \in Asid \ {a} PROVE Alike(b) /\ Heard(b)
  OBVIOUS
<1>1. /\ Sst(b) \in SupportProcs \ {Sst(a), Uproc(a)}
      /\ Uproc(b) \in SupportProcs \ {Sst(a), Uproc(a)}
  BY Names
<1>2. /\ pc'[Sst(b)] = pc[Sst(b)] /\ pc'[Uproc(b)] = pc[Uproc(b)]
      /\ msg_inbox'[Sst(b)] = msg_inbox[Sst(b)] /\ msg_inbox'[Uproc(b)] = msg_inbox[Uproc(b)]
  BY <1>1 DEF Apart
<1> QED BY <1>2 DEF Apart, Alike, Heard, SstWhere, UprocWhere, Where, From

LEMMA TellOthers ==
  ASSUME Types, NEW p \in Proc, NEW l, NEW op, NEW dest \in Proc, NEW l2,
         Tell(p, l, op, dest, l2)
  PROVE  \A q \in Proc : /\ q # p => pc'[q] = pc[q]
                         /\ q # dest => msg_inbox'[q] = msg_inbox[q]
BY DEF Types, Tell, Goto, Push

LEMMA ReceiveOthers ==
  ASSUME Types, NEW p \in Proc, NEW l, NEW from, NEW l2, Receive(p, l, from, l2)
  PROVE  \A q \in Proc : q # p => pc'[q] = pc[q] /\ msg_inbox'[q] = msg_inbox[q]
BY DEF Types, Receive, Goto, Popped

LEMMA SstApart ==
  ASSUME IInv, NEW a \in Asid, SstStep(a)
  PROVE  Apart(a)
<1>0. /\ Types /\ Sst(a) \in Proc /\ Uproc(a) \in Proc /\ Ssi \in Proc /\ Test \in Proc
      /\ SupportProcs \subseteq Proc \ {Ssi, Test, Swap}
  BY Names DEF IInv, SupportProcs
<1>1. \A q \in SupportProcs \ {Sst(a), Uproc(a)} :
        pc'[q] = pc[q] /\ msg_inbox'[q] = msg_inbox[q]
  <2>1. CASE \E l, op, l2 : \E dest \in {Ssi, Test, Uproc(a)} : Tell(Sst(a), l, op, dest, l2)
    BY <1>0, <2>1, TellOthers
  <2>2. CASE \E l, from, l2 : Receive(Sst(a), l, from, l2)
    BY <1>0, <2>2, ReceiveOthers
  <2>3. CASE UNCHANGED msg_inbox /\ \E l2 : Goto(Sst(a), l2)
    BY <1>0, <2>3 DEF Goto, Types
  <2>4. CASE SstStart(a) \/ writeChar(a) \/ SstAnswer(a) \/ terminate(a) \/ suicide(Sst(a))
    BY <2>1, <2>2, <2>4 DEF SstStart, newProc, writeChar, SstAnswer, terminate, suicide
  <2>5. CASE SstReceive(a) \/ writeWait(a)
    BY <2>2, <2>5 DEF SstReceive, writeWait
  <2>6. CASE SSTrequest(a)
    BY <2>3, <2>6, Zenon DEF SSTrequest
  <2>7. CASE writeEnd(a) \/ writeAdvance(a) \/ Handler(Sst(a), a)
    BY <2>3, <2>7 DEF writeEnd, writeAdvance, Handler, PageFault, PageIn
  <2> QED BY <2>4, <2>5, <2>6, <2>7 DEF SstStep, writeString
<1>2. \A b \in Asid \ {a} : exceptState'[b] = exceptState[b]
  <2>1. UNCHANGED exceptState \/ PageFault(Sst(a), a)
    BY DEF SstStep, SstStart, SstReceive, SSTrequest, writeString, writeEnd, writeChar,
           writeWait, writeAdvance, SstAnswer, terminate, suicide, Handler, PageIn, Touch
  <2> QED BY <1>0, <2>1 DEF PageFault, Types
<1>3. \A b \in Asid \ {a} : request'[b] = request[b] /\ printed'[b] = printed[b]
  <2>1. \/ UNCHANGED <<request, printed>> \/ writeAdvance(a) \/ SstAnswer(a)
    BY DEF SstStep, SstStart, SstReceive, SSTrequest, writeString, writeEnd, writeChar,
           writeWait, terminate, suicide, Handler, PageIn, PageFault
  <2> QED BY <1>0, <2>1 DEF writeAdvance, SstAnswer, Types
<1>4. \A b \in Asid \ {a} : do_io'[b] = do_io[b]
  <2>1. UNCHANGED do_io \/ writeChar(a)
    BY DEF SstStep, SstStart, SstReceive, SSTrequest, writeString, writeEnd, SstAnswer,
           writeAdvance, writeWait, terminate, suicide, Handler, PageIn, PageFault
  <2> QED BY <1>0, <2>1 DEF writeChar, Types
<1>5. UNCHANGED <<printing, output>>
  BY DEF SstStep, SstStart, SstReceive, SSTrequest, writeString, writeEnd, SstAnswer,
         writeChar, writeAdvance, writeWait, terminate, suicide, Handler, PageIn, PageFault
<1> QED BY <1>1, <1>2, <1>3, <1>4, <1>5 DEF Apart

LEMMA UprocApart ==
  ASSUME IInv, NEW a \in Asid, UprocStep(a)
  PROVE  Apart(a)
<1>0. /\ Types /\ Sst(a) \in Proc /\ Uproc(a) \in Proc /\ Swap \in Proc
      /\ SupportProcs \subseteq Proc \ {Ssi, Test, Swap}
  BY Names DEF IInv, SupportProcs
<1>1. \A q \in SupportProcs \ {Sst(a), Uproc(a)} :
        pc'[q] = pc[q] /\ msg_inbox'[q] = msg_inbox[q]
  <2>1. CASE \E l, op, l2 : \E dest \in {Swap, Sst(a)} : Tell(Uproc(a), l, op, dest, l2)
    BY <1>0, <2>1, TellOthers
  <2>2. CASE \E l, from, l2 : Receive(Uproc(a), l, from, l2)
    BY <1>0, <2>2, ReceiveOthers
  <2>3. CASE UNCHANGED msg_inbox /\ \E l2 : Goto(Uproc(a), l2)
    BY <1>0, <2>3 DEF Goto, Types
  <2>4. CASE usyscallSend(a) \/ programTrapsHandler(a)
    BY <2>1, <2>4 DEF usyscallSend, programTrapsHandler
  <2>5. CASE usyscallReceive(a)
    BY <2>2, <2>5 DEF usyscallReceive
  <2>6. CASE (\E r \in Request : Ask(a, r)) \/ Sent(a) \/ Trap(a) \/ Handler(Uproc(a), a)
    BY <2>3, <2>6 DEF Ask, Sent, Trap, Handler, PageFault, PageIn
  <2> QED BY <2>4, <2>5, <2>6, StepAsks DEF UprocStep
<1>2. \A b \in Asid \ {a} : exceptState'[b] = exceptState[b]
  <2>1. UNCHANGED exceptState \/ PageFault(Uproc(a), a)
    BY DEF UprocStep, AskPrint, AskQuery, AskEnd, Ask, usyscallSend, Sent, usyscallReceive,
           Trap, programTrapsHandler, Handler, PageIn, Touch
  <2> QED BY <1>0, <2>1 DEF PageFault, Types
<1>3. \A b \in Asid \ {a} : request'[b] = request[b]
  <2>1. UNCHANGED request \/ \E r : request' = [request EXCEPT ![a] = r]
    BY DEF UprocStep, AskPrint, AskQuery, AskEnd, Ask, usyscallSend, Sent, usyscallReceive,
           Trap, programTrapsHandler, Handler, PageIn, PageFault
  <2> QED BY <1>0, <2>1 DEF Types
<1>4. UNCHANGED <<printed, do_io, printing, output>>
  BY DEF UprocStep, AskPrint, AskQuery, AskEnd, Ask, usyscallSend, Sent, usyscallReceive,
         Trap, programTrapsHandler, Handler, PageIn, PageFault
<1> QED BY <1>1, <1>2, <1>3, <1>4 DEF Apart

(* The steps of a program and its SST. *)

\* What the step is to Console: nothing, a text asked for, or the end of one.
Goes(a) ==
  \/ Pending(a)' = Pending(a)
  \/ /\ Pending(a) = NULL
     /\ \E k \in PrintServices, text \in Text : Pending(a)' = [kind |-> k, rest |-> text]
  \/ Pending(a) # NULL /\ Pending(a).rest = <<>> /\ Pending(a)' = NULL

\* No device of the program prints.
Still(a) == \A d \in Device : d[2] + 1 = a => printing[d] = NULL

LEMMA StillNow ==
  ASSUME IInv, NEW a \in Asid, pc[Sst(a)] # "printWait" \/ Ssi \in From(Sst(a))
  PROVE  Still(a)
<1>1. Ssi \in From(Sst(a)) => \A d \in Device : devQueue[d] # Sst(a)
  BY NotAskedTwice, Clients DEF IInv
<1> QED BY <1>1 DEF IInv, Conversations, Slots, Still

LEMMA NewWritten ==
  ASSUME NEW a \in Asid, Still(a), UNCHANGED printing,
         UprocWhere(a)' \in {"user", "trapRelease", "trapTell"} => request'[a] = NULL,
         SstWhere(a)' \in Idle => printed'[a] = 0,
         SstWhere(a)' \in {"printWait", "advance"} => ~AtEnd(a)',
         SstWhere(a)' = "printWait" =>
           do_io'[a] = [commandAddr |-> CmdAddr(Dev(a)'), char |-> Head(request'[a].string)]
  PROVE  Written(a)'
<1>1. \A d \in Device : ~(d[2] + 1 = a /\ printing'[d] # NULL)
  BY DEF Still
<1> QED BY <1>1 DEF Written

LEMMA SstPlaces ==
  ASSUME IInv, NEW a \in Asid, pc[Sst(a)] # "fault", NEW l2, l2 # "fault",
         pc' = [pc EXCEPT ![Sst(a)] = l2], UNCHANGED exceptState
  PROVE  /\ SstWhere(a) = pc[Sst(a)] /\ SstWhere(a)' = l2
         /\ UprocWhere(a)' = UprocWhere(a)
<1>1. Types /\ Sst(a) \in Proc /\ Sst(a) # Uproc(a)
  BY Names DEF IInv
<1> QED BY <1>1, WhereWalk, WhereNow

LEMMA UprocPlaces ==
  ASSUME IInv, NEW a \in Asid, pc[Uproc(a)] # "fault", NEW l2, l2 # "fault",
         pc' = [pc EXCEPT ![Uproc(a)] = l2], UNCHANGED exceptState
  PROVE  /\ UprocWhere(a) = pc[Uproc(a)] /\ UprocWhere(a)' = l2
         /\ SstWhere(a)' = SstWhere(a)
<1>1. Types /\ Uproc(a) \in Proc /\ Sst(a) # Uproc(a)
  BY Names DEF IInv
<1> QED BY <1>1, WhereWalk, WhereNow

\* A request of which the SST has not begun to print, or has nothing to print.
LEMMA PendingKept ==
  ASSUME NEW a \in Asid, request'[a] = request[a], printed'[a] = printed[a],
         Phase(a)' = Phase(a)
  PROVE  Goes(a)
BY DEF Goes, Pending

LEMMA NotPending ==
  ASSUME NEW a \in Asid, UNCHANGED request,
         request[a] = NULL \/ request[a].service \notin PrintServices
  PROVE  Goes(a)
BY DEF Goes, Pending

LEMMA GoSstStart ==
  ASSUME Printed, NEW a \in Asid, SstStart(a)
  PROVE  Written(a)' /\ Goes(a)
<1>0. IInv /\ Written(a) /\ Types /\ Sst(a) \in Proc /\ Ssi \in Proc /\ Uproc(a) \in Proc
  BY Names DEF Printed, IInv
<1>1. /\ pc[Sst(a)] \in {"newChild", "getChild"}
      /\ \E l2 \in {"getChild", "serve"} : pc' = [pc EXCEPT ![Sst(a)] = l2]
      /\ UNCHANGED <<exceptState, request, printed, do_io, printing>>
  BY DEF SstStart, newProc, Tell, Receive, At, Goto
<1>2. PICK l2 \in {"getChild", "serve"} : pc' = [pc EXCEPT ![Sst(a)] = l2]
  BY <1>1
<1>3. /\ SstWhere(a) = pc[Sst(a)] /\ SstWhere(a)' = l2 /\ UprocWhere(a)' = UprocWhere(a)
  BY <1>0, <1>1, <1>2, SstPlaces
<1>4. From(Uproc(a))' = From(Uproc(a))
  <2>1. Uproc(a) # Ssi /\ Uproc(a) # Sst(a)
    BY Names
  <2>2. msg_inbox'[Uproc(a)] = msg_inbox[Uproc(a)]
    BY <1>0, <2>1, TellOthers, ReceiveOthers DEF SstStart, newProc
  <2> QED BY <2>2 DEF From
<1>5. Phase(a)' = Phase(a)
  BY <1>1, <1>3, <1>4 DEF Phase
<1>6. Still(a)
  BY <1>0, <1>1, StillNow
<1>7. Written(a)'
  BY <1>0, <1>1, <1>3, <1>6, NewWritten DEF Written, Idle
<1> QED BY <1>1, <1>5, <1>7, PendingKept

LEMMA GoSstReceive ==
  ASSUME Printed, NEW a \in Asid, SstReceive(a)
  PROVE  Written(a)' /\ Goes(a)
<1>0. IInv /\ Written(a) /\ Types /\ Sst(a) \in Proc /\ Ssi \in Proc /\ Uproc(a) \in Proc
  BY Names DEF Printed, IInv
<1>1. /\ pc[Sst(a)] = "serve" /\ pc' = [pc EXCEPT ![Sst(a)] = "decode"]
      /\ UNCHANGED <<exceptState, request, printed, do_io, printing>>
  BY DEF SstReceive, Receive, At, Goto
<1>2. /\ SstWhere(a) = "serve" /\ SstWhere(a)' = "decode" /\ UprocWhere(a)' = UprocWhere(a)
  BY <1>0, <1>1, SstPlaces
<1>3. From(Uproc(a))' = From(Uproc(a))
  <2>1. Uproc(a) # Sst(a)
    BY Names
  <2>2. msg_inbox'[Uproc(a)] = msg_inbox[Uproc(a)]
    BY <1>0, <2>1, ReceiveOthers DEF SstReceive
  <2> QED BY <2>2 DEF From
<1>4. Phase(a)' = Phase(a)
  BY <1>2, <1>3 DEF Phase
<1>5. Still(a)
  BY <1>0, <1>1, StillNow
<1>6. Written(a)'
  BY <1>0, <1>1, <1>2, <1>5, NewWritten DEF Written, Idle
<1> QED BY <1>1, <1>4, <1>6, PendingKept

LEMMA GoSSTrequest ==
  ASSUME Printed, NEW a \in Asid, SSTrequest(a)
  PROVE  Written(a)' /\ Goes(a)
<1>0. IInv /\ Written(a) /\ Types
  BY DEF Printed, IInv
<1> DEFINE l2 == CASE request[a].service \in PrintServices -> "print"
                   [] request[a].service = "TERMINATE" -> "tellTest"
                   [] OTHER -> "answer"
<1>1. /\ pc[Sst(a)] = "decode" /\ pc' = [pc EXCEPT ![Sst(a)] = l2]
      /\ UNCHANGED <<request, printed, do_io, printing, msg_inbox>>
  BY Zenon DEF SSTrequest, At, Goto
<1>2. UNCHANGED exceptState
  BY DEF SSTrequest, Touch
<1>3. /\ l2 \in {"print", "tellTest", "answer"}
      /\ l2 = "print" <=> request[a].service \in PrintServices
  BY DEF PrintServices
<1> HIDE DEF l2
<1>4. /\ SstWhere(a) = "decode" /\ SstWhere(a)' = l2 /\ UprocWhere(a)' = UprocWhere(a)
  BY <1>0, <1>1, <1>2, <1>3, SstPlaces
<1>5. Still(a)
  BY <1>0, <1>1, StillNow
<1>6. Written(a)'
  BY <1>0, <1>1, <1>3, <1>4, <1>5, NewWritten DEF Written, Idle
<1>7. CASE l2 = "print"
  <2>1. Phase(a)' = Phase(a)
    BY <1>1, <1>4, <1>7 DEF Phase, From
  <2> QED BY <1>1, <1>6, <2>1, PendingKept
<1>8. CASE l2 # "print"
  BY <1>1, <1>3, <1>6, <1>8, NotPending
<1> QED BY <1>7, <1>8

\* What the SST is printing.
LEMMA Printing ==
  ASSUME Printed, NEW a \in Asid, pc[Sst(a)] \in {"print", "printWait", "advance"}
  PROVE  /\ SstWhere(a) = pc[Sst(a)] /\ UprocWhere(a) \in Waiting
         /\ Sst(a) \notin From(Uproc(a))
         /\ request[a] \in Request /\ request[a].service \in PrintServices
         /\ request[a].string \in Seq(Char) /\ request[a].length \in Nat /\ printed[a] \in Nat
         /\ pc[Sst(a)] \in {"printWait", "advance"} => request[a].string # <<>>
<1>1. /\ SstWhere(a) = pc[Sst(a)] /\ UprocWhere(a) \in Waiting
      /\ Sst(a) \notin From(Uproc(a)) /\ request[a] \in Request
  BY Busy DEF Printed, Idle
<1>2. /\ request[a].service \in PrintServices
      /\ pc[Sst(a)] \in {"printWait", "advance"} => request[a].string # <<>>
  BY <1>1 DEF Printed, IInv, Order
<1>3. request[a].string \in String /\ request[a].length \in Nat /\ printed[a] \in Nat
  BY <1>1 DEF Request, Printed, IInv, Types
<1> QED BY <1>1, <1>2, <1>3, StringSeq

LEMMA GoWriteEnd ==
  ASSUME Printed, NEW a \in Asid, writeEnd(a)
  PROVE  Written(a)' /\ Goes(a)
<1>0. IInv /\ Written(a) /\ Types
  BY DEF Printed, IInv
<1>1. /\ pc[Sst(a)] = "print" /\ pc' = [pc EXCEPT ![Sst(a)] = "answer"] /\ AtEnd(a)
      /\ UNCHANGED <<exceptState, request, printed, do_io, printing, msg_inbox>>
  BY DEF writeEnd, At, Goto, Touch
<1>2. /\ SstWhere(a) = "print" /\ SstWhere(a)' = "answer" /\ UprocWhere(a)' = UprocWhere(a)
  BY <1>0, <1>1, SstPlaces
<1>3. Still(a)
  BY <1>0, <1>1, StillNow
<1>4. Written(a)'
  BY <1>0, <1>1, <1>2, <1>3, NewWritten DEF Written, Idle
<1> DEFINE s == request[a].string
           n == request[a].length - printed[a]
<1>5. /\ s \in Seq(Char) /\ n \in Int /\ (n <= 0 \/ s = <<>>)
      /\ Sst(a) \notin From(Uproc(a)) /\ request[a].service \in PrintServices
  BY <1>1, Printing DEF AtEnd
<1>6. Phase(a) = 0 /\ Phase(a)' = 2
  BY <1>2, <1>5 DEF Phase
<1>7. Remains(s, n, 0) = <<>> /\ Remains(s, n, 2) = <<>>
  <2>1. Remains(s, n, 2) = <<>>
    BY Zenon DEF Remains
  <2> HIDE DEF s, n
  <2> QED BY <1>5, <2>1, NothingRemains
<1>8. Pending(a)' = Pending(a)
  <2>1. request' = request /\ printed' = printed
    BY <1>1
  <2> QED BY <1>6, <1>7, <2>1, Zenon DEF Pending
<1> QED BY <1>4, <1>8 DEF Goes

LEMMA GoWriteChar ==
  ASSUME Printed, NEW a \in Asid, writeChar(a)
  PROVE  Written(a)' /\ Goes(a)
<1>0. /\ IInv /\ Written(a) /\ Types /\ Sst(a) \in Proc /\ Ssi \in Proc /\ Uproc(a) \in Proc
      /\ Sst(a) \in Client /\ Control /\ Letters /\ Conversations
  BY Names, Clients DEF Printed, IInv
<1>1. /\ pc[Sst(a)] = "print" /\ pc' = [pc EXCEPT ![Sst(a)] = "printWait"] /\ ~AtEnd(a)
      /\ UNCHANGED <<exceptState, request, printed, printing>>
      /\ do_io' = [do_io EXCEPT ![a] =
           [commandAddr |-> CmdAddr(Dev(a)), char |-> Head(request[a].string)]]
  BY DEF writeChar, Tell, At, Goto, Touch
<1>2. /\ SstWhere(a) = "print" /\ SstWhere(a)' = "printWait"
      /\ UprocWhere(a)' = UprocWhere(a)
  BY <1>0, <1>1, SstPlaces
<1>3. Still(a)
  BY <1>0, <1>1, StillNow
<1>4. do_io'[a] = [commandAddr |-> CmdAddr(Dev(a)), char |-> Head(request[a].string)]
  BY <1>0, <1>1 DEF Types
<1>5. Dev(a)' = Dev(a) /\ (AtEnd(a)' <=> AtEnd(a))
  BY <1>1 DEF Dev, AtEnd
<1>6. Written(a)'
  <2>1. UprocWhere(a)' \in {"user", "trapRelease", "trapTell"} => request'[a] = NULL
    BY <1>0, <1>1, <1>2 DEF Written
  <2> QED BY <1>1, <1>2, <1>3, <1>4, <1>5, <2>1, NewWritten DEF Idle
<1>7. From(Uproc(a))' = From(Uproc(a)) /\ From(Sst(a))' = From(Sst(a))
  <2>1. Uproc(a) # Ssi /\ Sst(a) # Ssi
    BY Names
  <2>2. msg_inbox'[Uproc(a)] = msg_inbox[Uproc(a)] /\ msg_inbox'[Sst(a)] = msg_inbox[Sst(a)]
    BY <1>0, <2>1, TellOthers DEF writeChar
  <2> QED BY <2>2 DEF From
<1>8. Ssi \notin From(Sst(a))
  BY <1>0, <1>1, NotAsked
<1>9. Phase(a)' = Phase(a)
  BY <1>2, <1>7, <1>8 DEF Phase
<1> QED BY <1>1, <1>6, <1>9, PendingKept

LEMMA GoWriteWait ==
  ASSUME Printed, NEW a \in Asid, writeWait(a)
  PROVE  Written(a)' /\ Goes(a)
<1>0. /\ IInv /\ Written(a) /\ Types /\ Sst(a) \in Proc /\ Uproc(a) \in Proc /\ Letters
      /\ Ssi \in Proc /\ Ssi # NULL
  BY Names DEF Printed, IInv
<1>1. /\ pc[Sst(a)] = "printWait" /\ pc' = [pc EXCEPT ![Sst(a)] = "advance"]
      /\ UNCHANGED <<exceptState, request, printed, do_io, printing>>
  BY DEF writeWait, Receive, At, Goto
<1>2. Ssi \in From(Sst(a))
  BY <1>0, ReceiveFacts DEF writeWait
<1>3. /\ SstWhere(a) = "printWait" /\ SstWhere(a)' = "advance"
      /\ UprocWhere(a)' = UprocWhere(a)
  BY <1>0, <1>1, SstPlaces
<1>4. Still(a)
  BY <1>0, <1>2, StillNow
<1>5. AtEnd(a)' <=> AtEnd(a)
  BY <1>1 DEF AtEnd
<1>6. Written(a)'
  BY <1>0, <1>1, <1>3, <1>4, <1>5, NewWritten DEF Written, Idle
<1>7. From(Uproc(a))' = From(Uproc(a))
  <2>1. Uproc(a) # Sst(a)
    BY Names
  <2>2. msg_inbox'[Uproc(a)] = msg_inbox[Uproc(a)]
    BY <1>0, <2>1, ReceiveOthers DEF writeWait
  <2> QED BY <2>2 DEF From
<1>8. Phase(a)' = Phase(a)
  BY <1>2, <1>3, <1>7 DEF Phase
<1> QED BY <1>1, <1>6, <1>8, PendingKept

\* i++ and s->string++: what the device has printed is no longer ahead.
LEMMA GoWriteAdvance ==
  ASSUME Printed, NEW a \in Asid, writeAdvance(a)
  PROVE  Written(a)' /\ Goes(a)
<1>0. IInv /\ Written(a) /\ Types
  BY DEF Printed, IInv
<1>1. /\ pc[Sst(a)] = "advance" /\ pc' = [pc EXCEPT ![Sst(a)] = "print"]
      /\ UNCHANGED <<exceptState, do_io, printing, msg_inbox>>
      /\ request' = [request EXCEPT ![a].string = Tail(@)]
      /\ printed' = [printed EXCEPT ![a] = @ + 1]
  BY DEF writeAdvance, At, Goto, Touch
<1>2. /\ SstWhere(a) = "advance" /\ SstWhere(a)' = "print" /\ UprocWhere(a)' = UprocWhere(a)
  BY <1>0, <1>1, SstPlaces
<1>3. Still(a)
  BY <1>0, <1>1, StillNow
<1>4. /\ UprocWhere(a) \in Waiting /\ Sst(a) \notin From(Uproc(a))
      /\ request[a] \in Request /\ request[a].service \in PrintServices
      /\ request[a].string \in Seq(Char) /\ request[a].length \in Nat /\ printed[a] \in Nat
      /\ request[a].string # <<>>
  BY <1>1, Printing
<1>5. Written(a)'
  BY <1>1, <1>2, <1>3, <1>4, NewWritten DEF Idle, Waiting
<1> DEFINE s == request[a].string
           n == request[a].length - printed[a]
<1>6. /\ request'[a] = [request[a] EXCEPT !.string = Tail(s)]
      /\ printed'[a] = printed[a] + 1
  BY <1>0, <1>1 DEF Types
<1>7. /\ request'[a].service = request[a].service /\ request'[a].string = Tail(s)
      /\ request'[a].length - printed'[a] = n - 1 /\ request'[a] \in Request
  <2>1. PICK r : r = request[a] /\ r \in Request /\ r.length \in Nat
    BY <1>4
  <2>2. Tail(s) \in String
    BY <1>4, StringFacts DEF Request
  <2>3. PICK t \in String : t = Tail(s)
    BY <2>2
  <2>4. request'[a] = [r EXCEPT !.string = t]
    BY <1>6, <2>1, <2>3
  <2>5. [r EXCEPT !.string = t] = [service |-> r.service, string |-> t, length |-> r.length]
    BY <2>1 DEF Request
  <2>6. /\ request'[a].service = r.service /\ request'[a].string = t
        /\ request'[a].length = r.length
    BY <2>4, <2>5
  <2>7. request'[a] \in Request
    BY <2>1, <2>4, <2>5 DEF Request
  <2>8. r.length - (printed[a] + 1) = (r.length - printed[a]) - 1
    BY <1>4, <2>1
  <2> QED BY <1>6, <2>1, <2>3, <2>6, <2>7, <2>8
<1>8. Phase(a) = 1 /\ Phase(a)' = 0
  <2>1. Phase(a) = 1
    BY <1>2, <1>4 DEF Phase
  <2>2. Phase(a)' = 0
    BY <1>1, <1>2, <1>4 DEF Phase, From
  <2> QED BY <2>1, <2>2
<1>9. Remains(Tail(s), n - 1, 0) = Remains(s, n, 1)
  <2>1. s \in Seq(Char) /\ s # <<>> /\ n \in Int
    BY <1>4
  <2> HIDE DEF s, n
  <2> QED BY <2>1, OneLess
<1>10. request[a] # NULL /\ request'[a] # NULL
  BY <1>4, <1>7, SomeRequest
<1>11. Pending(a)' = Pending(a)
  <2>1. Pending(a) = [kind |-> request[a].service, rest |-> Remains(s, n, 1)]
    BY <1>4, <1>8, <1>10, Zenon DEF Pending
  <2>2. Pending(a)' = [kind |-> request'[a].service,
                       rest |-> Remains(request'[a].string, request'[a].length - printed'[a], 0)]
    BY <1>4, <1>7, <1>8, <1>10, Zenon DEF Pending
  <2> QED BY <1>7, <1>9, <2>1, <2>2, Zenon
<1> QED BY <1>5, <1>11 DEF Goes

LEMMA GoSstAnswer ==
  ASSUME Printed, NEW a \in Asid, SstAnswer(a)
  PROVE  Written(a)' /\ Goes(a)
<1>0. /\ IInv /\ Written(a) /\ Types /\ Letters /\ Births
      /\ Sst(a) \in Proc /\ Uproc(a) \in Proc /\ Uproc(a) # Swap
  BY Names DEF Printed, IInv
<1>1. /\ pc[Sst(a)] = "answer" /\ pc' = [pc EXCEPT ![Sst(a)] = "serve"]
      /\ UNCHANGED <<exceptState, request, do_io, printing>>
      /\ printed' = [printed EXCEPT ![a] = 0] /\ Sst(a) \in alive
  BY DEF SstAnswer, Tell, At, Goto
<1>2. /\ SstWhere(a) = "answer" /\ SstWhere(a)' = "serve" /\ UprocWhere(a)' = UprocWhere(a)
  BY <1>0, <1>1, SstPlaces
<1>3. Still(a)
  BY <1>0, <1>1, StillNow
<1>4. printed'[a] = 0
  BY <1>0, <1>1 DEF Types
<1>5. Written(a)'
  <2>1. UprocWhere(a)' \in {"user", "trapRelease", "trapTell"} => request'[a] = NULL
    BY <1>0, <1>1, <1>2 DEF Written
  <2> QED BY <1>2, <1>3, <1>4, <1>1, <2>1, NewWritten
<1>6. Uproc(a) \in alive
  BY <1>0, <1>1 DEF Births, Family, Parent
<1>7. Sst(a) \notin From(Uproc(a))
  BY <1>0, <1>1, Busy DEF Idle
<1>8. Sst(a) \in From(Uproc(a))'
  BY <1>0, <1>6, <1>7, TellFacts, PostedFrom DEF SstAnswer, Message
<1>9. Phase(a) = 2 /\ Phase(a)' = 2
  BY <1>2, <1>8 DEF Phase
<1>10. \A s, n : Remains(s, n, 2) = <<>>
  BY Zenon DEF Remains
<1>11. Pending(a)' = Pending(a)
  <2>1. request' = request
    BY <1>1
  <2> QED BY <1>9, <1>10, <2>1, Zenon DEF Pending
<1> QED BY <1>5, <1>11 DEF Goes

LEMMA GoEnd ==
  ASSUME Printed, NEW a \in Asid, terminate(a) \/ suicide(Sst(a))
  PROVE  Written(a)' /\ Goes(a)
<1>0. IInv /\ Written(a) /\ Types /\ Order(a)
  BY DEF Printed, IInv
<1>1. /\ pc[Sst(a)] \in {"tellTest", "suicide"}
      /\ \E l2 \in {"suicide", "dying"} : pc' = [pc EXCEPT ![Sst(a)] = l2]
      /\ UNCHANGED <<exceptState, request, printed, do_io, printing>>
  BY DEF terminate, suicide, Tell, At, Goto
<1>2. PICK l2 \in {"suicide", "dying"} : pc' = [pc EXCEPT ![Sst(a)] = l2]
  BY <1>1
<1>3. /\ SstWhere(a) = pc[Sst(a)] /\ SstWhere(a)' = l2 /\ UprocWhere(a)' = UprocWhere(a)
  BY <1>0, <1>1, <1>2, SstPlaces
<1>4. Still(a)
  BY <1>0, <1>1, StillNow
<1>5. Written(a)'
  BY <1>0, <1>1, <1>3, <1>4, NewWritten DEF Written, Idle
<1>6. request[a].service = "TERMINATE"
  BY <1>0, <1>1, <1>3 DEF Order
<1> QED BY <1>1, <1>5, <1>6, NotPending DEF PrintServices

\* A page fault and its end change nothing, since each loads its own state.
LEMMA GoFault ==
  ASSUME Printed, ~Astray', NEW a \in Asid, Handler(Sst(a), a) \/ Handler(Uproc(a), a)
  PROVE  Written(a)' /\ Goes(a)
<1>0. /\ IInv /\ Written(a) /\ Types /\ Control /\ Sst(a) \in SupportProcs
      /\ Uproc(a) \in SupportProcs /\ Sst(a) \in Proc /\ Uproc(a) \in Proc
      /\ Sst(a) # Uproc(a)
  BY Names DEF Printed, IInv
<1>1. UNCHANGED <<request, printed, do_io, printing, msg_inbox>>
  BY DEF Handler, PageFault, PageIn
<1>2. SstWhere(a)' = SstWhere(a) /\ UprocWhere(a)' = UprocWhere(a)
  <2>1. ASSUME NEW p \in {Sst(a), Uproc(a)}, PageIn(p, a)
        PROVE  SstWhere(a)' = SstWhere(a) /\ UprocWhere(a)' = UprocWhere(a)
    BY <1>0, <2>1, StepPageIn DEF Kept
  <2>2. SstWhere(a)' # "foreign" /\ UprocWhere(a)' # "foreign"
    BY DEF Astray, SstWhere, UprocWhere
  <2>3. CASE PageFault(Sst(a), a) \/ PageFault(Uproc(a), a)
    BY <1>0, <2>2, <2>3, FaultMoves
  <2> QED BY <2>1, <2>3 DEF Handler
<1>3. Alike(a) /\ Heard(a)
  BY <1>1, <1>2 DEF Alike, Heard, From
<1>4. Written(a)'
  BY <1>0, <1>1, <1>3, AlikeWritten
<1> QED BY <1>3, <1>4, AlikePending DEF Goes

LEMMA GoSst ==
  ASSUME Printed, ~Astray', NEW a \in Asid, SstStep(a)
  PROVE  Written(a)' /\ Goes(a)
BY GoSstStart, GoSstReceive, GoSSTrequest, GoWriteEnd, GoWriteChar, GoWriteWait,
   GoWriteAdvance, GoSstAnswer, GoEnd, GoFault DEF SstStep, writeString

\* The program asks for a text that has still to be printed, or for something else.
LEMMA GoAsk ==
  ASSUME Printed, NEW a \in Asid, AskPrint(a) \/ AskQuery(a) \/ AskEnd(a)
  PROVE  Written(a)' /\ Goes(a)
<1>0. IInv /\ Written(a) /\ Types /\ Uproc(a) # Sst(a)
  BY Names DEF Printed, IInv
<1>1. PICK r \in Request : /\ Ask(a, r) /\ (r.service \in PrintServices =>
                                Remains(r.string, r.length, 0) \in Text)
  <2>1. CASE AskPrint(a)
    <3>1. PICK s \in services[a] \cap PrintServices, t \in prints[a] :
            Ask(a, [service |-> s, string |-> t.string, length |-> t.length])
      BY <2>1 DEF AskPrint
    <3>2. /\ t.length \in Nat /\ t.string \in Suffixes(t.string)
          /\ Remains(t.string, t.length, 0) \in Text
      BY TextAsked
    <3>3. t.string \in String /\ s \in Service
      BY <3>2 DEF String, Service
    <3>4. [service |-> s, string |-> t.string, length |-> t.length] \in Request
      BY <3>2, <3>3 DEF Request
    <3> QED BY <3>1, <3>2, <3>4
  <2>2. CASE AskQuery(a) \/ AskEnd(a)
    <3>1. PICK v \in Service \ PrintServices : Ask(a, Payload(v))
      <4>1. CASE AskQuery(a)
        <5>1. PICK v \in services[a] \ PrintServices : Ask(a, Payload(v))
          BY <4>1 DEF AskQuery
        <5>2. v \in Service
          BY SupportAssumption
        <5> QED BY <5>1, <5>2
      <4>2. CASE AskEnd(a)
        BY <4>2 DEF AskEnd, Service, PrintServices
      <4> QED BY <2>2, <4>1, <4>2
    <3>2. Payload(v) \in Request /\ Payload(v).service = v
      BY DEF Payload, Request, String
    <3> QED BY <3>1, <3>2
  <2> QED BY <2>1, <2>2
<1>2. /\ pc[Uproc(a)] = "user" /\ pc' = [pc EXCEPT ![Uproc(a)] = "send"]
      /\ UNCHANGED <<exceptState, printed, do_io, printing, msg_inbox>>
      /\ request' = [request EXCEPT ![a] = r]
  BY <1>1 DEF Ask, At, Goto, Touch
<1>3. /\ UprocWhere(a) = "user" /\ UprocWhere(a)' = "send" /\ SstWhere(a)' = SstWhere(a)
  BY <1>0, <1>2, UprocPlaces
<1>4. Sst(a) \notin From(Uproc(a)) /\ SstWhere(a) \in Idle
  BY <1>0, <1>2, Turn DEF Waiting
<1>5. request[a] = NULL /\ printed[a] = 0 /\ request'[a] = r
  BY <1>0, <1>2, <1>3, <1>4 DEF Written, Types
<1>6. Still(a)
  <2>1. pc[Sst(a)] # "printWait"
    BY <1>4, WhereNow DEF Idle
  <2> QED BY <1>0, <2>1, StillNow
<1>7. Written(a)'
  BY <1>2, <1>3, <1>4, <1>5, <1>6, NewWritten DEF Idle
<1>8. Pending(a) = NULL
  BY <1>5 DEF Pending
<1>9. Phase(a)' = 0
  BY <1>2, <1>3, <1>4 DEF Phase, From, Idle
<1>10. CASE r.service \in PrintServices
  <2>1. r # NULL /\ r.length - 0 = r.length
    BY SomeRequest DEF Request
  <2>2. printed'[a] = 0
    BY <1>2, <1>5
  <2>3. Pending(a)' = [kind |-> r.service, rest |-> Remains(r.string, r.length - 0, 0)]
    BY <1>5, <1>9, <1>10, <2>1, <2>2, Zenon DEF Pending
  <2> QED BY <1>1, <1>7, <1>8, <1>10, <2>1, <2>3 DEF Goes
<1>11. CASE r.service \notin PrintServices
  <2>1. Pending(a)' = NULL
    BY <1>5, <1>11 DEF Pending
  <2> QED BY <1>7, <1>8, <2>1 DEF Goes
<1> QED BY <1>10, <1>11

LEMMA GoSend ==
  ASSUME Printed, NEW a \in Asid, usyscallSend(a) \/ Sent(a)
  PROVE  Written(a)' /\ Goes(a)
<1>0. /\ IInv /\ Written(a) /\ Types /\ Uproc(a) # Sst(a) /\ Uproc(a) \in Proc
      /\ Sst(a) \in Proc /\ Ssi # Uproc(a) /\ Letters
  BY Names DEF Printed, IInv
<1>1. /\ pc[Uproc(a)] \in {"send", "sent"}
      /\ \E l2 \in {"sent", "recv"} : pc' = [pc EXCEPT ![Uproc(a)] = l2]
      /\ UNCHANGED <<exceptState, request, printed, do_io, printing>>
  BY DEF usyscallSend, Sent, Tell, At, Goto, Touch
<1>2. PICK l2 \in {"sent", "recv"} : pc' = [pc EXCEPT ![Uproc(a)] = l2]
  BY <1>1
<1>3. UprocWhere(a)' = l2 /\ SstWhere(a)' = SstWhere(a)
  BY <1>0, <1>1, <1>2, UprocPlaces
<1>4. From(Uproc(a))' = From(Uproc(a)) /\ (Ssi \in From(Sst(a))' <=> Ssi \in From(Sst(a)))
  <2>1. CASE Sent(a)
    BY <2>1 DEF Sent, From
  <2>2. CASE usyscallSend(a)
    <3>1. pc[Uproc(a)] = "send"
      BY <2>2 DEF usyscallSend, Tell, At
    <3>2. Uproc(a) \notin From(Sst(a))
      BY <1>0, <3>1, Turn DEF Waiting
    <3>3. [from |-> Uproc(a), op |-> "request"] \in Message
      BY <1>0 DEF Message
    <3>4. Posted(msg_inbox, msg_inbox', Uproc(a), "request", Sst(a))
      BY <1>0, <2>2, <3>2, <3>3, TellFacts DEF usyscallSend
    <3> QED BY <1>0, <3>4, PostedFrom
  <2> QED BY <2>1, <2>2
<1>5. Phase(a)' = Phase(a)
  BY <1>3, <1>4 DEF Phase
<1>6. Written(a)'
  BY <1>0, <1>1, <1>3 DEF Written, AtEnd, Dev
<1> QED BY <1>1, <1>5, <1>6, PendingKept

\* The program goes on when nothing is left to print.
LEMMA GoReceive ==
  ASSUME Printed, NEW a \in Asid, usyscallReceive(a)
  PROVE  Written(a)' /\ Goes(a)
<1>0. /\ IInv /\ Written(a) /\ Types /\ Uproc(a) # Sst(a) /\ Uproc(a) \in Proc /\ Letters
      /\ Session(a)
  BY Names DEF Printed, IInv
<1>1. /\ \E l2 \in {"nested", "user"} : pc' = [pc EXCEPT ![Uproc(a)] = l2]
      /\ pc[Uproc(a)] = "recv" /\ request' = [request EXCEPT ![a] = NULL]
      /\ UNCHANGED <<exceptState, printed, do_io, printing>>
  BY DEF usyscallReceive, Receive, At, Goto
<1>2. PICK l2 \in {"nested", "user"} : pc' = [pc EXCEPT ![Uproc(a)] = l2]
  BY <1>1
<1>3. UprocWhere(a)' = l2 /\ SstWhere(a)' = SstWhere(a)
  BY <1>0, <1>1, <1>2, UprocPlaces
<1>4. Sst(a) \in From(Uproc(a))
  <2>1. \E w \in From(Uproc(a)) : TRUE
    BY <1>0, ReceiveFacts DEF usyscallReceive
  <2> QED BY <1>0, <2>1, LettersRead
<1>5. SstWhere(a) \in Idle
  BY <1>0, <1>4 DEF Session
<1>6. Still(a)
  <2>1. pc[Sst(a)] # "printWait"
    BY <1>5, WhereNow DEF Idle
  <2> QED BY <1>0, <2>1, StillNow
<1>7. request'[a] = NULL
  BY <1>0, <1>1 DEF Types
<1>8. Written(a)'
  BY <1>0, <1>1, <1>3, <1>5, <1>6, <1>7, NewWritten DEF Written, Idle
<1>9. Pending(a)' = NULL
  BY <1>7 DEF Pending
<1>10. Pending(a) = NULL \/ Pending(a).rest = <<>>
  <2>1. Phase(a) = 2
    BY <1>4 DEF Phase
  <2>2. \A s, n : Remains(s, n, 2) = <<>>
    BY Zenon DEF Remains
  <2> QED BY <2>1, <2>2 DEF Pending
<1> QED BY <1>8, <1>9, <1>10 DEF Goes

LEMMA GoTrap ==
  ASSUME Printed, NEW a \in Asid, Trap(a) \/ programTrapsHandler(a)
  PROVE  Written(a)' /\ Goes(a)
<1>0. IInv /\ Written(a) /\ Types
  BY DEF Printed, IInv
<1>1. /\ pc[Uproc(a)] \in {"user", "trapRelease", "trapTell"}
      /\ \E l2 \in {"trapRelease", "trapTell", "lost"} : pc' = [pc EXCEPT ![Uproc(a)] = l2]
      /\ UNCHANGED <<exceptState, printed, do_io, printing>>
      /\ UNCHANGED request \/ (pc' = [pc EXCEPT ![Uproc(a)] = "lost"]
                               /\ request' = [request EXCEPT ![a] = Payload("TERMINATE")])
  BY DEF Trap, programTrapsHandler, Tell, At, Goto
<1>2. PICK l2 \in {"trapRelease", "trapTell", "lost"} : pc' = [pc EXCEPT ![Uproc(a)] = l2]
  BY <1>1
<1>3. /\ UprocWhere(a) = pc[Uproc(a)] /\ UprocWhere(a)' = l2 /\ SstWhere(a)' = SstWhere(a)
  BY <1>0, <1>1, <1>2, UprocPlaces
<1>4. SstWhere(a) \in Idle
  BY <1>0, <1>1, Turn DEF Waiting
<1>5. Still(a)
  <2>1. pc[Sst(a)] # "printWait"
    BY <1>4, WhereNow DEF Idle
  <2> QED BY <1>0, <2>1, StillNow
<1>6. request[a] = NULL
  BY <1>0, <1>1, <1>3 DEF Written
<1>7. request'[a] \in {NULL, Payload("TERMINATE")} /\ (request'[a] = NULL \/ l2 = "lost")
  <2>1. pc' = [pc EXCEPT ![Uproc(a)] = "lost"] => l2 = "lost"
    BY <1>0, <1>2, Names DEF Types
  <2> QED BY <1>0, <1>1, <1>6, <2>1 DEF Types
<1>8. Written(a)'
  BY <1>0, <1>1, <1>3, <1>4, <1>5, <1>7, NewWritten DEF Written, Idle
<1>9. Pending(a)' = NULL /\ Pending(a) = NULL
  BY <1>6, <1>7 DEF Pending, Payload, PrintServices
<1> QED BY <1>8, <1>9 DEF Goes

LEMMA GoUproc ==
  ASSUME Printed, ~Astray', NEW a \in Asid, UprocStep(a)
  PROVE  Written(a)' /\ Goes(a)
BY GoAsk, GoSend, GoReceive, GoTrap, GoFault DEF UprocStep

(* The steps of the others. *)

\* Nothing of what is printed, or to be printed, changes.
Rests ==
  /\ \A b \in Asid : Written(b)' /\ Pending(b)' = Pending(b)
  /\ UNCHANGED output

\* No process of the support level moves.
LEMMA AllAlike ==
  ASSUME \A q \in SupportProcs : pc'[q] = pc[q],
         UNCHANGED <<exceptState, request, printed, do_io>>
  PROVE  \A b \in Asid : Alike(b)
<1>1. \A b \in Asid : pc'[Sst(b)] = pc[Sst(b)] /\ pc'[Uproc(b)] = pc[Uproc(b)]
  BY Names
<1> QED BY <1>1 DEF Alike, SstWhere, UprocWhere, Where

LEMMA RestQuiet ==
  ASSUME Printed, UNCHANGED <<exceptState, request, printed, do_io, printing, output>>,
         \A q \in SupportProcs : pc'[q] = pc[q] /\ msg_inbox'[q] = msg_inbox[q]
  PROVE  Rests
<1>1. ASSUME NEW b \in Asid PROVE Alike(b) /\ Heard(b)
  <2>1. Alike(b)
    BY AllAlike
  <2>2. /\ msg_inbox'[Sst(b)] = msg_inbox[Sst(b)]
        /\ msg_inbox'[Uproc(b)] = msg_inbox[Uproc(b)]
    BY Names
  <2> QED BY <2>1, <2>2 DEF Heard, From
<1>2. ASSUME NEW b \in Asid PROVE Written(b)' /\ Pending(b)' = Pending(b)
  BY <1>1, AlikeWritten, AlikePending DEF Printed
<1> QED BY <1>2 DEF Rests

LEMMA RestTest ==
  ASSUME Printed, TestStep \/ SwapMutex
  PROVE  Rests
<1>0. /\ Types /\ Ssi \in Proc /\ Test \in Proc /\ Swap \in Proc
      /\ SupportProcs \subseteq Proc \ {Ssi, Test, Swap}
  BY Names DEF Printed, IInv, SupportProcs
<1>1. UNCHANGED <<exceptState, request, printed, do_io, printing, output>>
  BY DEF TestStep, TestNewSwap, TestNewSst, TestCounts, suicide, SwapMutex
<1>2. \/ \E l, op, l2 : Tell(Test, l, op, Ssi, l2)
      \/ \E l, from, l2 : \E p \in {Test, Swap} : Receive(p, l, from, l2)
  BY DEF TestStep, TestNewSwap, TestNewSst, TestCounts, suicide, SwapMutex, newProc
<1>3. \A q \in SupportProcs : pc'[q] = pc[q] /\ msg_inbox'[q] = msg_inbox[q]
  BY <1>0, <1>2, TellOthers, ReceiveOthers
<1> QED BY <1>1, <1>3, RestQuiet

LEMMA RestPages ==
  ASSUME Printed, UNCHANGED vars \/ Halt \/ \E a \in Asid : Drop(a) \/ Evict(a)
  PROVE  Rests
<1>1. UNCHANGED <<exceptState, request, printed, do_io, printing, output, pc, msg_inbox>>
  BY DEF vars, Halt, Drop, Evict
<1> QED BY <1>1, RestQuiet

LEMMA RestCreate ==
  ASSUME Printed, SsiCreate
  PROVE  Rests
<1>0. /\ IInv /\ Types /\ Ssi \in Proc /\ \A b \in Asid : Uproc(b) \notin Client
      /\ SupportProcs \subseteq Proc \ {Ssi, Test, Swap}
  BY Names, Clients DEF Printed, IInv, SupportProcs
<1>1. /\ UNCHANGED <<pc, exceptState, request, printed, do_io, printing, output>>
      /\ Serving("create") /\ msg_inbox' = Push(Served, Ssi, "answer", sender)
  BY DEF SsiCreate
<1>2. PICK c \in Client : /\ c = sender /\ pc[c] \in {"getSwap", "getSst", "getChild"}
                          /\ Served \in [Proc -> Seq(Message)]
                          /\ \A q \in Proc \ {Ssi} : Served[q] = msg_inbox[q]
  BY <1>0, <1>1, Serves DEF Asks
<1>3. \A q \in SupportProcs : q # c => msg_inbox'[q] = msg_inbox[q]
  BY <1>0, <1>1, <1>2 DEF Push
<1>4. ASSUME NEW b \in Asid PROVE Alike(b) /\ Heard(b)
  <2>1. Alike(b)
    BY <1>1, AllAlike
  <2>2. Sst(b) \in SupportProcs /\ Uproc(b) \in SupportProcs /\ Uproc(b) # c
    BY <1>0, Names
  <2>3. From(Uproc(b))' = From(Uproc(b))
    BY <1>3, <2>2 DEF From
  <2>4. SstWhere(b) = "printWait" => From(Sst(b))' = From(Sst(b))
    <3>1. Sst(b) = c => SstWhere(b) # "printWait"
      BY <1>2, WhereNow
    <3> QED BY <1>3, <2>2, <3>1 DEF From
  <2> QED BY <2>1, <2>3, <2>4 DEF Heard
<1>5. ASSUME NEW b \in Asid PROVE Written(b)' /\ Pending(b)' = Pending(b)
  BY <1>1, <1>4, AlikeWritten, AlikePending DEF Printed
<1> QED BY <1>1, <1>5 DEF Rests

\* doIO() gives the character to the device of the service and of the program.
LEMMA RestDoIO ==
  ASSUME Printed, SsiDoIO
  PROVE  Rests
<1>0. /\ IInv /\ Types /\ Control /\ Ssi \in Proc
      /\ SupportProcs \subseteq Proc \ {Ssi, Test, Swap}
  BY Names DEF Printed, IInv, SupportProcs
<1>1. /\ UNCHANGED <<pc, exceptState, request, printed, do_io, output>>
      /\ Serving("doio") /\ msg_inbox' = Served
  BY DEF SsiDoIO
<1>2. PICK c \in Client : /\ c = sender /\ pc[c] = "printWait"
                          /\ \A q \in Proc \ {Ssi} : Served[q] = msg_inbox[q]
  BY <1>0, <1>1, Serves DEF Asks
<1>3. PICK a \in Asid : c = Sst(a)
  BY <1>0, <1>2, Clients DEF Control, TestSteps
<1>4. /\ Written(a) /\ SstWhere(a) = "printWait" /\ request[a].service \in PrintServices
      /\ do_io[a] = [commandAddr |-> CmdAddr(Dev(a)), char |-> Head(request[a].string)]
      /\ do_io[a].commandAddr \in Commands(a)
  <2>1. pc[Sst(a)] = "printWait" /\ Written(a)
    BY <1>2, <1>3 DEF Printed
  <2>2. SstWhere(a) = "printWait" /\ request[a].service \in PrintServices
    BY <2>1, Printing
  <2> QED BY <1>0, <2>1, <2>2 DEF Written, Control
<1> DEFINE d == SlotOf(do_io[a].commandAddr)
<1>5. d \in Device /\ d[2] + 1 = a /\ DeviceAt(do_io[a].commandAddr) = d
  BY <1>4, OwnDevice
<1>6. KindOf(d) = request[a].service
  <2>1. a \in 1..UPROCLIMIT
    BY SupportAssumption DEF Asid, UPROCLIMIT
  <2>2. CASE request[a].service = "WRITEPRINTER"
    <3>1. d = <<PRNTINT - 3, a - 1>>
      BY <1>4, <2>1, <2>2, DevicesOfAsid DEF Dev
    <3> HIDE DEF d
    <3> QED BY <2>2, <3>1 DEF KindOf
  <2>3. CASE request[a].service # "WRITEPRINTER"
    <3>1. d = <<TERMINT - 3, a - 1>>
      BY <1>4, <2>1, <2>3, DevicesOfAsid DEF Dev
    <3> HIDE DEF d
    <3>2. d[1] # PRNTINT - 3
      BY <3>1 DEF PRNTINT, TERMINT
    <3> QED BY <1>4, <2>3, <3>2 DEF KindOf, PrintServices
  <2> QED BY <2>2, <2>3
<1>7. printing' = [printing EXCEPT ![d] = Head(request[a].string)]
  <2>1. do_io[sender[2]] = do_io[a] /\ do_io[a].char = Head(request[a].string)
    BY <1>2, <1>3, <1>4, Names
  <2> QED BY <1>5, <2>1 DEF SsiDoIO
<1> HIDE DEF d
<1>8. /\ \A e \in Device : e # d => printing'[e] = printing[e]
      /\ printing'[d] = Head(request[a].string)
  BY <1>0, <1>5, <1>7 DEF Types
<1>9. ASSUME NEW b \in Asid PROVE Alike(b) /\ Heard(b)
  <2>1. Alike(b)
    BY <1>1, AllAlike
  <2>2. Sst(b) \in Proc \ {Ssi} /\ Uproc(b) \in Proc \ {Ssi}
    BY Names
  <2> QED BY <1>1, <1>2, <2>1, <2>2 DEF Heard, From
<1>10. ASSUME NEW b \in Asid PROVE Written(b)'
  <2>1. CASE b # a
    <3>1. \A e \in Device : e[2] + 1 = b => printing'[e] = printing[e]
      BY <1>5, <1>8, <2>1
    <3> QED BY <1>9, <3>1, AlikeWritten DEF Printed
  <2>2. CASE b = a
    <3>1. \A e \in Device : e[2] + 1 = a /\ printing'[e] # NULL =>
            request'[a].service = KindOf(e) /\ printing'[e] = Head(request'[a].string)
      BY <1>1, <1>4, <1>6, <1>8 DEF Written
    <3>2. Alike(a) /\ (AtEnd(a)' <=> AtEnd(a)) /\ Dev(a)' = Dev(a)
      BY <1>1, <1>9 DEF AtEnd, Dev
    <3>3. Written(a)'
      BY <1>4, <3>1, <3>2 DEF Written, Alike
    <3> QED BY <2>2, <3>3
  <2> QED BY <2>1, <2>2
<1>11. ASSUME NEW b \in Asid PROVE Pending(b)' = Pending(b)
  BY <1>9, AlikePending
<1> QED BY <1>1, <1>10, <1>11 DEF Rests

LEMMA RestKill ==
  ASSUME Printed, SsiKill
  PROVE  Rests
<1>0. IInv
  BY DEF Printed
<1>1. /\ UNCHANGED <<pc, exceptState, request, printed, do_io, printing, output>>
      /\ Serving("kill")
  BY DEF SsiKill
<1>2. \A q \in Proc \ {Ssi} : msg_inbox'[q] = msg_inbox[q]
  BY <1>0, <1>1, Serves DEF SsiKill
<1>4. ASSUME NEW b \in Asid PROVE Alike(b) /\ Heard(b)
  <2>1. Sst(b) \in Proc \ {Ssi} /\ Uproc(b) \in Proc \ {Ssi}
    BY Names
  <2> QED BY <1>1, <1>2, <2>1, AllAlike DEF Heard, From
<1>5. ASSUME NEW b \in Asid PROVE Written(b)' /\ Pending(b)' = Pending(b)
  BY <1>1, <1>4, AlikeWritten, AlikePending DEF Printed
<1> QED BY <1>1, <1>5 DEF Rests

\* The device prints the next character of the text of its own program.
LEMMA GoDevice ==
  ASSUME Printed, NEW d \in Device, DeviceInterrupt(d), NEW a, a = d[2] + 1
  PROVE  /\ \A b \in Asid : Written(b)' /\ (b # a => Pending(b)' = Pending(b))
         /\ a \in Asid /\ Pending(a) # NULL /\ Pending(a).kind = KindOf(d)
         /\ Pending(a).rest # <<>> /\ printing[d] = Head(Pending(a).rest)
         /\ Pending(a)' = [Pending(a) EXCEPT !.rest = Tail(@)]
         /\ output' = [output EXCEPT ![d] = Append(@, printing[d])]
<1>0. /\ IInv /\ Types /\ Births /\ Conversations /\ Letters /\ Ssi \in Proc
  BY Names DEF Printed, IInv
<1>1. /\ UNCHANGED <<pc, exceptState, request, printed, do_io>>
      /\ printing[d] # NULL /\ printing' = [printing EXCEPT ![d] = NULL]
      /\ output' = [output EXCEPT ![d] = Append(@, printing[d])]
  BY DEF DeviceInterrupt
<1>2. a \in Asid /\ Sst(a) \in Client /\ Sst(a) \in Proc /\ Sst(a) # Swap /\ Sst(a) # NULL
  <2>1. a \in Asid
    BY Names DEF Device
  <2> QED BY <2>1, Names, Clients
<1>3. /\ devQueue[d] = Sst(a) /\ pc[Sst(a)] = "printWait" /\ Ssi \notin From(Sst(a))
  BY <1>0, <1>1 DEF Conversations, Slots
<1>4. Sst(a) \in alive
  BY <1>0, <1>2, <1>3 DEF Births, Family
<1>5. Posted(msg_inbox, msg_inbox', Ssi, "status", Sst(a))
  <2>1. [from |-> Ssi, op |-> "status"] \in Message
    BY <1>0 DEF Message
  <2>2. Ssi \notin Writers(msg_inbox[Sst(a)])
    BY <1>3 DEF From
  <2>3. msg_inbox' = Push(msg_inbox, Ssi, "status", Sst(a))
    BY <1>2, <1>3 DEF DeviceInterrupt
  <2> QED BY <1>0, <1>2, <2>1, <2>2, <2>3, PushFacts DEF Types, Letters
<1>6. /\ \A q \in Proc \ {Sst(a)} : From(q)' = From(q)
      /\ From(Sst(a))' = From(Sst(a)) \cup {Ssi}
  BY <1>0, <1>2, <1>4, <1>5, PostedFrom
<1>7. \A b \in Asid : Alike(b)
  BY <1>1, AllAlike
<1>8. ASSUME NEW b \in Asid PROVE Written(b)'
  <2>1. \A e \in Device : printing'[e] \in {NULL, printing[e]}
    BY <1>0, <1>1 DEF Types
  <2> QED BY <1>7, <2>1, AlikeWritten DEF Printed
<1>9. ASSUME NEW b \in Asid, b # a PROVE Pending(b)' = Pending(b)
  <2>1. Sst(b) \in Proc \ {Sst(a)} /\ Uproc(b) \in Proc \ {Sst(a)}
    BY <1>2, <1>9, Names
  <2> QED BY <1>6, <1>7, <2>1, AlikePending DEF Heard
<1>10. /\ SstWhere(a) = "printWait" /\ Sst(a) \notin From(Uproc(a))
       /\ request[a] \in Request /\ request[a].service \in PrintServices
       /\ request[a].string \in Seq(Char) /\ request[a].length \in Nat /\ printed[a] \in Nat
       /\ request[a].string # <<>>
  BY <1>2, <1>3, Printing
<1> DEFINE s == request[a].string
           n == request[a].length - printed[a]
<1>11. /\ ~AtEnd(a) /\ request[a].service = KindOf(d) /\ printing[d] = Head(s)
  BY <1>1, <1>2, <1>10 DEF Printed, Written
<1>12. s \in Seq(Char) /\ s # <<>> /\ n \in Int /\ n > 0
  BY <1>10, <1>11 DEF AtEnd
<1>13. request[a] # NULL
  BY <1>10, SomeRequest
<1>14. Phase(a) = 0 /\ Phase(a)' = 1
  <2>1. Phase(a) = 0
    BY <1>3, <1>10 DEF Phase
  <2>2. SstWhere(a)' = "printWait" /\ Ssi \in From(Sst(a))' /\ Sst(a) \notin From(Uproc(a))'
    <3>1. Uproc(a) \in Proc \ {Sst(a)}
      BY <1>2, Names
    <3> QED BY <1>2, <1>6, <1>7, <1>10, <3>1 DEF Alike
  <2>3. Phase(a)' = 1
    BY <2>2 DEF Phase
  <2> QED BY <2>1, <2>3
<1>15. Pending(a) = [kind |-> request[a].service, rest |-> Remains(s, n, 0)]
  BY <1>10, <1>13, <1>14, Zenon DEF Pending
<1>16. Pending(a)' = [kind |-> request[a].service, rest |-> Remains(s, n, 1)]
  <2>1. request' = request /\ printed' = printed
    BY <1>1
  <2> QED BY <1>10, <1>13, <1>14, <2>1, Zenon DEF Pending
<1> HIDE DEF s, n
<1>17. /\ Remains(s, n, 0) # <<>> /\ Head(Remains(s, n, 0)) = Head(s)
       /\ Tail(Remains(s, n, 0)) = Remains(s, n, 1)
  BY <1>12, OneLess
<1>18. Pending(a) # NULL
  BY <1>10, <1>12, <1>15, RemainsSeq, SomeText
<1>19. Pending(a)' = [Pending(a) EXCEPT !.rest = Tail(@)]
  BY <1>15, <1>16, <1>17
<1> QED BY <1>1, <1>2, <1>8, <1>9, <1>11, <1>15, <1>17, <1>18, <1>19

(* The steps of Console. *)

DeviceOf(b, k) ==
  IF k = "WRITEPRINTER" THEN <<PRNTINT - 3, b - 1>> ELSE <<TERMINT - 3, b - 1>>

LEMMA OneDevice ==
  ASSUME NEW b \in Asid, NEW k \in PrintServices
  PROVE  /\ DeviceOf(b, k) \in Device
         /\ \A d \in Device : DeviceOf(b, k) = d <=> b = d[2] + 1 /\ k = KindOf(d)
<1>1. b - 1 \in 0..(UPROCMAX - 1) /\ b \in Int /\ \A i \in 0..(UPROCMAX - 1) : i \in Int
  BY Names
<1>2. \A d \in Device : d = <<d[1], d[2]>> /\ d[1] \in {3, 4} /\ d[2] \in 0..(UPROCMAX - 1)
  BY DEF Device, PRNTINT, TERMINT
<1>3. CASE k = "WRITEPRINTER"
  <2>1. DeviceOf(b, k) = <<3, b - 1>>
    BY <1>3 DEF DeviceOf, PRNTINT
  <2>2. \A d \in Device : k = KindOf(d) <=> d[1] = 3
    BY <1>3 DEF KindOf, PRNTINT
  <2>3. <<3, b - 1>> \in Device
    BY <1>1 DEF Device, PRNTINT, TERMINT
  <2>4. ASSUME NEW d \in Device PROVE <<3, b - 1>> = d <=> b = d[2] + 1 /\ d[1] = 3
    BY <1>1, <1>2
  <2> QED BY <2>1, <2>2, <2>3, <2>4
<1>4. CASE k # "WRITEPRINTER"
  <2>1. DeviceOf(b, k) = <<4, b - 1>>
    BY <1>4 DEF DeviceOf, TERMINT
  <2>2. \A d \in Device : k = KindOf(d) <=> d[1] = 4
    BY <1>2, <1>4 DEF KindOf, PRNTINT, PrintServices
  <2>3. <<4, b - 1>> \in Device
    BY <1>1 DEF Device, PRNTINT, TERMINT
  <2>4. ASSUME NEW d \in Device PROVE <<4, b - 1>> = d <=> b = d[2] + 1 /\ d[1] = 4
    BY <1>1, <1>2
  <2> QED BY <2>1, <2>2, <2>3, <2>4
<1> QED BY <1>3, <1>4

LEMMA PaperDevices ==
  paper = [b \in Asid |-> [k \in PrintServices |-> output[DeviceOf(b, k)]]]
<1>1. ASSUME NEW b, NEW k
      PROVE  output[DeviceOf(b, k)] = IF k = "WRITEPRINTER" THEN output[<<PRNTINT - 3, b - 1>>]
                                      ELSE output[<<TERMINT - 3, b - 1>>]
  BY Zenon DEF DeviceOf
<1> QED BY <1>1, Zenon DEF paper

\* A device adds to the paper of its own program, and to no other.
Adds(a, k, x) == paper' = [paper EXCEPT ![a][k] = Append(@, x)]
LEMMA PaperPut ==
  ASSUME Types, NEW d \in Device, NEW a \in Asid, a = d[2] + 1, NEW x,
         output' = [output EXCEPT ![d] = Append(@, x)]
  PROVE  Adds(a, KindOf(d), x)
<1> DEFINE k0 == KindOf(d)
<1>1. paper' = [b \in Asid |-> [k \in PrintServices |-> output'[DeviceOf(b, k)]]]
  <2>1. ASSUME NEW b, NEW k
        PROVE  output'[DeviceOf(b, k)] =
                 IF k = "WRITEPRINTER" THEN output'[<<PRNTINT - 3, b - 1>>]
                 ELSE output'[<<TERMINT - 3, b - 1>>]
    <3>1. CASE k = "WRITEPRINTER"
      BY <3>1 DEF DeviceOf
    <3>2. CASE k # "WRITEPRINTER"
      BY <3>2 DEF DeviceOf
    <3> QED BY <3>1, <3>2
  <2> QED BY <2>1, Zenon DEF paper
<1>2. k0 \in PrintServices
  BY DEF KindOf, PrintServices
<1>3. ASSUME NEW b \in Asid, NEW k \in PrintServices
      PROVE  output'[DeviceOf(b, k)] = IF b = a /\ k = k0 THEN Append(paper[a][k0], x)
                                       ELSE paper[b][k]
  <2>1. paper[b][k] = output[DeviceOf(b, k)]
    BY PaperDevices
  <2>2. DeviceOf(b, k) \in Device /\ (DeviceOf(b, k) = d <=> b = a /\ k = k0)
    BY OneDevice
  <2>3. \A e \in Device : output'[e] = IF e = d THEN Append(output[d], x) ELSE output[e]
    BY DEF Types
  <2> HIDE DEF k0
  <2> QED BY <2>1, <2>2, <2>3
<1> HIDE DEF k0
<1> DEFINE row == [paper[a] EXCEPT ![k0] = Append(paper[a][k0], x)]
<1>4. /\ DOMAIN paper = Asid
      /\ \A b \in Asid : paper[b] = [k \in PrintServices |-> paper[b][k]]
  BY PaperDevices
<1>5. row = [k \in PrintServices |-> output'[DeviceOf(a, k)]]
  <2>1. PICK f, y : f = paper[a] /\ y = Append(paper[a][k0], x)
    OBVIOUS
  <2>2. f = [k \in PrintServices |-> f[k]]
    BY <1>4, <2>1
  <2>3. \A k \in PrintServices : output'[DeviceOf(a, k)] = IF k = k0 THEN y ELSE f[k]
    BY <1>3, <2>1
  <2>4. [f EXCEPT ![k0] = y] = [k \in PrintServices |-> IF k = k0 THEN y ELSE f[k]]
    BY <2>2
  <2>5. [f EXCEPT ![k0] = y] = [k \in PrintServices |-> output'[DeviceOf(a, k)]]
    BY <2>3, <2>4, Zenon
  <2> QED BY <2>1, <2>5, Zenon
<1>6. ASSUME NEW b \in Asid, b # a
      PROVE  paper[b] = [k \in PrintServices |-> output'[DeviceOf(b, k)]]
  <2>1. \A k \in PrintServices : paper[b][k] = output'[DeviceOf(b, k)]
    BY <1>3, <1>6
  <2>2. [k \in PrintServices |-> paper[b][k]]
          = [k \in PrintServices |-> output'[DeviceOf(b, k)]]
    BY <2>1, Zenon
  <2>3. paper[b] = [k \in PrintServices |-> paper[b][k]]
    BY <1>4
  <2> QED BY <2>2, <2>3, Zenon
<1> DEFINE Row(b) == [k \in PrintServices |-> output'[DeviceOf(b, k)]]
<1>7. paper' = [b \in Asid |-> IF b = a THEN row ELSE paper[b]]
  <2>1. /\ paper' = [b \in Asid |-> Row(b)] /\ row = Row(a)
        /\ \A b \in Asid : b # a => paper[b] = Row(b)
    BY <1>1, <1>5, <1>6
  <2> HIDE DEF Row, row
  <2>2. \A b \in Asid : Row(b) = IF b = a THEN row ELSE paper[b]
    BY <2>1
  <2> QED BY <2>1, <2>2, Zenon
<1> HIDE DEF row
<1>8. paper' = [paper EXCEPT ![a] = row]
  BY <1>4, <1>7
<1> QED BY <1>8 DEF row, k0, Adds

\* The mapping, before and after a step.
Mapped ==
  /\ pending = [a \in Asid |-> Pending(a)]
  /\ paper = [b \in Asid |-> [k \in PrintServices |-> output[DeviceOf(b, k)]]]

LEMMA MappedAlways == IInv => Mapped
BY Mapping, PaperDevices DEF Mapped

LEMMA MappedRests ==
  ASSUME Mapped, Mapped', \A b \in Asid : Pending(b)' = Pending(b), UNCHANGED output
  PROVE  UNCHANGED <<paper, pending>>
BY DEF Mapped

LEMMA MappedGoes ==
  ASSUME Mapped, Mapped', NEW a \in Asid, \A b \in Asid \ {a} : Pending(b)' = Pending(b),
         UNCHANGED output, Goes(a)
  PROVE  [C!Next]_<<paper, pending>>
<1>1. /\ pending[a] = Pending(a) /\ paper' = paper
      /\ pending' = [pending EXCEPT ![a] = Pending(a)']
  BY DEF Mapped
<1>2. CASE Pending(a)' = Pending(a)
  BY <1>2, MappedRests
<1>3. CASE /\ Pending(a) = NULL
           /\ \E k \in PrintServices, text \in Text :
                Pending(a)' = [kind |-> k, rest |-> text]
  <2>1. C!Ask(a)
    BY <1>1, <1>3 DEF C!Ask
  <2> QED BY <2>1 DEF C!Next
<1>4. CASE Pending(a) # NULL /\ Pending(a).rest = <<>> /\ Pending(a)' = NULL
  <2>1. C!Resume(a)
    BY <1>1, <1>4 DEF C!Resume
  <2> QED BY <2>1 DEF C!Next
<1> QED BY <1>2, <1>3, <1>4 DEF Goes

LEMMA MappedDevice ==
  ASSUME Printed, Mapped, Mapped', NEW d \in Device, DeviceInterrupt(d)
  PROVE  C!Next
<1>1. PICK a : a = d[2] + 1
  OBVIOUS
<1>2. /\ a \in Asid /\ \A b \in Asid : b # a => Pending(b)' = Pending(b)
      /\ Pending(a) # NULL /\ Pending(a).kind = KindOf(d)
      /\ Pending(a).rest # <<>> /\ printing[d] = Head(Pending(a).rest)
      /\ Pending(a)' = [Pending(a) EXCEPT !.rest = Tail(@)]
      /\ output' = [output EXCEPT ![d] = Append(@, printing[d])]
  BY <1>1, GoDevice
<1>3. pending[a] = Pending(a) /\ pending' = [pending EXCEPT ![a].rest = Tail(@)]
  BY <1>2 DEF Mapped
<1>4. paper' = [paper EXCEPT ![a][pending[a].kind] = Append(@, Head(pending[a].rest))]
  <2>1. paper' = [paper EXCEPT ![a][KindOf(d)] = Append(@, printing[d])]
    <3>1. Types
      BY DEF Printed, IInv
    <3>2. PICK x : x = printing[d]
      OBVIOUS
    <3>3. output' = [output EXCEPT ![d] = Append(@, x)]
      BY <1>2, <3>2
    <3>4. Adds(a, KindOf(d), x)
      BY <1>1, <1>2, <3>1, <3>3, PaperPut
    <3> QED BY <3>2, <3>4 DEF Adds
  <2>2. pending[a].kind = KindOf(d) /\ Head(pending[a].rest) = printing[d]
    BY <1>2, <1>3
  <2> QED BY <2>1, <2>2, Zenon
<1>5. C!Put(a)
  BY <1>2, <1>3, <1>4 DEF C!Put
<1> QED BY <1>2, <1>5 DEF C!Next

LEMMA PrintedStep ==
  ASSUME Printed, Mapped, Mapped', ~Astray', [Next]_vars
  PROVE  Printed' /\ [C!Next]_<<paper, pending>>
<1>1. IInv' /\ ~Astray'
  BY Preserved DEF Printed
<1>2. ASSUME Rests PROVE (\A b \in Asid : Written(b)') /\ [C!Next]_<<paper, pending>>
  BY <1>2, MappedRests DEF Rests
<1>3. ASSUME NEW a \in Asid, SstStep(a) \/ UprocStep(a)
      PROVE  (\A b \in Asid : Written(b)') /\ [C!Next]_<<paper, pending>>
  <2>1. Apart(a)
    BY <1>3, SstApart, UprocApart DEF Printed
  <2>2. Written(a)' /\ Goes(a)
    BY <1>1, <1>3, GoSst, GoUproc
  <2>3. \A b \in Asid \ {a} : Alike(b) /\ Heard(b)
    BY <2>1, OthersAlike
  <2>4. UNCHANGED <<printing, output>>
    BY <2>1 DEF Apart
  <2>5. \A b \in Asid \ {a} : Written(b)' /\ Pending(b)' = Pending(b)
    BY <2>3, <2>4, AlikeWritten, AlikePending DEF Printed
  <2> QED BY <2>2, <2>4, <2>5, MappedGoes
<1>4. ASSUME NEW d \in Device, DeviceInterrupt(d)
      PROVE  (\A b \in Asid : Written(b)') /\ [C!Next]_<<paper, pending>>
  BY <1>4, GoDevice, MappedDevice
<1>5. (\A b \in Asid : Written(b)') /\ [C!Next]_<<paper, pending>>
  BY <1>2, <1>3, <1>4, RestTest, RestPages, RestCreate, RestDoIO, RestKill DEF Next, SsiStep
<1> QED BY <1>1, <1>5 DEF Printed

LEMMA PrintedBegins == Init => Printed /\ C!Init
<1> SUFFICES ASSUME Init PROVE Printed /\ C!Init
  OBVIOUS
<1>1. IInv
  BY Begins
<1>2. ASSUME NEW a \in Asid
      PROVE  /\ Written(a) /\ request[a] = NULL
             /\ \A p \in {Sst(a), Uproc(a)} : Where(a, p) \notin {"foreign", "nested"}
  <2>1. /\ request[a] = NULL /\ printed[a] = 0 /\ \A d \in Device : printing[d] = NULL
    BY DEF Init
  <2>2. SstWhere(a) = "newChild"
    <3>1. Sst(a) \notin {Ssi, Test, Swap} /\ Sst(a) \in Proc /\ Sst(a)[1] = "SST"
      BY Names DEF Sst
    <3>2. pc[Sst(a)] = "newChild"
      BY <3>1 DEF Init
    <3> QED BY <3>2, WhereNow
  <2>3. UprocWhere(a) = "user"
    <3>1. /\ Uproc(a) \notin {Ssi, Test, Swap} /\ Uproc(a) \in Proc
          /\ Uproc(a)[1] # "SST"
      BY Names DEF Uproc
    <3>2. pc[Uproc(a)] = "user"
      BY <3>1 DEF Init
    <3> QED BY <3>2, WhereNow
  <2>4. Written(a)
    BY <2>1, <2>2 DEF Written, Idle
  <2> QED BY <2>1, <2>2, <2>3, <2>4 DEF SstWhere, UprocWhere
<1>3. pending = [a \in Asid |-> NULL]
  BY <1>2 DEF pending
<1>4. paper = [a \in Asid |-> [k \in PrintServices |-> <<>>]]
  <2>1. \A b \in Asid, k \in PrintServices : output[DeviceOf(b, k)] = <<>>
    BY OneDevice DEF Init
  <2> QED BY <2>1, PaperDevices
<1>5. ~Astray
  BY <1>2 DEF Astray
<1> QED BY <1>1, <1>2, <1>3, <1>4, <1>5 DEF Printed, C!Init

\* What a program asks to print appears on its own printer or terminal, whole, in order
\* and before the program goes on, whatever the other programs print, whenever pages
\* leave and wherever the SST faults on the page of the string: the state of Support,
\* seen as paper and texts still to print, makes only steps of Console (writeString(),
\* doIO(), deviceInterrupt(), usyscallHandler()), until a process goes astray.
THEOREM SupportPrints == Spec => PrintsAsAsked
<1> DEFINE J == IInv /\ (Astray \/ Printed)
<1>1. J /\ Mapped /\ Mapped' /\ [Next]_vars =>
        J' /\ [C!Next \/ Astray']_<<paper, pending>>
  <2> SUFFICES ASSUME J, Mapped, Mapped', [Next]_vars
               PROVE  J' /\ [C!Next \/ Astray']_<<paper, pending>>
    OBVIOUS
  <2>1. IInv'
    BY Preserved
  <2>2. CASE Astray'
    BY <2>1, <2>2
  <2>3. CASE ~Astray'
    <3>1. Printed
      BY <2>3, StrayStays
    <3>2. Printed' /\ [C!Next]_<<paper, pending>>
      BY <2>3, <3>1, PrintedStep
    <3> QED BY <2>1, <3>2
  <2> QED BY <2>2, <2>3
<1>2. Init => J /\ C!Init
  BY PrintedBegins, Begins
<1>3. Spec => []Mapped
  BY MappedAlways, Invariant, PTL
<1> HIDE DEF J
<1>4. Spec => C!Init /\ [][C!Next \/ Astray']_<<paper, pending>>
  BY <1>1, <1>2, <1>3, PTL DEF Spec
<1> QED BY <1>4 DEF PrintsAsAsked
==============================================================================
