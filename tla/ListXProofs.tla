------------------------------ MODULE ListXProofs ------------------------------
(****************************************************************************)
(* The lists stay doubly linked, and are queues, for any number of PCBs,    *)
(* until a handler changes a list in the middle of the SSI's operation on   *)
(* it; the pointers lead to nodes even then.                                *)
(*                                                                          *)
(* While the SSI is in an operation its list is not sound, but it will be   *)
(* after the stores that are left: the invariant is about the links after   *)
(* them.  A store of the SSI does not change those.  A handler changes      *)
(* other nodes than the stores that are left, so that it does to the links  *)
(* after them what it does to the links as they are.                        *)
(*                                                                          *)
(* What list_for_each() finds is a matter of next alone.  The SSI's stores  *)
(* to next come last, but for one in the PCB that joins: a list changes at  *)
(* the last store, from a sequence of PCBs to that with one PCB less or     *)
(* more.  That the links make a ring after it says which.                   *)
(****************************************************************************)
EXTENDS ListX, QueueLemmas, FiniteSetTheorems

Member(wh, list) == {list} \cup {p \in Pcb : wh[p] = list}

\* Every list is closed and doubly linked.
Linked(nx, pv, wh) ==
  \A list \in ListHead : \A n \in Member(wh, list) :
    /\ nx[n] \in Member(wh, list) /\ pv[nx[n]] = n
    /\ pv[n] \in Member(wh, list) /\ nx[pv[n]] = n

StoreType == [field : {"next", "prev"}, at : Node, to : Node]

\* No two of the stores s write the same field of the same node.
Apart(s) ==
  \A i, j \in DOMAIN s : s[i].field = s[j].field /\ s[i].at = s[j].at => i = j

LinksOK(nx, pv, wh) ==
  /\ nx \in [Node -> Node] /\ pv \in [Node -> Node] /\ wh \in [Pcb -> Place]
  /\ Linked(nx, pv, wh)

\* wh when the operation the SSI is in will have ended.
Landed(wh) == IF stores = <<>> THEN wh ELSE [wh EXCEPT ![change.pcb] = change.to]

\* The operation of the SSI: on a PCB that is not its own and a list that its
\* stores do not leave.
InOperation(wh) ==
  stores # <<>> =>
    /\ change.pcb # ssi_pcb
    /\ change.list \in ListHead \cup {"nowhere"}
    /\ wh[change.pcb] \in {change.list, "nowhere"}
    /\ change.to \in {change.list, "nowhere", "device"}
    /\ \A i \in DOMAIN stores :
         stores[i].at \in {change.pcb} \cup (Member(wh, change.list) \cap Node)

\* The links are sound once the stores that are left are done.
Sound(nx, pv, wh) ==
  /\ nx \in [Node -> Node] /\ pv \in [Node -> Node] /\ wh \in [Pcb -> Place]
  /\ stores \in Seq(StoreType) /\ Apart(stores)
  /\ change \in [pcb : Pcb, list : Place, to : Place]
  /\ InOperation(wh)
  /\ LinksOK(After("next", nx, stores), After("prev", pv, stores), Landed(wh))

\* The SSI runs when it is in an operation.
Apace ==
  /\ current_process \in Pcb \cup {NULL} /\ timer \in BOOLEAN
  /\ stores # <<>> => current_process = ssi_pcb

\* What the SSI is going to unlink is linked, and what it is going to link is not.
Fit(p, list) ==
  LET add == Call("add", p, list)
      init == Call("init", p, "nowhere")
      del == Call("del", p, "nowhere")
  IN \/ calls \in {<<add>>, <<init, add>>} /\ Landed(where)[p] = "nowhere"
     \/ /\ calls \in {<<Call("del", p, "device")>>, <<del, add>>, <<del, init, add>>}
        /\ stores = <<>> /\ where[p] \in ListHead
CallsFit ==
  calls # <<>> =>
    /\ current_process = ssi_pcb
    /\ \E p \in Pcb \ {ssi_pcb}, list \in ListHead : Fit(p, list)

CurrentUnlinked == current_process # NULL => where[current_process] = "nowhere"

IInv == Sound(next, prev, where) /\ Apace /\ CallsFit /\ CurrentUnlinked
------------------------------------------------------------------------------
(* What stores do to a field.                                               *)

\* The largest of some places in a sequence.
LEMMA MaxPlace ==
  ASSUME NEW k \in Nat, NEW S, S \subseteq 1..k, S # {}
  PROVE  Max(S) \in S
<1> DEFINE I == {k - i : i \in S}
<1>1. I \subseteq Nat /\ I # {} /\ S \subseteq Nat
  <2>1. \A i \in S : i \in Nat /\ k - i \in Nat
    OBVIOUS
  <2> QED BY <2>1
<1> HIDE DEF I
<1>2. Min(I) \in I /\ \A i \in I : Min(I) <= i
  BY <1>1, MinNat
<1>3. PICK x \in S : Min(I) = k - x
  BY <1>2 DEF I
<1>4. ASSUME NEW y \in S PROVE x >= y
  <2>1. k - x <= k - y
    BY <1>2, <1>3 DEF I
  <2> QED BY <1>1, <2>1
<1> QED BY <1>4 DEF Max

\* A field after stores that are apart, at a node that one of them writes.
LEMMA AfterAt ==
  ASSUME NEW f, NEW field, NEW s \in Seq(StoreType), Apart(s),
         NEW i \in DOMAIN s, s[i].field = f
  PROVE After(f, field, s)[s[i].at] = s[i].to
<1>1. s[i] \in StoreType
  OBVIOUS
<1> DEFINE W == {j \in DOMAIN s : s[j].field = f /\ s[j].at = s[i].at}
<1>2. W = {i}
  BY DEF Apart
<1>3. Max({i}) = i
  <2>1. i >= i
    BY LenProperties
  <2> QED BY <2>1 DEF Max
<1>4. s[i].at \in Node
  BY <1>1 DEF StoreType
<1>5. After(f, field, s)[s[i].at] = IF W = {} THEN field[s[i].at] ELSE s[Max(W)].to
  BY <1>4 DEF After
<1> QED BY <1>2, <1>3, <1>5

\* And at a node that none of them writes.
LEMMA AfterElse ==
  ASSUME NEW f, NEW field, NEW s, NEW n \in Node,
         \A i \in DOMAIN s : ~(s[i].field = f /\ s[i].at = n)
  PROVE After(f, field, s)[n] = field[n]
BY DEF After

\* It is still a field of nodes, whatever the order of the stores.
LEMMA AfterType ==
  ASSUME NEW f, NEW field \in [Node -> Node], NEW s \in Seq(StoreType)
  PROVE After(f, field, s) \in [Node -> Node]
<1>1. SUFFICES ASSUME NEW n \in Node PROVE After(f, field, s)[n] \in Node
  BY DEF After
<1> DEFINE W == {i \in DOMAIN s : s[i].field = f /\ s[i].at = n}
<1>2. After(f, field, s)[n] = IF W = {} THEN field[n] ELSE s[Max(W)].to
  BY DEF After
<1>3. CASE W = {}
  BY <1>2, <1>3
<1>4. CASE W # {}
  <2>1. Len(s) \in Nat /\ DOMAIN s = 1..Len(s) /\ W \subseteq 1..Len(s)
    BY LenProperties
  <2>2. Max(W) \in W
    BY <1>4, <2>1, MaxPlace
  <2>3. s[Max(W)] \in StoreType
    BY <2>1, <2>2
  <2>4. s[Max(W)].to \in Node
    BY <2>3 DEF StoreType
  <2> QED BY <1>2, <1>4, <2>4
<1> QED BY <1>3, <1>4

\* No store changes nothing.
LEMMA AfterNothing ==
  ASSUME NEW f, NEW field \in [Node -> Node]
  PROVE After(f, field, <<>>) = field
BY DEF After

\* The first store, then the others.
LEMMA AfterFirst ==
  ASSUME NEW f, NEW field \in [Node -> Node], NEW s \in Seq(StoreType), s # <<>>, Apart(s)
  PROVE /\ After(f, After(f, field, <<s[1]>>), Tail(s)) = After(f, field, s)
        /\ Apart(Tail(s)) /\ Tail(s) \in Seq(StoreType)
        /\ After(f, field, <<s[1]>>) \in [Node -> Node]
<1> DEFINE t == Tail(s)
           one == After(f, field, <<s[1]>>)
<1>1. /\ 1 \in DOMAIN s /\ t \in Seq(StoreType) /\ s[1] \in StoreType
      /\ <<s[1]>> \in Seq(StoreType) /\ DOMAIN <<s[1]>> = {1}
      /\ \A i \in DOMAIN t : i + 1 \in DOMAIN s /\ t[i] = s[i + 1] /\ i \in Nat /\ i # 0
      /\ \A i \in DOMAIN s \ {1} : i - 1 \in DOMAIN t /\ t[i - 1] = s[i]
  OBVIOUS
<1> HIDE DEF t, one
<1>2. Apart(t) /\ Apart(<<s[1]>>)
  <2>1. Apart(<<s[1]>>)
    BY <1>1 DEF Apart
  <2>2. ASSUME NEW i \in DOMAIN t, NEW j \in DOMAIN t,
               t[i].field = t[j].field, t[i].at = t[j].at
        PROVE i = j
    <3>1. i + 1 = j + 1
      BY SMTT(40), <1>1, <2>2 DEF Apart
    <3>2. QED
      BY <1>1, <3>1
  <2>3. QED
    BY <2>1, <2>2 DEF Apart
<1>3. ASSUME NEW n \in Node PROVE After(f, one, t)[n] = After(f, field, s)[n]
  <2>1. CASE s[1].field = f /\ s[1].at = n
    <3>1. ASSUME NEW i \in DOMAIN t PROVE ~(t[i].field = f /\ t[i].at = n)
      <4>1. i + 1 \in DOMAIN s /\ t[i] = s[i + 1] /\ i + 1 # 1
        BY <1>1
      <4>2. QED
        BY <1>1, <2>1, <4>1 DEF Apart
    <3>2. After(f, one, t)[n] = one[n]
      BY <3>1, AfterElse
    <3>3. one[n] = s[1].to
      <4>1. 1 \in DOMAIN <<s[1]>> /\ <<s[1]>>[1] = s[1]
        OBVIOUS
      <4>2. Apart(<<s[1]>>) /\ <<s[1]>> \in Seq(StoreType)
        BY <1>1, <1>2
      <4>3. After(f, field, <<s[1]>>)[<<s[1]>>[1].at] = <<s[1]>>[1].to
        BY ZenonT(40), <2>1, <4>1, <4>2, AfterAt
      <4>4. QED
        BY <2>1, <4>1, <4>3 DEF one
    <3>4. After(f, field, s)[n] = s[1].to
      BY <1>1, <2>1, AfterAt
    <3>5. QED
      BY <3>2, <3>3, <3>4
  <2>2. CASE ~(s[1].field = f /\ s[1].at = n)
    <3>1. one[n] = field[n]
      <4>1. \A i \in DOMAIN <<s[1]>> : ~(<<s[1]>>[i].field = f /\ <<s[1]>>[i].at = n)
        BY <2>2
      <4>2. QED
        BY <4>1, AfterElse DEF one
    <3>2. CASE \E i \in DOMAIN t : t[i].field = f /\ t[i].at = n
      <4>1. PICK i \in DOMAIN t : t[i].field = f /\ t[i].at = n
        BY <3>2
      <4>2. After(f, one, t)[n] = t[i].to
        BY <1>1, <1>2, <4>1, AfterAt
      <4>3. After(f, field, s)[n] = s[i + 1].to
        BY <1>1, <4>1, AfterAt
      <4>4. QED
        BY <1>1, <4>1, <4>2, <4>3
    <3>3. CASE ~\E i \in DOMAIN t : t[i].field = f /\ t[i].at = n
      <4>1. \A i \in DOMAIN s : ~(s[i].field = f /\ s[i].at = n)
        BY <1>1, <2>2, <3>3
      <4>2. QED
        BY <3>1, <3>3, <4>1, AfterElse
    <3>4. QED
      BY <3>2, <3>3
  <2>3. QED
    BY <2>1, <2>2
<1>4. After(f, one, t) = After(f, field, s)
  BY <1>3 DEF After
<1>5. one \in [Node -> Node]
  BY <1>1, <1>2, AfterType DEF one
<1>6. QED
  BY <1>1, <1>2, <1>4, <1>5 DEF one, t

\* Stores to different nodes may be done in either order.
LEMMA AfterCommutes ==
  ASSUME NEW f, NEW field \in [Node -> Node],
         NEW s \in Seq(StoreType), NEW t \in Seq(StoreType), Apart(s), Apart(t),
         \A i \in DOMAIN s, j \in DOMAIN t : s[i].at # t[j].at
  PROVE After(f, After(f, field, s), t) = After(f, After(f, field, t), s)
<1>1. ASSUME NEW n \in Node
      PROVE After(f, After(f, field, s), t)[n] = After(f, After(f, field, t), s)[n]
  <2>1. CASE \E i \in DOMAIN s : s[i].field = f /\ s[i].at = n
    <3>1. PICK i \in DOMAIN s : s[i].field = f /\ s[i].at = n
      BY <2>1
    <3>2. After(f, After(f, field, s), t)[n] = After(f, field, s)[n]
      BY <3>1, AfterElse
    <3>3. QED
      BY <3>1, <3>2, AfterAt
  <2>2. CASE ~\E i \in DOMAIN s : s[i].field = f /\ s[i].at = n
    <3>1. After(f, After(f, field, t), s)[n] = After(f, field, t)[n]
      BY <2>2, AfterElse
    <3>2. CASE \E j \in DOMAIN t : t[j].field = f /\ t[j].at = n
      <4>1. PICK j \in DOMAIN t : t[j].field = f /\ t[j].at = n
        BY <3>2
      <4>2. QED
        BY <3>1, <4>1, AfterAt
    <3>3. CASE ~\E j \in DOMAIN t : t[j].field = f /\ t[j].at = n
      BY <2>2, <3>1, <3>3, AfterElse
    <3>4. QED
      BY <3>2, <3>3
  <2>3. QED
    BY <2>1, <2>2
<1>2. QED
  BY <1>1 DEF After
------------------------------------------------------------------------------
(* list_add_tail() and list_del() on sound lists.                           *)

\* A head is no PCB, and no place is one.
LEMMA HeadsAreNodes ==
  /\ \A list \in ListHead : list \in Node /\ list \notin Pcb /\ list \in Place
  /\ \A list \in Place : list \notin Pcb
BY ListAssumption DEF Node, Place

\* The stores of list_add_tail() and the two fields after them.
LEMMA AddStored ==
  ASSUME NEW nx, NEW pv, NEW wh, LinksOK(nx, pv, wh),
         NEW p \in Pcb, wh[p] \notin ListHead, NEW list \in ListHead
  PROVE /\ AddTail(nx, pv, p, list) \in Seq(StoreType)
        /\ AddTail(nx, pv, p, list) # <<>>
        /\ Apart(AddTail(nx, pv, p, list))
        /\ \A i \in DOMAIN AddTail(nx, pv, p, list) :
             AddTail(nx, pv, p, list)[i].at \in {p} \cup Member(wh, list)
        /\ \A n \in Node :
             /\ After("next", nx, AddTail(nx, pv, p, list))[n] =
                  IF n = pv[list] THEN p ELSE IF n = p THEN list ELSE nx[n]
             /\ After("prev", pv, AddTail(nx, pv, p, list))[n] =
                  IF n = p THEN pv[list] ELSE IF n = list THEN p ELSE pv[n]
<1> DEFINE s == AddTail(nx, pv, p, list)
<1>1. /\ list \in Node /\ p \in Node /\ p # list
      /\ pv[list] \in Node /\ pv[list] # p /\ pv[list] \in Member(wh, list)
  BY HeadsAreNodes DEF LinksOK, Linked, Member, Node
<1>2. /\ DOMAIN s = 1..4
      /\ s[1] = Store("prev", list, p) /\ s[2] = Store("next", p, list)
      /\ s[3] = Store("prev", p, pv[list]) /\ s[4] = Store("next", pv[list], p)
      /\ s # <<>>
  BY DEF AddTail, AddStores
<1>3. /\ Store("prev", list, p) \in StoreType /\ Store("next", p, list) \in StoreType
      /\ Store("prev", p, pv[list]) \in StoreType /\ Store("next", pv[list], p) \in StoreType
  BY <1>1 DEF Store, StoreType
<1>4. s \in Seq(StoreType)
  BY <1>3 DEF AddTail, AddStores
<1> HIDE DEF s
<1>5. Apart(s)
  BY <1>1, <1>2 DEF Apart, Store
<1>6. \A i \in DOMAIN s : s[i].at \in {p} \cup Member(wh, list)
  BY <1>1, <1>2 DEF Store, Member
<1>7. \A n \in Node : After("next", nx, s)[n] =
        IF n = pv[list] THEN p ELSE IF n = p THEN list ELSE nx[n]
  <2>1. /\ s[2].field = "next" /\ s[2].at = p /\ s[2].to = list
        /\ s[4].field = "next" /\ s[4].at = pv[list] /\ s[4].to = p
        /\ s[1].field # "next" /\ s[3].field # "next"
    BY <1>2 DEF Store
  <2>2. After("next", nx, s)[p] = list /\ After("next", nx, s)[pv[list]] = p
    <3>1. 2 \in DOMAIN s /\ 4 \in DOMAIN s
      BY <1>2
    <3>2. QED
      BY <1>4, <1>5, <2>1, <3>1, AfterAt
  <2>3. \A n \in Node : n \notin {p, pv[list]} => After("next", nx, s)[n] = nx[n]
    BY <1>2, <2>1, AfterElse
  <2>4. QED
    BY <1>1, <2>2, <2>3
<1>8. \A n \in Node : After("prev", pv, s)[n] =
        IF n = p THEN pv[list] ELSE IF n = list THEN p ELSE pv[n]
  <2>1. /\ s[1].field = "prev" /\ s[1].at = list /\ s[1].to = p
        /\ s[3].field = "prev" /\ s[3].at = p /\ s[3].to = pv[list]
        /\ s[2].field # "prev" /\ s[4].field # "prev"
    BY <1>2 DEF Store
  <2>2. After("prev", pv, s)[list] = p /\ After("prev", pv, s)[p] = pv[list]
    <3>1. 1 \in DOMAIN s /\ 3 \in DOMAIN s
      BY <1>2
    <3>2. QED
      BY <1>4, <1>5, <2>1, <3>1, AfterAt
  <2>3. \A n \in Node : n \notin {p, list} => After("prev", pv, s)[n] = pv[n]
    BY <1>2, <2>1, AfterElse
  <2>4. QED
    BY <1>1, <2>2, <2>3
<1>9. QED
  BY <1>2, <1>4, <1>5, <1>6, <1>7, <1>8 DEF s

\* The stores of list_del() and the two fields after them.
LEMMA DelStored ==
  ASSUME NEW nx, NEW pv, NEW wh, LinksOK(nx, pv, wh), NEW p \in Pcb, wh[p] \in ListHead
  PROVE /\ Del(nx, pv, p) \in Seq(StoreType)
        /\ Del(nx, pv, p) # <<>>
        /\ Apart(Del(nx, pv, p))
        /\ \A i \in DOMAIN Del(nx, pv, p) : Del(nx, pv, p)[i].at \in Member(wh, wh[p])
        /\ \A n \in Node :
             /\ After("next", nx, Del(nx, pv, p))[n] = IF n = pv[p] THEN nx[p] ELSE nx[n]
             /\ After("prev", pv, Del(nx, pv, p))[n] = IF n = nx[p] THEN pv[p] ELSE pv[n]
<1> DEFINE s == Del(nx, pv, p)
<1>1. /\ p \in Node /\ pv[p] \in Node /\ nx[p] \in Node
      /\ pv[p] \in Member(wh, wh[p]) /\ nx[p] \in Member(wh, wh[p])
  BY DEF LinksOK, Linked, Member, Node
<1>2. /\ DOMAIN s = 1..2
      /\ s[1] = Store("prev", nx[p], pv[p]) /\ s[2] = Store("next", pv[p], nx[p])
      /\ s # <<>>
  BY DEF Del, DelStores
<1>3. Store("prev", nx[p], pv[p]) \in StoreType /\ Store("next", pv[p], nx[p]) \in StoreType
  BY <1>1 DEF Store, StoreType
<1>4. s \in Seq(StoreType)
  BY <1>3 DEF Del, DelStores
<1> HIDE DEF s
<1>5. Apart(s)
  BY <1>2 DEF Apart, Store
<1>6. \A i \in DOMAIN s : s[i].at \in Member(wh, wh[p])
  BY <1>1, <1>2 DEF Store
<1>7. \A n \in Node : After("next", nx, s)[n] = IF n = pv[p] THEN nx[p] ELSE nx[n]
  <2>1. /\ 2 \in DOMAIN s /\ s[2].field = "next" /\ s[2].at = pv[p] /\ s[2].to = nx[p]
        /\ s[1].field # "next"
    BY <1>2 DEF Store
  <2>2. After("next", nx, s)[pv[p]] = nx[p]
    BY <1>4, <1>5, <2>1, AfterAt
  <2>3. \A n \in Node : n # pv[p] => After("next", nx, s)[n] = nx[n]
    BY <1>2, <2>1, AfterElse
  <2>4. QED
    BY <1>1, <2>2, <2>3
<1>8. \A n \in Node : After("prev", pv, s)[n] = IF n = nx[p] THEN pv[p] ELSE pv[n]
  <2>1. /\ 1 \in DOMAIN s /\ s[1].field = "prev" /\ s[1].at = nx[p] /\ s[1].to = pv[p]
        /\ s[2].field # "prev"
    BY <1>2 DEF Store
  <2>2. After("prev", pv, s)[nx[p]] = pv[p]
    BY <1>4, <1>5, <2>1, AfterAt
  <2>3. \A n \in Node : n # nx[p] => After("prev", pv, s)[n] = pv[n]
    BY <1>2, <2>1, AfterElse
  <2>4. QED
    BY <1>1, <2>2, <2>3
<1>9. QED
  BY <1>2, <1>4, <1>5, <1>6, <1>7, <1>8 DEF s

\* A PCB that is in no list joins one: all lists are sound.
LEMMA AddLinked ==
  ASSUME NEW nx, NEW pv, NEW wh, LinksOK(nx, pv, wh),
         NEW p \in Pcb, wh[p] \notin ListHead, NEW list \in ListHead
  PROVE LinksOK(After("next", nx, AddTail(nx, pv, p, list)),
                After("prev", pv, AddTail(nx, pv, p, list)), [wh EXCEPT ![p] = list])
<1> DEFINE nx2 == After("next", nx, AddTail(nx, pv, p, list))
           pv2 == After("prev", pv, AddTail(nx, pv, p, list))
           wh2 == [wh EXCEPT ![p] = list]
           last == pv[list]
<1>1. /\ list \in Node /\ p \in Node /\ p # list /\ list \in Place
      /\ last \in Node /\ last # p /\ last \in Member(wh, list) /\ nx[last] = list
  BY HeadsAreNodes DEF LinksOK, Linked, Member, Node
<1>2. nx2 \in [Node -> Node] /\ pv2 \in [Node -> Node] /\ wh2 \in [Pcb -> Place]
  BY <1>1, AddStored, AfterType DEF LinksOK
<1>9. \A m \in Node : /\ nx2[m] = IF m = last THEN p ELSE IF m = p THEN list ELSE nx[m]
                      /\ pv2[m] = IF m = p THEN last ELSE IF m = list THEN p ELSE pv[m]
  BY AddStored
<1> HIDE DEF nx2, pv2, wh2
<1>3. ASSUME NEW l \in ListHead, NEW n \in Member(wh2, l)
      PROVE /\ nx2[n] \in Member(wh2, l) /\ pv2[nx2[n]] = n
            /\ pv2[n] \in Member(wh2, l) /\ nx2[pv2[n]] = n
  <2>1. /\ n \in Node /\ l \in Node
        /\ Member(wh2, l) = IF l = list THEN Member(wh, l) \cup {p} ELSE Member(wh, l)
        /\ p \notin Member(wh, l)
        /\ \A m \in Member(wh, l) : m \in Node
    BY HeadsAreNodes DEF LinksOK, Member, Node, wh2
  <2>2. \A m \in Member(wh, l) : m = last \/ m = list => l = list
    BY <1>1, HeadsAreNodes DEF Member
  <2>3. \A m \in Node : /\ nx2[m] = IF m = last THEN p ELSE IF m = p THEN list ELSE nx[m]
                        /\ pv2[m] = IF m = p THEN last ELSE IF m = list THEN p ELSE pv[m]
    BY <1>9
  <2>4. \A m \in Member(wh, l) : /\ nx[m] \in Member(wh, l) /\ pv[nx[m]] = m
                                 /\ pv[m] \in Member(wh, l) /\ nx[pv[m]] = m
    BY DEF LinksOK, Linked
  <2>5. CASE n = p
    <3>1. l = list
      BY <2>1, <2>5
    <3>2. QED
      BY <1>1, <2>1, <2>3, <2>5, <3>1 DEF Member
  <2>6. CASE n # p
    <3>1. n \in Member(wh, l)
      BY <2>1, <2>6
    <3>2. nx2[n] \in Member(wh2, l) /\ pv2[nx2[n]] = n
      BY <1>1, <2>1, <2>2, <2>3, <2>4, <2>6, <3>1
    <3>3. pv2[n] \in Member(wh2, l) /\ nx2[pv2[n]] = n
      BY <1>1, <2>1, <2>2, <2>3, <2>4, <2>6, <3>1
    <3>4. QED
      BY <3>2, <3>3
  <2>7. QED
    BY <2>5, <2>6
<1>4. QED
  BY <1>2, <1>3 DEF LinksOK, Linked, nx2, pv2, wh2

\* A PCB leaves its list: all lists are sound.
LEMMA DelLinked ==
  ASSUME NEW nx, NEW pv, NEW wh, LinksOK(nx, pv, wh), NEW p \in Pcb, wh[p] \in ListHead,
         NEW to \in Place, to \notin ListHead
  PROVE LinksOK(After("next", nx, Del(nx, pv, p)), After("prev", pv, Del(nx, pv, p)),
                [wh EXCEPT ![p] = to])
<1> DEFINE nx2 == After("next", nx, Del(nx, pv, p))
           pv2 == After("prev", pv, Del(nx, pv, p))
           wh2 == [wh EXCEPT ![p] = to]
<1>1. /\ p \in Node /\ pv[p] \in Node /\ nx[p] \in Node
      /\ pv[p] \in Member(wh, wh[p]) /\ nx[p] \in Member(wh, wh[p])
      /\ nx[pv[p]] = p /\ pv[nx[p]] = p
      /\ p \in Member(wh, wh[p]) /\ p # wh[p]
  BY HeadsAreNodes DEF LinksOK, Linked, Member, Node
<1>2. nx2 \in [Node -> Node] /\ pv2 \in [Node -> Node] /\ wh2 \in [Pcb -> Place]
  BY <1>1, DelStored, AfterType DEF LinksOK
<1>9. \A m \in Node : /\ nx2[m] = IF m = pv[p] THEN nx[p] ELSE nx[m]
                      /\ pv2[m] = IF m = nx[p] THEN pv[p] ELSE pv[m]
  BY DelStored
<1> HIDE DEF nx2, pv2, wh2
<1>3. ASSUME NEW l \in ListHead, NEW n \in Member(wh2, l)
      PROVE /\ nx2[n] \in Member(wh2, l) /\ pv2[nx2[n]] = n
            /\ pv2[n] \in Member(wh2, l) /\ nx2[pv2[n]] = n
  <2>1. /\ n \in Node /\ n \in Member(wh, l) /\ n # p
        /\ Member(wh2, l) = Member(wh, l) \ {p}
        /\ \A m \in Member(wh, l) : m \in Node
    BY HeadsAreNodes DEF LinksOK, Member, Node, wh2
  <2>2. \A m \in Node : /\ nx2[m] = IF m = pv[p] THEN nx[p] ELSE nx[m]
                        /\ pv2[m] = IF m = nx[p] THEN pv[p] ELSE pv[m]
    BY <1>9
  <2>3. \A m \in Member(wh, l) : /\ nx[m] \in Member(wh, l) /\ pv[nx[m]] = m
                                 /\ pv[m] \in Member(wh, l) /\ nx[pv[m]] = m
    BY DEF LinksOK, Linked
  <2>4. nx2[n] \in Member(wh2, l) /\ pv2[nx2[n]] = n
    <3>1. CASE n = pv[p]
      <4>1. nx2[n] = nx[p] /\ p = nx[n] /\ p \in Member(wh, l)
        BY <1>1, <2>1, <2>2, <2>3, <3>1
      <4>2. nx[p] \in Member(wh, l) /\ nx[p] # p
        BY <1>1, <2>1, <2>3, <3>1, <4>1
      <4>3. pv2[nx[p]] = pv[p]
        BY <1>1, <2>2
      <4>4. QED
        BY <2>1, <3>1, <4>1, <4>2, <4>3
    <3>2. CASE n # pv[p]
      <4>1. nx2[n] = nx[n] /\ nx[n] # p /\ nx[n] # nx[p] /\ nx[n] \in Node
        BY <1>1, <2>1, <2>2, <2>3, <3>2
      <4>2. QED
        BY <2>1, <2>2, <2>3, <4>1
    <3>3. QED
      BY <3>1, <3>2
  <2>5. pv2[n] \in Member(wh2, l) /\ nx2[pv2[n]] = n
    <3>1. CASE n = nx[p]
      <4>1. pv2[n] = pv[p] /\ p = pv[n] /\ p \in Member(wh, l)
        BY <1>1, <2>1, <2>2, <2>3, <3>1
      <4>2. pv[p] \in Member(wh, l) /\ pv[p] # p
        BY <1>1, <2>1, <2>3, <3>1, <4>1
      <4>3. nx2[pv[p]] = nx[p]
        BY <1>1, <2>2
      <4>4. QED
        BY <2>1, <3>1, <4>1, <4>2, <4>3
    <3>2. CASE n # nx[p]
      <4>1. pv2[n] = pv[n] /\ pv[n] # p /\ pv[n] # pv[p] /\ pv[n] \in Node
        BY <1>1, <2>1, <2>2, <2>3, <3>2
      <4>2. QED
        BY <2>1, <2>2, <2>3, <4>1
    <3>3. QED
      BY <3>1, <3>2
  <2>6. QED
    BY <2>4, <2>5
<1>4. QED
  BY <1>2, <1>3 DEF LinksOK, Linked, nx2, pv2, wh2
------------------------------------------------------------------------------
(* A handler's operation while the SSI is in one on another list.           *)

\* list_add_tail() on links that will be sound: they will be sound.
LEMMA InsertKeeps ==
  ASSUME NEW nx, NEW pv, NEW wh, Sound(nx, pv, wh),
         NEW p \in Pcb, wh[p] \notin ListHead, NEW list \in ListHead,
         stores # <<>> => p # change.pcb /\ wh[p] # change.list /\ list # change.list
  PROVE Sound(After("next", nx, AddTail(nx, pv, p, list)),
              After("prev", pv, AddTail(nx, pv, p, list)), [wh EXCEPT ![p] = list])
<1> DEFINE nxA == After("next", nx, stores)
           pvA == After("prev", pv, stores)
           s == AddTail(nxA, pvA, p, list)
           wh2 == [wh EXCEPT ![p] = list]
<1>1. /\ nx \in [Node -> Node] /\ pv \in [Node -> Node] /\ wh \in [Pcb -> Place]
      /\ stores \in Seq(StoreType) /\ Apart(stores)
      /\ change \in [pcb : Pcb, list : Place, to : Place]
      /\ InOperation(wh) /\ LinksOK(nxA, pvA, Landed(wh))
  BY DEF Sound
<1>2. /\ list \in Node /\ list \notin Pcb /\ list \in Place /\ p \in Node /\ p # list
      /\ change.pcb \in Pcb
  BY <1>1, HeadsAreNodes DEF Node
<1>3. \A i \in DOMAIN stores : stores[i].at # list /\ stores[i].at # p
  BY <1>1, <1>2, HeadsAreNodes DEF InOperation, Member, Place
<1>4. pvA[list] = pv[list]
  BY <1>2, <1>3, AfterElse
<1>5. s = AddTail(nx, pv, p, list)
  BY <1>4 DEF AddTail
<1>6. Landed(wh)[p] = wh[p]
  BY <1>1 DEF Landed
<1>7. LinksOK(After("next", nxA, s), After("prev", pvA, s), [Landed(wh) EXCEPT ![p] = list])
  BY <1>1, <1>6, AddLinked
<1>8. /\ s \in Seq(StoreType) /\ Apart(s)
      /\ \A i \in DOMAIN s : s[i].at \in {p} \cup Member(Landed(wh), list)
  BY <1>1, <1>6, AddStored
<1> HIDE DEF s
<1>9. \A i \in DOMAIN s, j \in DOMAIN stores : s[i].at # stores[j].at
  <2>1. SUFFICES ASSUME stores # <<>>, NEW i \in DOMAIN s, NEW j \in DOMAIN stores,
                        s[i].at \in Member(Landed(wh), list)
                 PROVE s[i].at # stores[j].at
    BY <1>1, <1>3, <1>8
  <2>2. stores[j].at = change.pcb \/ stores[j].at \in Member(wh, change.list)
    BY <1>1, <2>1 DEF InOperation
  <2>3. change.pcb \notin Member(Landed(wh), list)
    BY <1>1, <1>2, <2>1 DEF InOperation, Landed, Member, Place, ListHead
  <2>4. \A x \in Member(Landed(wh), list) : x # change.pcb => x \notin Member(wh, change.list)
    <3>1. SUFFICES ASSUME NEW x \in Member(Landed(wh), list), x # change.pcb
                   PROVE x \notin Member(wh, change.list)
      OBVIOUS
    <3>2. CASE x = list
      BY <1>1, <1>2, <2>1, <3>2 DEF Member
    <3>3. CASE x # list
      <4>1. x \in Pcb /\ Landed(wh)[x] = list
        BY <3>1, <3>3 DEF Member
      <4>2. wh[x] = list
        BY <1>1, <2>1, <3>1, <4>1 DEF Landed
      <4>3. x # change.list
        BY <1>1, <2>1, <4>1, HeadsAreNodes DEF InOperation, Place
      <4>4. QED
        BY <2>1, <4>2, <4>3 DEF Member
    <3>4. QED
      BY <3>2, <3>3
  <2>5. QED
    BY <2>1, <2>2, <2>3, <2>4
<1>10. /\ After("next", After("next", nx, s), stores) = After("next", nxA, s)
       /\ After("prev", After("prev", pv, s), stores) = After("prev", pvA, s)
  BY <1>1, <1>8, <1>9, AfterCommutes
<1>11. /\ After("next", nx, s) \in [Node -> Node] /\ After("prev", pv, s) \in [Node -> Node]
       /\ wh2 \in [Pcb -> Place]
  BY <1>1, <1>2, <1>8, AfterType
<1>12. Landed(wh2) = [Landed(wh) EXCEPT ![p] = list]
  BY <1>1, <1>2 DEF Landed
<1>13. InOperation(wh2)
  <2>1. stores # <<>> => /\ wh2[change.pcb] = wh[change.pcb]
                        /\ Member(wh2, change.list) = Member(wh, change.list)
    BY <1>1, <1>2 DEF Member
  <2>2. QED
    BY <1>1, <2>1 DEF InOperation
<1>14. QED
  BY <1>1, <1>5, <1>7, <1>10, <1>11, <1>12, <1>13 DEF Sound

\* list_del() on links that will be sound: they will be sound.
LEMMA OutKeeps ==
  ASSUME NEW nx, NEW pv, NEW wh, Sound(nx, pv, wh),
         NEW p \in Pcb, wh[p] \in ListHead, stores # <<>> => wh[p] # change.list,
         NEW to \in {"nowhere", "device"}
  PROVE Sound(After("next", nx, Del(nx, pv, p)), After("prev", pv, Del(nx, pv, p)),
              [wh EXCEPT ![p] = to])
<1> DEFINE nxA == After("next", nx, stores)
           pvA == After("prev", pv, stores)
           s == Del(nxA, pvA, p)
           wh2 == [wh EXCEPT ![p] = to]
<1>1. /\ nx \in [Node -> Node] /\ pv \in [Node -> Node] /\ wh \in [Pcb -> Place]
      /\ stores \in Seq(StoreType) /\ Apart(stores)
      /\ change \in [pcb : Pcb, list : Place, to : Place]
      /\ InOperation(wh) /\ LinksOK(nxA, pvA, Landed(wh))
  BY DEF Sound
<1>2. /\ to \in Place /\ to \notin ListHead /\ p \in Node /\ change.pcb \in Pcb
      /\ wh[p] \in Node /\ wh[p] \notin Pcb
  BY <1>1, HeadsAreNodes DEF Node, Place, ListHead
<1>3. stores # <<>> => p # change.pcb
  BY <1>1 DEF InOperation, ListHead
<1>4. \A i \in DOMAIN stores : stores[i].at # p
  <2>1. SUFFICES ASSUME NEW i \in DOMAIN stores PROVE stores[i].at # p
    OBVIOUS
  <2>2. stores # <<>>
    BY <1>1, <2>1
  <2>3. stores[i].at \in {change.pcb} \cup Member(wh, change.list) /\ change.list \in Place
    BY <1>1, <2>2 DEF InOperation
  <2>4. QED
    BY <1>2, <1>3, <2>2, <2>3, HeadsAreNodes DEF Member
<1>5. nxA[p] = nx[p] /\ pvA[p] = pv[p]
  BY <1>2, <1>4, AfterElse
<1>6. s = Del(nx, pv, p)
  BY <1>5 DEF Del
<1>7. Landed(wh)[p] = wh[p]
  BY <1>1, <1>3 DEF Landed
<1>8. LinksOK(After("next", nxA, s), After("prev", pvA, s), [Landed(wh) EXCEPT ![p] = to])
  BY <1>1, <1>2, <1>7, DelLinked
<1>9. /\ s \in Seq(StoreType) /\ Apart(s)
      /\ \A i \in DOMAIN s : s[i].at \in Member(Landed(wh), wh[p])
  BY <1>1, <1>7, DelStored
<1> HIDE DEF s
<1>10. \A i \in DOMAIN s, j \in DOMAIN stores : s[i].at # stores[j].at
  <2>1. SUFFICES ASSUME stores # <<>>, NEW i \in DOMAIN s, NEW j \in DOMAIN stores,
                        s[i].at \in Member(Landed(wh), wh[p])
                 PROVE s[i].at # stores[j].at
    BY <1>1, <1>9
  <2>2. stores[j].at = change.pcb \/ stores[j].at \in Member(wh, change.list)
    BY <1>1, <2>1 DEF InOperation
  <2>3. change.pcb \notin Member(Landed(wh), wh[p])
    BY <1>1, <1>2, <2>1 DEF InOperation, Landed, Member, Place, ListHead
  <2>4. \A x \in Member(Landed(wh), wh[p]) : x # change.pcb => x \notin Member(wh, change.list)
    <3>1. SUFFICES ASSUME NEW x \in Member(Landed(wh), wh[p]), x # change.pcb
                   PROVE x \notin Member(wh, change.list)
      OBVIOUS
    <3>2. CASE x = wh[p]
      BY <1>1, <1>2, <2>1, <3>2 DEF Member
    <3>3. CASE x # wh[p]
      <4>1. x \in Pcb /\ Landed(wh)[x] = wh[p]
        BY <3>1, <3>3 DEF Member
      <4>2. wh[x] = wh[p]
        BY <1>1, <2>1, <3>1, <4>1 DEF Landed
      <4>3. x # change.list
        BY <1>1, <2>1, <4>1, HeadsAreNodes DEF InOperation, Place
      <4>4. QED
        BY <2>1, <4>2, <4>3 DEF Member
    <3>4. QED
      BY <3>2, <3>3
  <2>5. QED
    BY <2>1, <2>2, <2>3, <2>4
<1>11. /\ After("next", After("next", nx, s), stores) = After("next", nxA, s)
       /\ After("prev", After("prev", pv, s), stores) = After("prev", pvA, s)
  BY <1>1, <1>9, <1>10, AfterCommutes
<1>12. /\ After("next", nx, s) \in [Node -> Node] /\ After("prev", pv, s) \in [Node -> Node]
       /\ wh2 \in [Pcb -> Place]
  BY <1>1, <1>2, <1>9, AfterType
<1>13. Landed(wh2) = [Landed(wh) EXCEPT ![p] = to]
  BY <1>1, <1>2, <1>3 DEF Landed
<1>14. InOperation(wh2)
  <2>1. stores # <<>> => /\ wh2[change.pcb] = wh[change.pcb]
                        /\ Member(wh, change.list) \subseteq Member(wh2, change.list)
    BY <1>1, <1>2, <1>3 DEF Member
  <2>2. QED
    BY <1>1, <2>1 DEF InOperation
<1>15. QED
  BY <1>1, <1>6, <1>8, <1>11, <1>12, <1>13, <1>14 DEF Sound

\* Both: a PCB moves from a list to the end of another.
LEMMA MoveKeeps ==
  ASSUME Sound(next, prev, where), NEW p \in Pcb, where[p] \in ListHead,
         NEW list \in ListHead, Move(p, list), UNCHANGED <<stores, change>>,
         stores # <<>> => where[p] # change.list /\ list # change.list
  PROVE Sound(next', prev', where')
<1> DEFINE nx == After("next", next, Del(next, prev, p))
           pv == After("prev", prev, Del(next, prev, p))
           wh == [where EXCEPT ![p] = "device"]
<1>1. Sound(nx, pv, wh)
  BY OutKeeps
<1>2. where \in [Pcb -> Place] /\ InOperation(where) /\ wh[p] = "device" /\ wh[p] \notin ListHead
  BY DEF Sound, ListHead
<1>3. stores # <<>> => p # change.pcb /\ wh[p] # change.list
  BY <1>2 DEF InOperation, ListHead
<1> HIDE DEF nx, pv, wh
<1>4. Sound(After("next", nx, AddTail(nx, pv, p, list)),
            After("prev", pv, AddTail(nx, pv, p, list)), [wh EXCEPT ![p] = list])
  BY <1>1, <1>2, <1>3, InsertKeeps
<1>5. where' = [wh EXCEPT ![p] = list]
  BY <1>2 DEF Move, wh
<1>6. /\ next' = After("next", nx, AddTail(nx, pv, p, list))
      /\ prev' = After("prev", pv, AddTail(nx, pv, p, list))
  BY DEF Move, nx, pv
<1>7. QED
  BY <1>4, <1>5, <1>6
------------------------------------------------------------------------------
(* The invariant.                                                           *)

\* Nothing of the links or the SSI is concerned.
LEMMA SoundUnchanged ==
  ASSUME Sound(next, prev, where), UNCHANGED <<links, stores, change>>
  PROVE Sound(next, prev, where)'
BY DEF Sound, InOperation, LinksOK, Linked, Landed, links

\* A handler has moved p, which is in no operation of the SSI, into a list.
LEMMA FitKept ==
  ASSUME CallsFit, NEW p \in Pcb, NEW list \in ListHead,
         where \in [Pcb -> Place], InOperation(where),
         where' = [where EXCEPT ![p] = list], where[p] # "nowhere",
         stores # <<>> => p # change.pcb,
         UNCHANGED <<current_process, calls, stores, change>>
  PROVE CallsFit'
<1>1. SUFFICES ASSUME calls # <<>> PROVE CallsFit'
  BY DEF CallsFit
<1>2. current_process = ssi_pcb
  BY <1>1 DEF CallsFit
<1>3. PICK q \in Pcb \ {ssi_pcb}, l \in ListHead : Fit(q, l)
  BY <1>1 DEF CallsFit
<1>4. Landed(where)[q] = "nowhere" => Landed(where')[q] = "nowhere"
  BY DEF Landed
<1>5. Landed(where)' = Landed(where')
  BY DEF Landed
<1>6. where[q] \in ListHead => where'[q] \in ListHead
  OBVIOUS
<1>7. Fit(q, l)'
  BY <1>3, <1>4, <1>5, <1>6 DEF Fit, Call
<1>8. QED
  BY <1>2, <1>3, <1>7 DEF CallsFit

\* Without a clash the SSI is not in an operation on a list that a handler changes.
LEMMA Unclashed ==
  ASSUME NEW lists, Changes(lists), ~clashed'
  PROVE  stores # <<>> => change.list \notin lists
BY DEF Changes

\* DeviceInterrupt and WakeOne.
LEMMA InterruptKeeps ==
  ASSUME IInv, ~clashed', NEW p \in Pcb,
         DeviceInterrupt(p) \/ WakeOne(p)
  PROVE IInv'
<1>1. /\ Sound(next, prev, where) /\ where \in [Pcb -> Place] /\ InOperation(where)
      /\ next \in [Node -> Node] /\ stores \in Seq(StoreType)
  BY DEF IInv, Sound
<1>2. UNCHANGED <<current_process, calls, stores, change, timer>>
  BY DEF DeviceInterrupt, WakeOne, ssi
<1>3. /\ "readyQueue" \in ListHead /\ "pseudoClockQueue" \in ListHead
      /\ "device" \notin ListHead
  BY DEF ListHead
<1>4. CASE DeviceInterrupt(p)
  <2>1. stores # <<>> => /\ change.list # "readyQueue" /\ change.list # "device"
                        /\ p # change.pcb
    BY <1>1, <1>4, Unclashed DEF DeviceInterrupt, InOperation, ListHead
  <2>2. where[p] = "device" /\ Insert(p, "readyQueue")
    BY <1>4 DEF DeviceInterrupt
  <2>3. Sound(next', prev', where')
    <3>1. Sound(After("next", next, AddTail(next, prev, p, "readyQueue")),
                After("prev", prev, AddTail(next, prev, p, "readyQueue")),
                [where EXCEPT ![p] = "readyQueue"])
      BY <1>1, <1>3, <2>1, <2>2, InsertKeeps
    <3>2. QED
      BY <2>2, <3>1 DEF Insert
  <2>4. where' = [where EXCEPT ![p] = "readyQueue"]
    BY <2>2 DEF Insert
  <2>5. CallsFit'
    BY <1>1, <1>2, <1>3, <2>1, <2>2, <2>4, FitKept DEF IInv
  <2>6. CurrentUnlinked'
    BY <1>1, <1>2, <2>2, <2>4, ListAssumption DEF IInv, CurrentUnlinked, Apace, Node
  <2>7. Sound(next, prev, where)'
    BY <1>2, <2>3 DEF Sound, InOperation, LinksOK, Linked, Landed
  <2>8. QED
    BY <1>2, <2>5, <2>6, <2>7 DEF IInv, Apace
<1>5. CASE WakeOne(p)
  <2>1. stores # <<>> => change.list \notin {"readyQueue", "pseudoClockQueue"}
    BY <1>5, Unclashed DEF WakeOne
  <2>2. where[p] = "pseudoClockQueue" /\ Move(p, "readyQueue")
    <3>1. /\ stores # <<>> => \A i \in DOMAIN stores : stores[i].at # "pseudoClockQueue"
      BY <1>1, <2>1, HeadsAreNodes DEF InOperation, Member, ListHead, Sound
    <3>2. After("next", next, stores)["pseudoClockQueue"] = next["pseudoClockQueue"]
      BY <1>1, <1>3, <3>1, HeadsAreNodes, AfterElse
    <3>3. p \in Member(Landed(where), "pseudoClockQueue")
      <4>1. "pseudoClockQueue" \in Member(Landed(where), "pseudoClockQueue")
        BY DEF Member
      <4>2. QED
        BY <1>1, <1>3, <1>5, <3>2, <4>1 DEF WakeOne, Sound, LinksOK, Linked
    <3>4. Landed(where)[p] = "pseudoClockQueue"
      BY <1>3, <3>3, HeadsAreNodes DEF Member
    <3>5. where[p] = "pseudoClockQueue"
      BY <1>1, <2>1, <3>4 DEF Landed, InOperation, Sound
    <3>6. QED
      BY <1>5, <3>5 DEF WakeOne
  <2>3. Sound(next', prev', where')
    BY <1>1, <1>2, <1>3, <2>1, <2>2, MoveKeeps
  <2>4. where' = [where EXCEPT ![p] = "readyQueue"] /\ (stores # <<>> => p # change.pcb)
    BY <1>1, <2>1, <2>2 DEF Move, InOperation
  <2>5. CallsFit'
    BY <1>1, <1>2, <1>3, <2>2, <2>4, FitKept DEF IInv
  <2>6. CurrentUnlinked'
    BY <1>1, <1>2, <2>2, <2>4, ListAssumption DEF IInv, CurrentUnlinked, Apace, Node
  <2>7. Sound(next, prev, where)'
    BY <1>2, <2>3 DEF Sound, InOperation, LinksOK, Linked, Landed
  <2>8. QED
    BY <1>2, <2>5, <2>6, <2>7 DEF IInv, Apace
<1>6. QED
  BY <1>4, <1>5

\* With no operation of the SSI under way the links are sound as they are.
LEMMA SoundIdle ==
  ASSUME stores = <<>>
  PROVE /\ Sound(next, prev, where) =>
             /\ LinksOK(next, prev, where)
             /\ change \in [pcb : Pcb, list : Place, to : Place]
        /\ LinksOK(next, prev, where) /\ change \in [pcb : Pcb, list : Place, to : Place]
             => Sound(next, prev, where)
<1>1. next \in [Node -> Node] /\ prev \in [Node -> Node] =>
        After("next", next, stores) = next /\ After("prev", prev, stores) = prev
  BY AfterNothing
<1>2. stores \in Seq(StoreType) /\ Apart(stores)
  BY DEF Apart
<1>3. QED
  BY <1>1, <1>2 DEF Sound, LinksOK, Landed, InOperation

\* The handlers that run when the SSI is in no operation.
LEMMA HandlerKeeps ==
  ASSUME IInv, NEW p \in Pcb, NEW list \in ListHead,
         Dispatch(p) \/ PutAway(list) \/ SendMessage(p)
  PROVE IInv'
<1>1. stores = <<>> /\ calls = <<>>
  BY ListAssumption DEF IInv, Apace, CallsFit, Dispatch, PutAway, SendMessage, Idle, Node
<1>2. UNCHANGED <<calls, stores, change, timer>>
  BY DEF Dispatch, PutAway, SendMessage, ssi
<1>3. Sound(next, prev, where) /\ LinksOK(next, prev, where)
  BY <1>1, SoundIdle DEF IInv
<1>4. /\ where \in [Pcb -> Place] /\ "nowhere" \notin ListHead
      /\ "readyQueue" \in ListHead /\ "receiveMessageQueue" \in ListHead
  BY <1>3 DEF LinksOK, ListHead
<1>5. ASSUME Sound(next', prev', where') PROVE Sound(next, prev, where)'
  BY <1>2, <1>5 DEF Sound, InOperation, LinksOK, Linked, Landed
<1>6. CallsFit'
  BY <1>1, <1>2 DEF CallsFit
<1>7. CASE Dispatch(p)
  <2>1. where[p] = "readyQueue" /\ p \in Pcb
    BY <1>3, <1>4, <1>7 DEF Dispatch, Empty, LinksOK, Linked, Member
  <2>2. Sound(next', prev', where')
    <3>1. Sound(After("next", next, Del(next, prev, p)), After("prev", prev, Del(next, prev, p)),
                [where EXCEPT ![p] = "nowhere"])
      BY <1>1, <1>3, <1>4, <2>1, OutKeeps
    <3>2. QED
      BY <1>7, <3>1 DEF Dispatch, Out
  <2>3. CurrentUnlinked' /\ Apace'
    BY <1>1, <1>2, <1>4, <1>7, <2>1 DEF Dispatch, Out, CurrentUnlinked, Apace, IInv
  <2>4. QED
    BY <1>5, <1>6, <2>2, <2>3 DEF IInv
<1>8. CASE PutAway(list)
  <2>1. current_process \in Pcb /\ where[current_process] = "nowhere"
    BY <1>8 DEF PutAway, IInv, Apace, CurrentUnlinked
  <2>2. Sound(next', prev', where')
    <3>1. Sound(After("next", next, AddTail(next, prev, current_process, list)),
                After("prev", prev, AddTail(next, prev, current_process, list)),
                [where EXCEPT ![current_process] = list])
      BY <1>1, <1>3, <1>4, <2>1, InsertKeeps
    <3>2. QED
      BY <1>8, <3>1 DEF PutAway, Insert
  <2>3. CurrentUnlinked' /\ Apace'
    BY <1>1, <1>2, <1>8 DEF PutAway, CurrentUnlinked, Apace, IInv
  <2>4. QED
    BY <1>5, <1>6, <2>2, <2>3 DEF IInv
<1>9. CASE SendMessage(p)
  <2>1. where[p] = "receiveMessageQueue" /\ Move(p, "readyQueue")
    BY <1>9 DEF SendMessage
  <2>2. Sound(next', prev', where')
    BY <1>1, <1>2, <1>3, <1>4, <2>1, MoveKeeps
  <2>3. where' = [where EXCEPT ![p] = "readyQueue"] /\ current_process' = current_process
    BY <1>9, <2>1 DEF Move, SendMessage
  <2>4. CurrentUnlinked' /\ Apace'
    BY <1>1, <1>2, <1>4, <2>1, <2>3, ListAssumption
       DEF CurrentUnlinked, Apace, IInv, Node
  <2>5. QED
    BY <1>5, <1>6, <2>2, <2>4 DEF IInv
<1>10. QED
  BY <1>7, <1>8, <1>9

\* The SSI takes up a request.
LEMMA ServeKeeps ==
  ASSUME IInv, NEW p \in Pcb, SsiServe(p)
  PROVE IInv'
<1>1. /\ stores = <<>> /\ current_process = ssi_pcb /\ where[ssi_pcb] = "nowhere"
      /\ UNCHANGED <<next, prev, current_process, stores, change, timer>>
  BY ListAssumption DEF SsiServe, SsiRuns, Idle, IInv, CurrentUnlinked, Node
<1>2. /\ LinksOK(next, prev, where) /\ change \in [pcb : Pcb, list : Place, to : Place]
      /\ where \in [Pcb -> Place] /\ ssi_pcb \in Pcb
  BY <1>1, SoundIdle, ListAssumption DEF IInv, LinksOK
<1>3. Apace'
  BY <1>1 DEF IInv, Apace
<1>4. /\ "nowhere" \notin ListHead /\ "device" \notin ListHead
      /\ "readyQueue" \in ListHead /\ "receiveMessageQueue" \in ListHead
      /\ "pseudoClockQueue" \in ListHead /\ "pcbFree_h" \in ListHead
  BY DEF ListHead
<1>5. CASE KillProcess(p) /\ where[p] = "device"
  <2>1. /\ where' = [where EXCEPT ![p] = "nowhere"] /\ calls' = <<Call("add", p, "pcbFree_h")>>
        /\ where[p] = "device" /\ p # ssi_pcb
    BY <1>1, <1>4, <1>5 DEF KillProcess
  <2>2. \A list \in ListHead : Member(where', list) = Member(where, list)
    BY <1>2, <1>4, <2>1 DEF Member
  <2>3. LinksOK(next, prev, where')
    BY <1>2, <2>1, <2>2 DEF LinksOK, Linked, Place
  <2>4. Sound(next, prev, where)'
    <3>1. LinksOK(next, prev, where)' /\ (change \in [pcb : Pcb, list : Place, to : Place])'
          /\ (stores = <<>>)'
      BY <1>1, <1>2, <2>3 DEF LinksOK, Linked
    <3>2. (After("next", next, stores) = next /\ After("prev", prev, stores) = prev)'
      BY <3>1, AfterNothing DEF LinksOK
    <3>3. (stores \in Seq(StoreType) /\ Apart(stores))'
      BY <3>1 DEF Apart
    <3>4. QED
      BY <3>1, <3>2, <3>3 DEF Sound, LinksOK, Linked, Landed, InOperation
  <2>5. Landed(where)'[p] = "nowhere"
    BY <1>1, <1>2, <2>1 DEF Landed
  <2>6. CallsFit'
    BY <1>1, <1>4, <2>1, <2>5 DEF CallsFit, Fit
  <2>7. CurrentUnlinked'
    BY <1>1, <1>2, <2>1 DEF CurrentUnlinked
  <2>8. QED
    BY <1>3, <2>4, <2>6, <2>7 DEF IInv
<1>6. CASE ~(KillProcess(p) /\ where[p] = "device")
  <2>1. /\ where' = where /\ where[p] \in ListHead /\ p # ssi_pcb
        /\ \E list \in ListHead :
             calls' \in {<<Call("del", p, "device")>>,
                        <<Call("del", p, "nowhere"), Call("add", p, list)>>,
                        <<Call("del", p, "nowhere"), Call("init", p, "nowhere"),
                          Call("add", p, list)>>}
    <3>1. CASE CreateProcess(p)
      <4>1. where[p] = "pcbFree_h"
        BY <1>2, <1>4, <3>1 DEF CreateProcess, Empty, LinksOK, Linked, Member
      <4>2. QED
        BY <1>1, <1>4, <3>1, <4>1 DEF CreateProcess
    <3>2. CASE WaitForClock(p)
      BY <1>1, <1>4, <3>2 DEF WaitForClock
    <3>3. CASE DoIO(p)
      BY <1>1, <1>4, <3>3 DEF DoIO
    <3>4. CASE KillProcess(p) /\ where[p] # "device"
      BY <1>1, <1>4, <3>4 DEF KillProcess
    <3>5. QED
      BY <1>6, <3>1, <3>2, <3>3, <3>4 DEF SsiServe
  <2>2. Sound(next, prev, where)'
    BY <1>1, <2>1, SoundUnchanged DEF IInv, links
  <2>3. CallsFit'
    BY <1>1, <2>1 DEF CallsFit, Fit
  <2>4. CurrentUnlinked'
    BY <1>1, <2>1 DEF CurrentUnlinked, IInv
  <2>5. QED
    BY <1>3, <2>2, <2>3, <2>4 DEF IInv
<1>7. QED
  BY <1>5, <1>6

\* The stores of INIT_LIST_HEAD() and the two fields after them.
LEMMA InitStored ==
  ASSUME NEW nx \in [Node -> Node], NEW pv \in [Node -> Node], NEW p \in Pcb
  PROVE /\ InitStores(p) \in Seq(StoreType) /\ Apart(InitStores(p)) /\ InitStores(p) # <<>>
        /\ \A i \in DOMAIN InitStores(p) : InitStores(p)[i].at = p
        /\ After("next", nx, InitStores(p)) = [nx EXCEPT ![p] = p]
        /\ After("prev", pv, InitStores(p)) = [pv EXCEPT ![p] = p]
<1> DEFINE s == InitStores(p)
<1>1. /\ DOMAIN s = 1..2 /\ s # <<>>
      /\ s[1] = Store("next", p, p) /\ s[2] = Store("prev", p, p)
  BY DEF InitStores
<1>2. p \in Node /\ Store("next", p, p) \in StoreType /\ Store("prev", p, p) \in StoreType
  BY DEF Store, StoreType, Node
<1>3. s \in Seq(StoreType)
  BY <1>2 DEF InitStores
<1> HIDE DEF s
<1>4. Apart(s) /\ \A i \in DOMAIN s : s[i].at = p
  BY <1>1 DEF Apart, Store
<1>5. ASSUME NEW n \in Node
      PROVE /\ After("next", nx, s)[n] = [nx EXCEPT ![p] = p][n]
            /\ After("prev", pv, s)[n] = [pv EXCEPT ![p] = p][n]
  <2>1. /\ 1 \in DOMAIN s /\ s[1].field = "next" /\ s[1].at = p /\ s[1].to = p
        /\ 2 \in DOMAIN s /\ s[2].field = "prev" /\ s[2].at = p /\ s[2].to = p
    BY <1>1 DEF Store
  <2>2. After("next", nx, s)[p] = p /\ After("prev", pv, s)[p] = p
    BY <1>3, <1>4, <2>1, AfterAt
  <2>3. n # p => After("next", nx, s)[n] = nx[n] /\ After("prev", pv, s)[n] = pv[n]
    BY <1>4, AfterElse
  <2>4. QED
    BY <1>2, <2>2, <2>3
<1>6. /\ After("next", nx, s) = [nx EXCEPT ![p] = p]
      /\ After("prev", pv, s) = [pv EXCEPT ![p] = p]
  <2>1. After("next", nx, s) \in [Node -> Node] /\ After("prev", pv, s) \in [Node -> Node]
    BY <1>3, <1>4, AfterType
  <2>2. [nx EXCEPT ![p] = p] \in [Node -> Node] /\ [pv EXCEPT ![p] = p] \in [Node -> Node]
    BY <1>2
  <2>3. QED
    BY <1>5, <2>1, <2>2
<1>7. QED
  BY <1>1, <1>3, <1>4, <1>6 DEF s

\* The SSI calls an operation: from sound links it loads the right pointers.
LEMMA CallKeeps ==
  ASSUME IInv, SsiCall
  PROVE IInv'
<1>1. /\ stores = <<>> /\ calls # <<>> /\ current_process = ssi_pcb /\ timer = FALSE
      /\ UNCHANGED <<next, prev, where, current_process, timer>> /\ calls' = Tail(calls)
  BY DEF SsiCall, SsiRuns, links, IInv, Apace
<1>2. /\ LinksOK(next, prev, where) /\ next \in [Node -> Node] /\ prev \in [Node -> Node]
      /\ where \in [Pcb -> Place] /\ Landed(where) = where
  BY <1>1, SoundIdle DEF IInv, LinksOK, Landed
<1>3. PICK p \in Pcb \ {ssi_pcb}, list \in ListHead : Fit(p, list)
  BY <1>1 DEF IInv, CallsFit
<1>4. /\ "nowhere" \notin ListHead /\ "device" \notin ListHead
      /\ {"nowhere", "device"} \subseteq Place /\ ListHead \subseteq Place
  BY DEF ListHead, Place
<1>5. Apace' /\ CurrentUnlinked'
  BY <1>1 DEF IInv, Apace, CurrentUnlinked
<1>6. CASE calls \in {<<Call("add", p, list)>>,
                      <<Call("init", p, "nowhere"), Call("add", p, list)>>}
           /\ where[p] = "nowhere"
  <2>1. CASE calls = <<Call("add", p, list)>>
    <3>1. /\ stores' = AddTail(next, prev, p, list) /\ calls' = <<>>
          /\ change' = [pcb |-> p, list |-> list, to |-> list]
      BY <1>1, <2>1 DEF SsiCall, Call
    <3>2. /\ stores' \in Seq(StoreType) /\ stores' # <<>> /\ Apart(stores)'
          /\ \A i \in DOMAIN stores' : stores'[i].at \in {p} \cup Member(where, list)
      BY <1>2, <1>4, <1>6, <3>1, AddStored DEF Apart
    <3>3. LinksOK(After("next", next, stores'), After("prev", prev, stores'),
                  [where EXCEPT ![p] = list])
      BY <1>2, <1>4, <1>6, <3>1, AddLinked
    <3>4. InOperation(where)'
      BY <1>1, <1>4, <1>6, <3>1, <3>2, HeadsAreNodes DEF InOperation, Member, Node
    <3>5. Sound(next, prev, where)'
      BY <1>1, <1>2, <1>4, <3>1, <3>2, <3>3, <3>4 DEF Sound, Landed, LinksOK, Linked
    <3>6. QED
      BY <1>5, <3>1, <3>5 DEF IInv, CallsFit
  <2>2. CASE calls = <<Call("init", p, "nowhere"), Call("add", p, list)>>
    <3>1. /\ stores' = InitStores(p) /\ calls' = <<Call("add", p, list)>>
          /\ change' = [pcb |-> p, list |-> "nowhere", to |-> "nowhere"]
      BY <1>1, <2>2 DEF SsiCall, Call
    <3>2. /\ stores' \in Seq(StoreType) /\ stores' # <<>> /\ Apart(stores)'
          /\ \A i \in DOMAIN stores' : stores'[i].at = p
          /\ After("next", next, stores') = [next EXCEPT ![p] = p]
          /\ After("prev", prev, stores') = [prev EXCEPT ![p] = p]
      BY <1>2, <3>1, InitStored DEF Apart
    <3>3. LinksOK([next EXCEPT ![p] = p], [prev EXCEPT ![p] = p], where)
      <4>1. p \in Node /\ \A l \in ListHead : p \notin Member(where, l)
        BY <1>4, <1>6, HeadsAreNodes DEF Member, Node
      <4>2. \A l \in ListHead : \A n \in Member(where, l) : n \in Node
        BY HeadsAreNodes DEF Member, Node
      <4>3. QED
        BY <1>2, <4>1, <4>2 DEF LinksOK, Linked
    <3>4. InOperation(where)'
      BY <1>1, <1>6, <3>1, <3>2 DEF InOperation
    <3>5. (Landed(where) = where)'
      BY <1>1, <1>2, <1>6, <3>1 DEF Landed
    <3>6. Sound(next, prev, where)'
      <4>1. change' \in [pcb : Pcb, list : Place, to : Place]
        BY <1>4, <3>1
      <4>2. LinksOK(After("next", next, stores)', After("prev", prev, stores)',
                    Landed(where)')
        BY <1>1, <3>2, <3>3, <3>5 DEF After
      <4>3. QED
        BY <1>1, <1>2, <3>2, <3>4, <4>1, <4>2 DEF Sound, LinksOK, Linked
    <3>7. CallsFit'
      BY <1>1, <1>3, <1>6, <3>1, <3>5 DEF CallsFit, Fit, Call
    <3>8. QED
      BY <1>5, <3>6, <3>7 DEF IInv
  <2>3. QED
    BY <1>6, <2>1, <2>2
<1>7. CASE calls \in {<<Call("del", p, "device")>>,
                      <<Call("del", p, "nowhere"), Call("add", p, list)>>,
                      <<Call("del", p, "nowhere"), Call("init", p, "nowhere"),
                        Call("add", p, list)>>}
           /\ where[p] \in ListHead
  <2>1. PICK to \in {"device", "nowhere"} :
          /\ stores' = Del(next, prev, p)
          /\ change' = [pcb |-> p, list |-> where[p], to |-> to]
          /\ \/ calls' = <<>>
             \/ /\ to = "nowhere"
                /\ calls' \in {<<Call("add", p, list)>>,
                               <<Call("init", p, "nowhere"), Call("add", p, list)>>}
    <3>1. CASE calls = <<Call("del", p, "device")>>
      BY <1>1, <3>1 DEF SsiCall, Call
    <3>2. CASE calls = <<Call("del", p, "nowhere"), Call("add", p, list)>>
      BY <1>1, <3>2 DEF SsiCall, Call
    <3>3. CASE calls = <<Call("del", p, "nowhere"), Call("init", p, "nowhere"),
                         Call("add", p, list)>>
      BY <1>1, <3>3 DEF SsiCall, Call
    <3>4. QED
      BY <1>7, <3>1, <3>2, <3>3
  <2>2. /\ stores' \in Seq(StoreType) /\ stores' # <<>> /\ Apart(stores)'
        /\ \A i \in DOMAIN stores' : stores'[i].at \in Member(where, where[p])
    BY <1>2, <1>7, <2>1, DelStored DEF Apart
  <2>3. LinksOK(After("next", next, stores'), After("prev", prev, stores'),
                [where EXCEPT ![p] = to])
    BY <1>2, <1>4, <1>7, <2>1, DelLinked
  <2>4. InOperation(where)'
    BY <1>1, <1>4, <1>7, <2>1, <2>2, HeadsAreNodes DEF InOperation, Member, Node
  <2>5. (Landed(where))' = [where EXCEPT ![p] = to]
    BY <1>1, <2>1, <2>2 DEF Landed
  <2>6. Sound(next, prev, where)'
    <3>1. change' \in [pcb : Pcb, list : Place, to : Place]
      BY <1>4, <1>7, <2>1
    <3>2. LinksOK(After("next", next, stores)', After("prev", prev, stores)', Landed(where)')
      BY <1>1, <2>3, <2>5 DEF After
    <3>3. QED
      BY <1>1, <1>2, <2>2, <2>4, <3>1, <3>2 DEF Sound, LinksOK, Linked
  <2>7. CallsFit'
    BY <1>1, <1>2, <1>3, <2>1, <2>5 DEF CallsFit, Fit, Call
  <2>8. QED
    BY <1>5, <2>6, <2>7 DEF IInv
<1>8. QED
  BY <1>2, <1>3, <1>6, <1>7 DEF Fit

\* The SSI stores: the links after the stores that are left are the same.
LEMMA StoreKeeps ==
  ASSUME IInv, SsiStore
  PROVE IInv'
<1>1. /\ stores # <<>> /\ current_process = ssi_pcb /\ timer = FALSE
      /\ UNCHANGED <<current_process, calls, change, timer>> /\ stores' = Tail(stores)
      /\ next' = After("next", next, <<stores[1]>>)
      /\ prev' = After("prev", prev, <<stores[1]>>)
      /\ where' = IF Len(stores) = 1 THEN [where EXCEPT ![change.pcb] = change.to] ELSE where
  BY DEF SsiStore, SsiRuns, IInv, Apace
<1>2. /\ next \in [Node -> Node] /\ prev \in [Node -> Node] /\ where \in [Pcb -> Place]
      /\ stores \in Seq(StoreType) /\ Apart(stores)
      /\ change \in [pcb : Pcb, list : Place, to : Place] /\ InOperation(where)
      /\ LinksOK(After("next", next, stores), After("prev", prev, stores), Landed(where))
  BY DEF IInv, Sound
<1>3. /\ After("next", next', stores') = After("next", next, stores)
      /\ After("prev", prev', stores') = After("prev", prev, stores)
      /\ stores' \in Seq(StoreType) /\ Apart(stores')
      /\ next' \in [Node -> Node] /\ prev' \in [Node -> Node]
  BY <1>1, <1>2, AfterFirst
<1>4. /\ Len(stores) = 1 => stores' = <<>>
      /\ Len(stores) # 1 => stores' # <<>>
      /\ \A i \in DOMAIN stores' : i + 1 \in DOMAIN stores /\ stores'[i] = stores[i + 1]
  <2>1. ASSUME NEW s \in Seq(StoreType), s # <<>>
        PROVE /\ Len(s) = 1 => Tail(s) = <<>>
              /\ Len(s) # 1 => Tail(s) # <<>>
              /\ \A i \in DOMAIN Tail(s) : i + 1 \in DOMAIN s /\ Tail(s)[i] = s[i + 1]
    <3>1. /\ Tail(s) \in Seq(StoreType) /\ Len(Tail(s)) = Len(s) - 1
          /\ \A i \in DOMAIN Tail(s) : i + 1 \in DOMAIN s /\ Tail(s)[i] = s[i + 1]
      BY <2>1
    <3>2. Len(Tail(s)) = 0 <=> Len(s) = 1
      BY <3>1
    <3>3. QED
      BY <3>1, <3>2, EmptySeq
  <2>2. QED
    BY <1>1, <1>2, <2>1
<1>5. Landed(where)' = Landed(where) /\ where' \in [Pcb -> Place]
  BY <1>1, <1>2, <1>4 DEF Landed
<1>6. InOperation(where)'
  BY <1>1, <1>2, <1>4 DEF InOperation
<1>7. Sound(next, prev, where)'
  BY <1>1, <1>2, <1>3, <1>5, <1>6 DEF Sound, LinksOK, Linked, Apart
<1>8. Apace' /\ CurrentUnlinked'
  BY <1>1, <1>2, <1>4, ListAssumption DEF IInv, Apace, CurrentUnlinked, InOperation
<1>9. CallsFit'
  <2>1. SUFFICES ASSUME calls # <<>> PROVE CallsFit'
    BY <1>1 DEF CallsFit
  <2>2. PICK p \in Pcb \ {ssi_pcb}, list \in ListHead : Fit(p, list)
    BY <2>1 DEF IInv, CallsFit
  <2>3. Fit(p, list)'
    BY <1>1, <1>5, <2>2 DEF Fit, Call
  <2>4. QED
    BY <1>1, <2>2, <2>3 DEF CallsFit
<1>10. QED
  BY <1>7, <1>8, <1>9 DEF IInv

\* Every step that is no clash keeps the invariant.
LEMMA StepKeeps ==
  ASSUME IInv, ~clashed', [Next]_vars
  PROVE IInv'
<1>1. CASE SsiCall
  BY <1>1, CallKeeps
<1>2. CASE SsiStore
  BY <1>2, StoreKeeps
<1>3. CASE IntervalTimer \/ WakeEnd
  <2>1. UNCHANGED <<next, prev, where, current_process, calls, stores, change>>
    BY <1>3 DEF IntervalTimer, WakeEnd, links, ssi
  <2>2. Apace'
    <3>1. CASE IntervalTimer
      BY <2>1, <3>1 DEF IInv, Apace, IntervalTimer
    <3>2. CASE WakeEnd
      BY <2>1, <3>2 DEF IInv, Apace, WakeEnd
    <3>3. QED
      BY <1>3, <3>1, <3>2
  <2>3. Sound(next, prev, where)'
    BY <2>1, SoundUnchanged DEF IInv, links
  <2>4. CallsFit' /\ CurrentUnlinked'
    BY <2>1 DEF IInv, CallsFit, Fit, Landed, CurrentUnlinked
  <2>5. QED
    BY <2>2, <2>3, <2>4 DEF IInv
<1>4. CASE ReceiveMessage \/ ProcessorLocalTimer \/ Die
  <2>1. PICK list \in ListHead : PutAway(list)
    BY <1>4 DEF ReceiveMessage, ProcessorLocalTimer, Die, ListHead
  <2>2. PICK p : p \in Pcb
    BY ListAssumption
  <2>3. QED
    BY <2>1, <2>2, HandlerKeeps
<1>5. CASE \E p \in Pcb : SsiServe(p) \/ DeviceInterrupt(p) \/ WakeOne(p) \/ Dispatch(p)
                          \/ SendMessage(p)
  <2>1. PICK p \in Pcb : SsiServe(p) \/ DeviceInterrupt(p) \/ WakeOne(p) \/ Dispatch(p)
                         \/ SendMessage(p)
    BY <1>5
  <2>2. "readyQueue" \in ListHead
    BY DEF ListHead
  <2>3. QED
    BY <2>1, <2>2, ServeKeeps, InterruptKeeps, HandlerKeeps
<1>6. CASE UNCHANGED vars
  <2>1. UNCHANGED <<next, prev, where, current_process, calls, stores, change, timer>>
    BY <1>6 DEF vars, links, ssi
  <2>2. Sound(next, prev, where)'
    BY <2>1, SoundUnchanged DEF IInv, links
  <2>3. Apace' /\ CallsFit' /\ CurrentUnlinked'
    BY <2>1 DEF IInv, Apace, CallsFit, Fit, Landed, CurrentUnlinked
  <2>4. QED
    BY <2>2, <2>3 DEF IInv
<1>7. QED
  BY <1>1, <1>2, <1>3, <1>4, <1>5, <1>6 DEF Next

\* The links after main(), by the order of the free PCBs.
LEMMA InitLaid ==
  ASSUME Init
  PROVE  \E root \in Pcb \ {ssi_pcb} : \E free \in Seq(Pcb \ {ssi_pcb, root}) :
           /\ IsInjective(free)
           /\ \A p \in Pcb \ {ssi_pcb, root} : \E i \in 1..Len(free) : free[i] = p
           /\ \A l \in {next, prev} : l["readyQueue"] = root /\ l[root] = "readyQueue"
           /\ \A l \in {"receiveMessageQueue", "pseudoClockQueue"} : next[l] = l /\ prev[l] = l
           /\ next["pcbFree_h"] = IF Len(free) > 0 THEN free[1] ELSE "pcbFree_h"
           /\ prev["pcbFree_h"] = IF Len(free) > 0 THEN free[Len(free)] ELSE "pcbFree_h"
           /\ \A i \in 1..Len(free) :
                /\ next[free[i]] = IF i = Len(free) THEN "pcbFree_h" ELSE free[i + 1]
                /\ prev[free[i]] = IF i = 1 THEN "pcbFree_h" ELSE free[i - 1]
           /\ next = [n \in Node |-> next[n]] /\ prev = [n \in Node |-> prev[n]]
           /\ where = [p \in Pcb |-> CASE p = ssi_pcb -> "nowhere" [] p = root -> "readyQueue"
                                        [] OTHER -> "pcbFree_h"]
           /\ next[ssi_pcb] = ssi_pcb /\ prev[ssi_pcb] = ssi_pcb
<1>1. Init
  OBVIOUS
<1> DEFINE k == Cardinality(Pcb) - 2
           At(order, n) == CHOOSE i \in 1..k : order[i] = n
<1> DEFINE Laid(r, order) ==
             /\ next = [n \in Node |->
                  CASE n = "readyQueue" -> r
                    [] n = r -> "readyQueue"
                    [] n = "pcbFree_h" /\ k > 0 -> order[1]
                    [] n \in Pcb \ {ssi_pcb, r} ->
                         IF At(order, n) = k THEN "pcbFree_h" ELSE order[At(order, n) + 1]
                    [] OTHER -> n]
             /\ prev = [n \in Node |->
                  CASE n = "readyQueue" -> r
                    [] n = r -> "readyQueue"
                    [] n = "pcbFree_h" /\ k > 0 -> order[k]
                    [] n \in Pcb \ {ssi_pcb, r} ->
                         IF At(order, n) = 1 THEN "pcbFree_h" ELSE order[At(order, n) - 1]
                    [] OTHER -> n]
             /\ where = [p \in Pcb |-> CASE p = ssi_pcb -> "nowhere" [] p = r -> "readyQueue"
                                          [] OTHER -> "pcbFree_h"]
<1>2. \E r \in Pcb \ {ssi_pcb} : \E order \in Bijection(1..k, Pcb \ {ssi_pcb, r}) :
         Laid(r, order)
  BY <1>1 DEF Init
<1>3. PICK root \in Pcb \ {ssi_pcb} :
         \E order \in Bijection(1..k, Pcb \ {ssi_pcb, root}) : Laid(root, order)
  BY <1>2
<1>4. PICK order \in Bijection(1..k, Pcb \ {ssi_pcb, root}) : Laid(root, order)
  BY <1>3
<1> DEFINE F == Pcb \ {ssi_pcb, root}
<1>6. /\ k \in Int
      /\ \A i \in 1..k : order[i] \in F
      /\ \A i, j \in 1..k : order[i] = order[j] => i = j
      /\ \A p \in F : \E i \in 1..k : order[i] = p
  <2>1. k \in Int
    BY FS_CardinalityType, ListAssumption
  <2>2. QED
    BY <2>1 DEF Bijection, Injection, Surjection, IsInjective
<1>7. \A p \in F : At(order, p) \in 1..k /\ order[At(order, p)] = p
  BY <1>6
<1> HIDE DEF k, At
<1>8. \A i \in 1..k : At(order, order[i]) = i
  BY <1>6, <1>7
<1>9. /\ ssi_pcb \in Pcb /\ root \in Pcb /\ root # ssi_pcb
      /\ \A p \in Pcb : p \notin Place /\ p \in Node
      /\ \A l \in ListHead : l \in Place /\ l \in Node
      /\ "nowhere" \in Place /\ "nowhere" \notin ListHead
  BY ListAssumption DEF Place, Node, ListHead
<1>10. /\ next["readyQueue"] = root /\ next[root] = "readyQueue"
      /\ prev["readyQueue"] = root /\ prev[root] = "readyQueue"
  BY <1>4, <1>9 DEF ListHead
<1>11. \A l \in {"receiveMessageQueue", "pseudoClockQueue"} : next[l] = l /\ prev[l] = l
  BY <1>4, <1>9 DEF ListHead
<1>12. /\ next["pcbFree_h"] = IF k > 0 THEN order[1] ELSE "pcbFree_h"
       /\ prev["pcbFree_h"] = IF k > 0 THEN order[k] ELSE "pcbFree_h"
  BY <1>4, <1>9 DEF ListHead
<1>13. \A i \in 1..k : /\ next[order[i]] = IF i = k THEN "pcbFree_h" ELSE order[i + 1]
                       /\ prev[order[i]] = IF i = 1 THEN "pcbFree_h" ELSE order[i - 1]
  <2>1. \A p \in F :
          /\ next[p] = IF At(order, p) = k THEN "pcbFree_h" ELSE order[At(order, p) + 1]
          /\ prev[p] = IF At(order, p) = 1 THEN "pcbFree_h" ELSE order[At(order, p) - 1]
    BY <1>4, <1>9 DEF ListHead
  <2>2. QED
    BY <1>6, <1>8, <2>1
<1>14. next = [n \in Node |-> next[n]] /\ prev = [n \in Node |-> prev[n]]
  BY <1>4
<1>15. next[ssi_pcb] = ssi_pcb /\ prev[ssi_pcb] = ssi_pcb
  BY <1>4, <1>9 DEF ListHead
<1>16. where = [p \in Pcb |-> CASE p = ssi_pcb -> "nowhere" [] p = root -> "readyQueue"
                                 [] OTHER -> "pcbFree_h"]
  BY <1>4
<1>17. order \in [1..k -> F]
  BY DEF Bijection, Injection
<1> HIDE DEF Laid
<1>18. PICK free \in Seq(F) : /\ Len(free) = IF k > 0 THEN k ELSE 0
                              /\ \A i \in 1..k : free[i] = order[i]
  <2>1. CASE k > 0
    <3>1. order \in Seq(F) /\ Len(order) = k
      BY <1>6, <1>17, <2>1
    <3> QED BY <2>1, <3>1
  <2>2. CASE ~(k > 0)
    <3> DEFINE none == <<>>
    <3>1. none \in Seq(F) /\ Len(none) = 0
      OBVIOUS
    <3> HIDE DEF none
    <3>2. \A i \in 1..k : none[i] = order[i]
      BY <1>6, <2>2
    <3> QED BY <2>2, <3>1, <3>2
  <2> HIDE DEF F
  <2> QED BY <2>1, <2>2
<1>19. 1..Len(free) = 1..k /\ (Len(free) > 0 <=> k > 0) /\ (k > 0 => Len(free) = k)
  BY <1>6, <1>18
<1>20. IsInjective(free) /\ \A p \in F : \E i \in 1..Len(free) : free[i] = p
  <2>1. DOMAIN free = 1..k
    BY <1>18, <1>19
  <2> QED BY <1>6, <1>18, <1>19, <2>1 DEF IsInjective
<1>21. /\ next["pcbFree_h"] = IF Len(free) > 0 THEN free[1] ELSE "pcbFree_h"
       /\ prev["pcbFree_h"] = IF Len(free) > 0 THEN free[Len(free)] ELSE "pcbFree_h"
  <2>1. k > 0 => 1 \in 1..k /\ k \in 1..k
    BY <1>6
  <2> QED BY <1>12, <1>18, <1>19, <2>1
<1>22. \A i \in 1..Len(free) :
         /\ next[free[i]] = IF i = Len(free) THEN "pcbFree_h" ELSE free[i + 1]
         /\ prev[free[i]] = IF i = 1 THEN "pcbFree_h" ELSE free[i - 1]
  <2> SUFFICES ASSUME NEW i \in 1..k
               PROVE  /\ next[free[i]] = IF i = Len(free) THEN "pcbFree_h" ELSE free[i + 1]
                      /\ prev[free[i]] = IF i = 1 THEN "pcbFree_h" ELSE free[i - 1]
    BY <1>19
  <2>1. k > 0 /\ Len(free) = k
    BY <1>6, <1>19
  <2>2. (i # k => i + 1 \in 1..k) /\ (i # 1 => i - 1 \in 1..k)
    BY <1>6
  <2> QED BY <1>13, <1>18, <2>1, <2>2
<1> QED BY ZenonT(40), <1>10, <1>11, <1>14, <1>15, <1>16, <1>20, <1>21, <1>22

\* The lists that main() leaves are sound.
LEMMA InitSound == Init => IInv
<1>1. SUFFICES ASSUME Init PROVE IInv
  OBVIOUS
<1> DEFINE Laid(r, free) ==
             /\ IsInjective(free)
             /\ \A p \in Pcb \ {ssi_pcb, r} : \E i \in 1..Len(free) : free[i] = p
             /\ \A l \in {next, prev} : l["readyQueue"] = r /\ l[r] = "readyQueue"
             /\ \A l \in {"receiveMessageQueue", "pseudoClockQueue"} : next[l] = l /\ prev[l] = l
             /\ next["pcbFree_h"] = IF Len(free) > 0 THEN free[1] ELSE "pcbFree_h"
             /\ prev["pcbFree_h"] = IF Len(free) > 0 THEN free[Len(free)] ELSE "pcbFree_h"
             /\ \A i \in 1..Len(free) :
                  /\ next[free[i]] = IF i = Len(free) THEN "pcbFree_h" ELSE free[i + 1]
                  /\ prev[free[i]] = IF i = 1 THEN "pcbFree_h" ELSE free[i - 1]
             /\ next = [n \in Node |-> next[n]] /\ prev = [n \in Node |-> prev[n]]
             /\ where = [p \in Pcb |-> CASE p = ssi_pcb -> "nowhere" [] p = r -> "readyQueue"
                                          [] OTHER -> "pcbFree_h"]
             /\ next[ssi_pcb] = ssi_pcb /\ prev[ssi_pcb] = ssi_pcb
<1>2. PICK root \in Pcb \ {ssi_pcb} : \E free \in Seq(Pcb \ {ssi_pcb, root}) : Laid(root, free)
  BY <1>1, InitLaid
<1> DEFINE F == Pcb \ {ssi_pcb, root}
<1>3. PICK order \in Seq(F) : Laid(root, order)
  BY <1>2
<1>4. where = [p \in Pcb |-> CASE p = ssi_pcb -> "nowhere" [] p = root -> "readyQueue"
                                [] OTHER -> "pcbFree_h"]
  BY <1>3
<1>5. /\ current_process = ssi_pcb /\ calls = <<>> /\ stores = <<>> /\ timer = FALSE
      /\ change = [pcb |-> ssi_pcb, list |-> "nowhere", to |-> "nowhere"]
  BY <1>1 DEF Init
<1> DEFINE k == Len(order)
<1>6. /\ k \in Int
      /\ \A i \in 1..k : order[i] \in F
      /\ \A i, j \in 1..k : order[i] = order[j] => i = j
      /\ \A p \in F : \E i \in 1..k : order[i] = p
  <2>1. DOMAIN order = 1..k
    BY <1>3
  <2> QED BY <1>3, <2>1 DEF IsInjective
<1>9. /\ ssi_pcb \in Pcb /\ root \in Pcb /\ root # ssi_pcb
      /\ \A p \in Pcb : p \notin Place /\ p \in Node
      /\ \A l \in ListHead : l \in Place /\ l \in Node
      /\ "nowhere" \in Place /\ "nowhere" \notin ListHead
  BY ListAssumption DEF Place, Node, ListHead
<1>10. /\ next["readyQueue"] = root /\ next[root] = "readyQueue"
       /\ prev["readyQueue"] = root /\ prev[root] = "readyQueue"
  BY <1>3
<1>11. \A l \in {"receiveMessageQueue", "pseudoClockQueue"} : next[l] = l /\ prev[l] = l
  BY <1>3
<1>12. /\ next["pcbFree_h"] = IF k > 0 THEN order[1] ELSE "pcbFree_h"
       /\ prev["pcbFree_h"] = IF k > 0 THEN order[k] ELSE "pcbFree_h"
  BY <1>3
<1>13. \A i \in 1..k : /\ next[order[i]] = IF i = k THEN "pcbFree_h" ELSE order[i + 1]
                       /\ prev[order[i]] = IF i = 1 THEN "pcbFree_h" ELSE order[i - 1]
  BY <1>3
<1>20. next = [n \in Node |-> next[n]] /\ prev = [n \in Node |-> prev[n]]
       /\ next[ssi_pcb] = ssi_pcb /\ prev[ssi_pcb] = ssi_pcb
  BY <1>3
<1> HIDE DEF k, Laid
<1>14. /\ Member(where, "readyQueue") = {"readyQueue", root}
       /\ Member(where, "pcbFree_h") = {"pcbFree_h"} \cup F
       /\ \A l \in {"receiveMessageQueue", "pseudoClockQueue"} : Member(where, l) = {l}
       /\ where \in [Pcb -> Place] /\ where[ssi_pcb] = "nowhere"
  BY <1>4, <1>9 DEF Member, Place, ListHead
<1>15. \A n \in F : /\ next[n] \in {"pcbFree_h"} \cup F /\ prev[next[n]] = n
                    /\ prev[n] \in {"pcbFree_h"} \cup F /\ next[prev[n]] = n
  <2>1. SUFFICES ASSUME NEW i \in 1..k, NEW n, n = order[i]
                 PROVE /\ next[n] \in {"pcbFree_h"} \cup F /\ prev[next[n]] = n
                       /\ prev[n] \in {"pcbFree_h"} \cup F /\ next[prev[n]] = n
    BY <1>6
  <2>2. next[n] \in {"pcbFree_h"} \cup F /\ prev[next[n]] = n
    <3>1. CASE i = k
      BY <1>6, <1>12, <1>13, <2>1, <3>1
    <3>2. CASE i # k
      <4>1. i + 1 \in 1..k /\ i + 1 # 1 /\ (i + 1) - 1 = i
        BY <1>6, <3>2
      <4>2. next[n] = order[i + 1] /\ order[i + 1] \in F
        BY <1>6, <1>13, <2>1, <3>2, <4>1
      <4>3. prev[order[i + 1]] = order[(i + 1) - 1]
        BY <1>13, <4>1
      <4>4. QED
        BY <2>1, <4>1, <4>2, <4>3
    <3>3. QED
      BY <3>1, <3>2
  <2>3. prev[n] \in {"pcbFree_h"} \cup F /\ next[prev[n]] = n
    <3>1. CASE i = 1
      BY <1>6, <1>12, <1>13, <2>1, <3>1
    <3>2. CASE i # 1
      <4>1. i - 1 \in 1..k /\ i - 1 # k /\ (i - 1) + 1 = i
        BY <1>6, <3>2
      <4>2. prev[n] = order[i - 1] /\ order[i - 1] \in F
        BY <1>6, <1>13, <2>1, <3>2, <4>1
      <4>3. next[order[i - 1]] = order[(i - 1) + 1]
        BY <1>13, <4>1
      <4>4. QED
        BY <2>1, <4>1, <4>2, <4>3
    <3>3. QED
      BY <3>1, <3>2
  <2>4. QED
    BY <2>2, <2>3
<1>16. /\ next["pcbFree_h"] \in {"pcbFree_h"} \cup F
       /\ prev["pcbFree_h"] \in {"pcbFree_h"} \cup F
       /\ prev[next["pcbFree_h"]] = "pcbFree_h" /\ next[prev["pcbFree_h"]] = "pcbFree_h"
  <2>1. CASE k > 0
    <3>1. 1 \in 1..k /\ k \in 1..k
      BY <1>6, <2>1
    <3>2. QED
      BY <1>6, <1>12, <1>13, <2>1, <3>1
  <2>2. CASE ~(k > 0)
    BY <1>12, <2>2
  <2>3. QED
    BY <2>1, <2>2
<1>17. Linked(next, prev, where)
  <2>1. ASSUME NEW l \in ListHead, NEW n \in Member(where, l)
        PROVE /\ next[n] \in Member(where, l) /\ prev[next[n]] = n
              /\ prev[n] \in Member(where, l) /\ next[prev[n]] = n
    <3>1. CASE l = "readyQueue"
      BY <1>10, <1>14, <2>1, <3>1
    <3>2. CASE l \in {"receiveMessageQueue", "pseudoClockQueue"}
      BY <1>11, <1>14, <2>1, <3>2
    <3>3. CASE l = "pcbFree_h"
      BY <1>14, <1>15, <1>16, <2>1, <3>3
    <3>4. QED
      BY <3>1, <3>2, <3>3 DEF ListHead
  <2>2. QED
    BY <2>1 DEF Linked
<1>18. next \in [Node -> Node] /\ prev \in [Node -> Node]
  <2>1. \A n \in Node : next[n] \in Node /\ prev[n] \in Node
    <3>1. SUFFICES ASSUME NEW n \in Node PROVE next[n] \in Node /\ prev[n] \in Node
      OBVIOUS
    <3>2. CASE n = ssi_pcb
      BY <1>9, <1>20, <3>2
    <3>3. CASE n # ssi_pcb
      <4>1. \E l \in ListHead : n \in Member(where, l)
        BY <1>9, <1>14, <3>1, <3>3 DEF Node, ListHead
      <4>2. \A l \in ListHead : \A m \in Member(where, l) : m \in Node
        BY <1>9 DEF Member
      <4>3. QED
        BY <1>17, <4>1, <4>2 DEF Linked
    <3>4. QED
      BY <3>2, <3>3
  <2>2. QED
    BY <1>20, <2>1
<1>19. Sound(next, prev, where)
  BY <1>5, <1>9, <1>14, <1>17, <1>18, SoundIdle DEF LinksOK
<1>21. QED
  BY <1>5, <1>9, <1>14, <1>19 DEF IInv, Apace, CallsFit, CurrentUnlinked

\* The stores that are left write no node of another list.
LEMMA InvariantShows ==
  IInv => \A list \in ListHead : (stores # <<>> => change.list # list) =>
            \A n \in In(list) : /\ next[n] \in In(list) /\ prev[next[n]] = n
                                /\ prev[n] \in In(list) /\ next[prev[n]] = n
<1>1. SUFFICES ASSUME IInv, NEW list \in ListHead, stores # <<>> => change.list # list,
                      NEW n \in In(list)
               PROVE /\ next[n] \in In(list) /\ prev[next[n]] = n
                     /\ prev[n] \in In(list) /\ next[prev[n]] = n
  OBVIOUS
<1> DEFINE nx == After("next", next, stores)
           pv == After("prev", prev, stores)
<1>2. /\ Linked(nx, pv, Landed(where)) /\ InOperation(where) /\ where \in [Pcb -> Place]
      /\ next \in [Node -> Node] /\ prev \in [Node -> Node]
      /\ change \in [pcb : Pcb, list : Place, to : Place]
  BY <1>1 DEF IInv, Sound, LinksOK
<1>3. In(list) = Member(where, list)
  BY DEF In, Member
<1>4. Member(Landed(where), list) = Member(where, list)
  BY <1>1, <1>2, HeadsAreNodes DEF Landed, Member, InOperation, ListHead
<1>5. ASSUME NEW m \in Member(where, list)
      PROVE m \in Node /\ \A i \in DOMAIN stores : stores[i].at # m
  <2>1. m \in Node
    BY <1>5, HeadsAreNodes DEF Member, Node
  <2>2. SUFFICES ASSUME NEW i \in DOMAIN stores, stores # <<>> PROVE stores[i].at # m
    BY <2>1
  <2>3. stores[i].at \in {change.pcb} \cup Member(where, change.list)
    BY <1>2, <2>2 DEF InOperation
  <2>4. m # change.pcb
    BY <1>1, <1>2, <1>5, <2>2, HeadsAreNodes DEF InOperation, Member, ListHead
  <2>5. m \notin Member(where, change.list)
    BY <1>1, <1>2, <1>5, <2>2, HeadsAreNodes DEF Member
  <2>6. QED
    BY <2>3, <2>4, <2>5
<1>6. \A m \in Member(where, list) : nx[m] = next[m] /\ pv[m] = prev[m]
  BY <1>5, AfterElse
<1> HIDE DEF nx, pv
<1>7. QED
  BY <1>1, <1>2, <1>3, <1>4, <1>6 DEF Linked

\* A clash is for good.
LEMMA ClashStays ==
  ASSUME [Next]_vars, ~clashed'
  PROVE  ~clashed
<1>1. CASE UNCHANGED vars
  BY <1>1 DEF vars
<1>2. CASE SsiCall \/ SsiStore \/ IntervalTimer \/ WakeEnd
  BY <1>2 DEF SsiCall, SsiStore, IntervalTimer, WakeEnd
<1>3. CASE ReceiveMessage \/ ProcessorLocalTimer \/ Die
  BY <1>3 DEF ReceiveMessage, ProcessorLocalTimer, Die, PutAway
<1>4. ASSUME NEW p \in Pcb, SsiServe(p) \/ Dispatch(p) \/ SendMessage(p)
      PROVE  ~clashed
  BY <1>4 DEF SsiServe, Dispatch, SendMessage
<1>5. ASSUME NEW p \in Pcb, DeviceInterrupt(p) \/ WakeOne(p)
      PROVE  ~clashed
  BY <1>5 DEF DeviceInterrupt, WakeOne, Changes
<1> QED BY <1>1, <1>2, <1>3, <1>4, <1>5 DEF Next

\* Only a clash breaks a list of listx.h: as long as no handler has changed a list in the
\* middle of the SSI's operation on it, the lists that the SSI is not changing are closed
\* and doubly linked, for any number of PCBs: next and prev lead to PCBs of the list and
\* back, though handlers change other lists between any two of the SSI's stores.
THEOREM ListsDoublyLinked == Spec => []DoublyLinked
<1> DEFINE Until == ~clashed => IInv
<1>1. Init => Until
  BY InitSound
<1>2. Until /\ [Next]_vars => Until'
  BY ClashStays, StepKeeps
<1>3. Until => DoublyLinked
  BY InvariantShows DEF DoublyLinked
<1>4. QED
  BY <1>1, <1>2, <1>3, PTL DEF Spec
-----------------------------------------------------------------------------
(* Types, which a clash does not break.                                     *)

CallType ==
  [op : {"del", "init"}, pcb : Pcb, to : Place] \cup [op : {"add"}, pcb : Pcb, to : ListHead]

\* The calls of the SSI add only to a list.
Typed ==
  /\ next \in [Node -> Node] /\ prev \in [Node -> Node] /\ where \in [Pcb -> Place]
  /\ current_process \in Pcb \cup {NULL}
  /\ calls \in Seq(CallType) /\ stores \in Seq(StoreType)
  /\ change \in [pcb : Pcb, list : Place, to : Place]
  /\ timer \in BOOLEAN /\ clashed \in BOOLEAN

\* The stores of an operation are stores to nodes.
LEMMA StoresTyped ==
  ASSUME NEW nx \in [Node -> Node], NEW pv \in [Node -> Node],
         NEW p \in Pcb, NEW list \in ListHead
  PROVE  /\ Del(nx, pv, p) \in Seq(StoreType) /\ AddTail(nx, pv, p, list) \in Seq(StoreType)
         /\ InitStores(p) \in Seq(StoreType)
<1>1. p \in Node /\ list \in Node
  BY DEF Node
<1>2. \A f \in {"next", "prev"}, a \in Node, v \in Node : Store(f, a, v) \in StoreType
  BY DEF Store, StoreType
<1>3. /\ Store("prev", nx[p], pv[p]) \in StoreType /\ Store("next", pv[p], nx[p]) \in StoreType
      /\ Store("prev", list, p) \in StoreType /\ Store("next", p, list) \in StoreType
      /\ Store("prev", p, pv[list]) \in StoreType /\ Store("next", pv[list], p) \in StoreType
      /\ Store("next", p, p) \in StoreType /\ Store("prev", p, p) \in StoreType
  BY <1>1, <1>2
<1>4. Del(nx, pv, p) \in Seq(StoreType)
  BY <1>3 DEF Del, DelStores
<1>5. AddTail(nx, pv, p, list) \in Seq(StoreType)
  BY <1>3 DEF AddTail, AddStores
<1>6. InitStores(p) \in Seq(StoreType)
  BY <1>3 DEF InitStores
<1> QED BY <1>4, <1>5, <1>6

\* The list operations of a handler.
LEMMA HandlerTyped ==
  ASSUME Typed, NEW p \in Pcb, NEW list \in ListHead,
         Out(p) \/ Insert(p, list) \/ Move(p, list)
  PROVE  /\ next' \in [Node -> Node] /\ prev' \in [Node -> Node] /\ where' \in [Pcb -> Place]
<1> DEFINE nx == After("next", next, Del(next, prev, p))
           pv == After("prev", prev, Del(next, prev, p))
<1>1. /\ next \in [Node -> Node] /\ prev \in [Node -> Node] /\ where \in [Pcb -> Place]
      /\ "nowhere" \in Place /\ list \in Place
  BY DEF Typed, Place
<1>2. nx \in [Node -> Node] /\ pv \in [Node -> Node]
  BY <1>1, StoresTyped, AfterType
<1>3. CASE Out(p)
  BY <1>1, <1>2, <1>3 DEF Out
<1>4. CASE Insert(p, list)
  <2>1. AddTail(next, prev, p, list) \in Seq(StoreType)
    BY <1>1, StoresTyped
  <2> QED BY <1>1, <1>4, <2>1, AfterType DEF Insert
<1> HIDE DEF nx, pv
<1>5. CASE Move(p, list)
  <2>1. AddTail(nx, pv, p, list) \in Seq(StoreType)
    BY <1>2, StoresTyped
  <2>2. /\ next' = After("next", nx, AddTail(nx, pv, p, list))
        /\ prev' = After("prev", pv, AddTail(nx, pv, p, list))
        /\ where' = [where EXCEPT ![p] = list]
    BY <1>5 DEF Move, nx, pv
  <2> QED BY <1>1, <1>2, <2>1, <2>2, AfterType
<1> QED BY <1>3, <1>4, <1>5

\* The calls of a request.
LEMMA CallsTyped ==
  ASSUME NEW p \in Pcb, NEW list \in ListHead, NEW to \in Place
  PROVE  /\ <<Call("add", p, list)>> \in Seq(CallType)
         /\ <<Call("del", p, to)>> \in Seq(CallType)
         /\ <<Call("del", p, to), Call("add", p, list)>> \in Seq(CallType)
         /\ <<Call("del", p, to), Call("init", p, to), Call("add", p, list)>> \in Seq(CallType)
<1>1. /\ Call("add", p, list) \in CallType /\ Call("del", p, to) \in CallType
      /\ Call("init", p, to) \in CallType
  BY DEF Call, CallType
<1> QED BY <1>1

\* The SSI calls an operation.
LEMMA CallTyped ==
  ASSUME Typed, SsiCall
  PROVE  Typed'
<1>1. /\ calls # <<>> /\ calls' = Tail(calls)
      /\ UNCHANGED <<next, prev, where, current_process, timer, clashed>>
      /\ next \in [Node -> Node] /\ prev \in [Node -> Node] /\ where \in [Pcb -> Place]
  BY DEF SsiCall, Typed, links
<1>2. calls' \in Seq(CallType) /\ calls[1] \in CallType
  <2>1. ASSUME NEW s \in Seq(CallType), s # <<>>
        PROVE  Tail(s) \in Seq(CallType) /\ s[1] \in CallType
    <3>1. 1 \in DOMAIN s
      BY <2>1, EmptySeq, LenProperties
    <3> QED BY <2>1, <3>1, HeadTailProperties
  <2> QED BY <1>1, <2>1 DEF Typed
<1> DEFINE c == calls[1]
<1>3. c.pcb \in Pcb /\ c.to \in Place /\ (c.op = "add" => c.to \in ListHead)
  BY <1>2 DEF CallType, Place
<1>4. /\ stores' \in Seq(StoreType) /\ change' \in [pcb : Pcb, list : Place, to : Place]
  <2> HIDE DEF c
  <2>1. "nowhere" \in Place /\ "readyQueue" \in ListHead
    BY DEF Place, ListHead
  <2>2. CASE c.op = "del" /\ stores' = Del(next, prev, c.pcb)
             /\ change' = [pcb |-> c.pcb, list |-> where[c.pcb], to |-> c.to]
    BY <1>1, <1>3, <2>1, <2>2, StoresTyped
  <2>3. CASE c.op = "add" /\ stores' = AddTail(next, prev, c.pcb, c.to)
             /\ change' = [pcb |-> c.pcb, list |-> c.to, to |-> c.to]
    BY <1>1, <1>3, <2>1, <2>3, StoresTyped
  <2>4. CASE c.op = "init" /\ stores' = InitStores(c.pcb)
             /\ change' = [pcb |-> c.pcb, list |-> "nowhere", to |-> c.to]
    BY <1>1, <1>3, <2>1, <2>4, StoresTyped
  <2> QED BY <2>2, <2>3, <2>4 DEF SsiCall, c
<1> QED BY <1>1, <1>2, <1>4 DEF Typed

\* The SSI stores.
LEMMA StoreTyped ==
  ASSUME Typed, SsiStore
  PROVE  Typed'
<1>1. /\ stores # <<>> /\ stores' = Tail(stores)
      /\ next' = After("next", next, <<stores[1]>>)
      /\ prev' = After("prev", prev, <<stores[1]>>)
      /\ where' = where \/ where' = [where EXCEPT ![change.pcb] = change.to]
      /\ UNCHANGED <<current_process, calls, change, timer, clashed>>
  BY DEF SsiStore
<1>2. /\ next \in [Node -> Node] /\ prev \in [Node -> Node] /\ where \in [Pcb -> Place]
      /\ stores \in Seq(StoreType) /\ change.pcb \in Pcb /\ change.to \in Place
  BY DEF Typed
<1>3. Tail(stores) \in Seq(StoreType) /\ <<stores[1]>> \in Seq(StoreType)
  <2>1. ASSUME NEW s \in Seq(StoreType), s # <<>>
        PROVE  Tail(s) \in Seq(StoreType) /\ <<s[1]>> \in Seq(StoreType)
    <3>1. 1 \in DOMAIN s
      BY <2>1, EmptySeq, LenProperties
    <3> QED BY <2>1, <3>1, HeadTailProperties
  <2> QED BY <1>1, <1>2, <2>1
<1>4. next' \in [Node -> Node] /\ prev' \in [Node -> Node]
  BY <1>1, <1>2, <1>3, AfterType
<1>5. where' \in [Pcb -> Place]
  BY <1>1, <1>2
<1> QED BY <1>1, <1>3, <1>4, <1>5 DEF Typed

\* Every step keeps the types.
LEMMA StepTyped ==
  ASSUME Typed, [Next]_vars
  PROVE  Typed'
<1>1. "nowhere" \in Place /\ "device" \in Place /\ "readyQueue" \in ListHead
      /\ "pseudoClockQueue" \in ListHead /\ "pcbFree_h" \in ListHead
  BY DEF Place, ListHead
<1>2. CASE SsiCall \/ SsiStore
  BY <1>2, CallTyped, StoreTyped
<1>3. CASE IntervalTimer \/ WakeEnd \/ UNCHANGED vars
  BY <1>3 DEF Typed, IntervalTimer, WakeEnd, vars, links, ssi
<1>4. CASE ReceiveMessage \/ ProcessorLocalTimer \/ Die
  <2>1. PICK list \in ListHead : PutAway(list)
    BY <1>4 DEF ReceiveMessage, ProcessorLocalTimer, Die, ListHead
  <2>2. current_process \in Pcb /\ Insert(current_process, list) /\ current_process' = NULL
        /\ UNCHANGED <<calls, stores, change, timer, clashed>>
    BY <2>1 DEF PutAway, Typed, ssi
  <2>3. next' \in [Node -> Node] /\ prev' \in [Node -> Node] /\ where' \in [Pcb -> Place]
    BY <2>2, HandlerTyped
  <2> QED BY <2>2, <2>3 DEF Typed
<1>5. ASSUME NEW p \in Pcb, SsiServe(p)
      PROVE  Typed'
  <2>1. UNCHANGED <<next, prev, current_process, stores, change, timer, clashed>>
    BY <1>5 DEF SsiServe
  <2>2. where' = where \/ where' = [where EXCEPT ![p] = "nowhere"]
    BY <1>5 DEF SsiServe, CreateProcess, WaitForClock, DoIO, KillProcess
  <2>3. calls' \in Seq(CallType)
    <3>1. CASE CreateProcess(p)
      BY <1>1, <3>1, CallsTyped DEF CreateProcess
    <3>2. CASE WaitForClock(p)
      BY <1>1, <3>2, CallsTyped DEF WaitForClock
    <3>3. CASE DoIO(p)
      BY <1>1, <3>3, CallsTyped DEF DoIO
    <3>4. CASE KillProcess(p)
      BY <1>1, <3>4, CallsTyped DEF KillProcess
    <3> QED BY <1>5, <3>1, <3>2, <3>3, <3>4 DEF SsiServe
  <2> QED BY <1>1, <2>1, <2>2, <2>3 DEF Typed
<1>6. ASSUME NEW p \in Pcb, DeviceInterrupt(p) \/ WakeOne(p) \/ Dispatch(p) \/ SendMessage(p)
      PROVE  Typed'
  <2>1. Insert(p, "readyQueue") \/ Move(p, "readyQueue") \/ Out(p)
    BY <1>6 DEF DeviceInterrupt, WakeOne, Dispatch, SendMessage
  <2>2. next' \in [Node -> Node] /\ prev' \in [Node -> Node] /\ where' \in [Pcb -> Place]
    BY <1>1, <2>1, HandlerTyped
  <2>3. UNCHANGED <<calls, stores, change, timer>> /\ current_process' \in Pcb \cup {NULL}
    BY <1>6 DEF DeviceInterrupt, WakeOne, Dispatch, SendMessage, ssi, Typed
  <2>4. clashed' \in BOOLEAN
    BY <1>6 DEF DeviceInterrupt, WakeOne, Dispatch, SendMessage, Changes, Typed
  <2> QED BY <2>2, <2>3, <2>4 DEF Typed
<1> QED BY <1>2, <1>3, <1>4, <1>5, <1>6 DEF Next

\* The pointers of listx.h always lead to nodes and the calls of the SSI are list
\* operations of PCBs, for any number of PCBs, even when interrupts have broken a list.
THEOREM ListTypes == Spec => []TypeOK
<1>1. Init => Typed
  <2>1. SUFFICES ASSUME Init PROVE Typed
    OBVIOUS
  <2>2. Sound(next, prev, where) /\ Apace
    BY <2>1, InitSound DEF IInv
  <2>3. calls = <<>> /\ stores = <<>> /\ clashed = FALSE
    BY <2>1 DEF Init
  <2>4. clashed \in BOOLEAN
    BY <2>3
  <2>5. calls \in Seq(CallType)
    <3>1. \A T : <<>> \in Seq(T)
      BY EmptySeq
    <3> QED BY <2>3, <3>1
  <2> QED BY <2>2, <2>4, <2>5 DEF Sound, Apace, Typed
<1>2. Typed /\ [Next]_vars => Typed'
  BY StepTyped
<1>3. Typed => TypeOK
  <2>1. SUFFICES ASSUME Typed PROVE TypeOK
    OBVIOUS
  <2>2. calls \in Seq([op : {"del", "add", "init"}, pcb : Pcb, to : Place])
    <3> DEFINE T == [op : {"del", "add", "init"}, pcb : Pcb, to : Place]
    <3>1. CallType \subseteq T
      BY DEF CallType, Place
    <3> HIDE DEF T
    <3>2. calls \in Seq(T)
      BY <2>1, <3>1 DEF Typed
    <3> QED BY <3>2 DEF T
  <2> QED BY <2>1, <2>2 DEF Typed, StoreType, TypeOK
<1>4. QED
  BY <1>1, <1>2, <1>3, PTL DEF Spec
------------------------------------------------------------------------------
(* The lists as sequences: who comes after whom from the head on.           *)

\* From the head of the list, nx goes through s and back.
Chain(nx, list, s) ==
  /\ s \in Seq(Pcb) /\ IsInjective(s)
  /\ nx[list] = IF s = <<>> THEN list ELSE s[1]
  /\ \A i \in 1..Len(s) : nx[s[i]] = IF i = Len(s) THEN list ELSE s[i + 1]

\* And s are the PCBs of the list.
Follows(nx, wh, list, s) == Chain(nx, list, s) /\ ToSet(s) = {p \in Pcb : wh[p] = list}

\* The walk after i steps.
Part(list, s, i) == <<list>> \o SubSeq(s, 1, IF i <= Len(s) THEN i ELSE Len(s))

\* What the walk has come to after i steps.
LEMMA PartAt ==
  ASSUME NEW list \in ListHead, NEW s \in Seq(Pcb), NEW i \in Nat,
         NEW n, n = IF i <= Len(s) THEN i ELSE Len(s)
  PROVE  /\ Part(list, s, i) \in Seq(Node) /\ Len(Part(list, s, i)) = n + 1
         /\ Part(list, s, i)[1] = list
         /\ \A m \in 1..n : Part(list, s, i)[m + 1] = s[m]
         /\ Last(Part(list, s, i)) = IF n = 0 THEN list ELSE s[n]
<1>1. /\ s \in Seq(Node) /\ Len(s) \in Nat /\ list \in Node /\ n \in 0..Len(s)
  BY HeadsAreNodes DEF Node
<1> DEFINE t == SubSeq(s, 1, n)
<1>2. t \in Seq(Node) /\ Len(t) = n /\ \A m \in 1..n : t[m] = s[m]
  BY <1>1
<1>3. Part(list, s, i) = <<list>> \o t
  BY DEF Part
<1> HIDE DEF t
<1>4. /\ Part(list, s, i) \in Seq(Node) /\ Len(Part(list, s, i)) = n + 1
      /\ Part(list, s, i)[1] = list
      /\ \A m \in 1..n : Part(list, s, i)[m + 1] = s[m]
  <2>1. /\ <<list>> \o t \in Seq(Node) /\ Len(<<list>> \o t) = Len(t) + 1
        /\ (<<list>> \o t)[1] = list
        /\ \A m \in 1..Len(t) : (<<list>> \o t)[m + 1] = t[m]
    BY <1>1, <1>2, ConsAt
  <2> QED BY <1>2, <1>3, <2>1
<1>5. Last(Part(list, s, i)) = IF n = 0 THEN list ELSE s[n]
  <2>1. Last(Part(list, s, i)) = Part(list, s, i)[n + 1]
    BY <1>4 DEF Last
  <2>2. n = 0 \/ n \in 1..n
    BY <1>1
  <2> QED BY <1>4, <2>1, <2>2
<1> QED BY <1>4, <1>5

\* Before the end of the list a step takes the walk to the next PCB.
LEMMA PartGoesOn ==
  ASSUME NEW nx, NEW list \in ListHead, NEW s, Chain(nx, list, s), NEW i \in Nat, i < Len(s)
  PROVE  /\ nx[Last(Part(list, s, i))] # list
         /\ Part(list, s, i + 1) = Append(Part(list, s, i), nx[Last(Part(list, s, i))])
<1>1. /\ s \in Seq(Pcb) /\ Len(s) \in Nat /\ i + 1 \in Nat /\ i + 1 \in 1..Len(s) /\ s # <<>>
      /\ i = IF i <= Len(s) THEN i ELSE Len(s)
      /\ i + 1 = IF i + 1 <= Len(s) THEN i + 1 ELSE Len(s)
  BY DEF Chain
<1> DEFINE u == Part(list, s, i)
           v == Part(list, s, i + 1)
<1>2. /\ u \in Seq(Node) /\ Len(u) = i + 1 /\ u[1] = list
      /\ \A m \in 1..i : u[m + 1] = s[m]
      /\ Last(u) = IF i = 0 THEN list ELSE s[i]
  BY <1>1, PartAt
<1>3. /\ v \in Seq(Node) /\ Len(v) = i + 1 + 1 /\ v[1] = list
      /\ \A m \in 1..(i + 1) : v[m + 1] = s[m]
  BY <1>1, PartAt
<1> HIDE DEF u, v
<1>4. nx[Last(u)] = s[i + 1] /\ s[i + 1] \in Pcb /\ s[i + 1] \in Node
  <2>1. s[i + 1] \in Pcb
    BY <1>1
  <2>2. i = 0 \/ i \in 1..Len(s)
    BY <1>1
  <2> QED BY <1>1, <1>2, <2>1, <2>2 DEF Chain, Node
<1> DEFINE w == Append(u, s[i + 1])
<1>5. /\ w \in Seq(Node) /\ Len(w) = i + 1 + 1
      /\ \A m \in 1..(i + 1) : w[m] = u[m]
      /\ w[i + 1 + 1] = s[i + 1]
  BY <1>2, <1>4, AppendProperties
<1> HIDE DEF w
<1>6. ASSUME NEW m \in 1..(i + 1 + 1) PROVE v[m] = w[m]
  <2>1. CASE m = 1
    BY <1>2, <1>3, <1>5, <2>1
  <2>2. CASE m # 1 /\ m # i + 1 + 1
    <3>1. m \in 1..(i + 1) /\ m - 1 \in 1..i /\ m - 1 \in 1..(i + 1) /\ (m - 1) + 1 = m
      BY <2>2
    <3> QED BY <1>2, <1>3, <1>5, <3>1
  <2>3. CASE m = i + 1 + 1
    <3>1. i + 1 \in 1..(i + 1)
      OBVIOUS
    <3> QED BY <1>3, <1>5, <2>3, <3>1
  <2> QED BY <2>1, <2>2, <2>3
<1>7. v = w
  BY <1>3, <1>5, <1>6, SeqEqual
<1> QED BY <1>4, <1>7, HeadsAreNodes DEF u, v, w

\* At the end it stays.
LEMMA PartEnds ==
  ASSUME NEW nx, NEW list \in ListHead, NEW s, Chain(nx, list, s), NEW i \in Nat, i >= Len(s)
  PROVE  /\ nx[Last(Part(list, s, i))] = list
         /\ Part(list, s, i + 1) = Part(list, s, i)
         /\ Tail(Part(list, s, i)) = s
<1>1. /\ s \in Seq(Pcb) /\ s \in Seq(Node) /\ Len(s) \in Nat /\ i + 1 \in Nat
      /\ Len(s) = IF i <= Len(s) THEN i ELSE Len(s)
      /\ Len(s) = IF i + 1 <= Len(s) THEN i + 1 ELSE Len(s)
  BY DEF Chain, Node
<1>2. nx[Last(Part(list, s, i))] = list
  <2>1. Last(Part(list, s, i)) = IF Len(s) = 0 THEN list ELSE s[Len(s)]
    BY <1>1, PartAt
  <2>2. s = <<>> \/ Len(s) \in 1..Len(s)
    BY <1>1, EmptySeq
  <2>3. s = <<>> <=> Len(s) = 0
    BY <1>1, EmptySeq
  <2> QED BY <2>1, <2>2, <2>3 DEF Chain
<1>3. SubSeq(s, 1, Len(s)) = s
  BY <1>1
<1>4. Part(list, s, i) = <<list>> \o s /\ Part(list, s, i + 1) = <<list>> \o s
  BY <1>1, <1>3 DEF Part
<1>5. Tail(<<list>> \o s) = s
  BY <1>1, HeadsAreNodes, ConsSet
<1> QED BY <1>2, <1>4, <1>5

\* list_for_each() goes through s, however many PCBs there are.
LEMMA TrailIs ==
  ASSUME NEW list \in ListHead, NEW s, Chain(next, list, s), Cardinality(Pcb) \in Nat
  PROVE  \A i \in 0..Cardinality(Pcb) : Trail(list)[i] = Part(list, s, i)
<1> DEFINE C == Cardinality(Pcb)
           After1(f, i) ==
             IF i = 0 THEN <<list>>
             ELSE LET t == f[i - 1]
                  IN IF next[Last(t)] = list THEN t ELSE Append(t, next[Last(t)])
           g == [i \in 0..C |-> Part(list, s, i)]
<1>1. \A i \in 1..C : i - 1 \in 0..C /\ i - 1 \in Nat /\ (i - 1) + 1 = i /\ i # 0
  OBVIOUS
<1>2. \A i \in 0..C : g[i] = After1(g, i)
  <2>1. SUFFICES ASSUME NEW i \in 0..C PROVE g[i] = After1(g, i)
    OBVIOUS
  <2>2. CASE i = 0
    <3>1. 0 <= Len(s) /\ s \in Seq(Pcb)
      BY DEF Chain
    <3>2. SubSeq(s, 1, 0) = <<>> /\ <<list>> \o <<>> = <<list>>
      BY <3>1
    <3>3. Part(list, s, 0) = <<list>>
      BY <3>1, <3>2 DEF Part
    <3> QED BY <2>2, <3>3
  <2>3. CASE i # 0
    <3>1. i \in 1..C
      BY <2>3
    <3>2. g[i - 1] = Part(list, s, i - 1) /\ g[i] = Part(list, s, (i - 1) + 1)
      BY <1>1, <3>1
    <3>3. Len(s) \in Nat
      BY DEF Chain
    <3>4. i - 1 < Len(s) \/ i - 1 >= Len(s)
      BY <3>3
    <3> HIDE DEF g
    <3>5. CASE i - 1 < Len(s)
      BY <1>1, <2>3, <3>1, <3>2, <3>5, PartGoesOn
    <3>6. CASE i - 1 >= Len(s)
      BY <1>1, <2>3, <3>1, <3>2, <3>6, PartEnds
    <3> QED BY <3>4, <3>5, <3>6
  <2> QED BY <2>2, <2>3
<1>3. g = [i \in 0..C |-> After1(g, i)]
  BY <1>2
<1> DEFINE h == Trail(list)
<1>4. h = [i \in 0..C |-> After1(h, i)]
  <2>1. h = CHOOSE f : f = [i \in 0..C |-> After1(f, i)]
    BY DEF Trail
  <2>2. \E f : f = [i \in 0..C |-> After1(f, i)]
    BY <1>3
  <2> HIDE DEF After1
  <2> QED BY <2>1, <2>2
<1>5. \A i \in 0..C : h[i] = After1(h, i)
  BY <1>4
<1> HIDE DEF h
<1> DEFINE I == {i \in 0..C : h[i] # g[i]}
<1>6. I = {}
  <2>1. SUFFICES ASSUME I # {} PROVE FALSE
    OBVIOUS
  <2> DEFINE m == Min(I)
  <2>2. m \in I /\ \A i \in I : m <= i
    <3>1. I \subseteq Nat
      BY DEF C
    <3> HIDE DEF I
    <3> QED BY <2>1, <3>1, MinNat
  <2> HIDE DEF m
  <2>3. m # 0
    BY <1>2, <1>5, <2>2
  <2>4. m \in 1..C /\ m - 1 \notin I
    BY <2>2, <2>3
  <2>5. h[m - 1] = g[m - 1]
    BY <1>1, <2>4
  <2>6. h[m] = After1(h, m) /\ g[m] = After1(g, m)
    BY <1>2, <1>5, <2>2
  <2> QED BY <2>2, <2>3, <2>5, <2>6
<1> QED BY <1>6 DEF h

LEMMA WalkIs ==
  ASSUME NEW list \in ListHead, NEW s, Chain(next, list, s)
  PROVE  Walk(list) = s
<1>1. s \in Seq(Pcb) /\ IsInjective(s) /\ Len(s) \in Nat /\ DOMAIN s = 1..Len(s)
  BY DEF Chain
<1>2. Cardinality(Pcb) \in Nat /\ Len(s) <= Cardinality(Pcb)
  <2>1. Cardinality(1..Len(s)) = Len(s) /\ IsFiniteSet(1..Len(s))
    BY <1>1, FS_Interval
  <2>2. s \in Injection(1..Len(s), Pcb)
    BY <1>1 DEF Injection
  <2> QED BY <1>1, <2>1, <2>2, ListAssumption, FS_Injection, FS_CardinalityType DEF ExistsInjection
<1>3. Trail(list)[Cardinality(Pcb)] = Part(list, s, Cardinality(Pcb))
  BY <1>2, TrailIs
<1>4. Len(s) <= Cardinality(Pcb) => Cardinality(Pcb) >= Len(s)
  BY <1>1, <1>2
<1> QED BY <1>2, <1>3, <1>4, PartEnds DEF Walk
------------------------------------------------------------------------------
(* A list that changes by one PCB.                                          *)

\* The nodes of M make one or more doubly linked rings.
Ring(nx, pv, M) ==
  \A n \in M : nx[n] \in M /\ pv[nx[n]] = n /\ pv[n] \in M /\ nx[pv[n]] = n

\* The nodes of a chain follow each other.
LEMMA ChainParts ==
  ASSUME NEW nx, NEW list \in ListHead, NEW s, Chain(nx, list, s)
  PROVE  /\ s \in Seq(Pcb) /\ IsInjective(s) /\ Len(s) \in Nat
         /\ s = <<>> <=> Len(s) = 0
         /\ DOMAIN s = 1..Len(s)
         /\ \A i \in 1..Len(s) : s[i] \in ToSet(s)
         /\ \A x \in ToSet(s) : \E i \in 1..Len(s) : s[i] = x
         /\ \A i, j \in 1..Len(s) : s[i] = s[j] => i = j
         /\ ToSet(s) \subseteq Pcb /\ list \notin Pcb
         /\ nx[list] = IF s = <<>> THEN list ELSE s[1]
         /\ \A i \in 1..Len(s) : nx[s[i]] = IF i = Len(s) THEN list ELSE s[i + 1]
<1>1. s \in Seq(Pcb) /\ IsInjective(s)
  BY DEF Chain
<1>2. /\ Len(s) \in Nat /\ DOMAIN s = 1..Len(s) /\ ToSet(s) \subseteq Pcb
      /\ \A x : x \in ToSet(s) <=> \E i \in 1..Len(s) : s[i] = x
  BY <1>1, InSet
<1>3. s = <<>> <=> Len(s) = 0
  BY <1>1, EmptySeq
<1>4. \A i, j \in 1..Len(s) : s[i] = s[j] => i = j
  BY <1>1, <1>2 DEF IsInjective
<1> QED BY <1>1, <1>2, <1>3, <1>4, HeadsAreNodes DEF Chain

\* And no two of them are followed by the same.
LEMMA ChainNodes ==
  ASSUME NEW nx, NEW list \in ListHead, NEW s, Chain(nx, list, s)
  PROVE  /\ \A m \in {list} \cup ToSet(s) : nx[m] \in {list} \cup ToSet(s)
         /\ \A m, o \in {list} \cup ToSet(s) : nx[m] = nx[o] => m = o
<1>1. Len(s) \in Nat /\ (s = <<>> <=> Len(s) = 0)
  BY ChainParts
<1>2. \A i \in 1..Len(s) : s[i] \in ToSet(s)
  BY ChainParts
<1>3. \A x \in ToSet(s) : \E i \in 1..Len(s) : s[i] = x
  BY ChainParts
<1>4. \A i, j \in 1..Len(s) : s[i] = s[j] => i = j
  BY ChainParts
<1>5. list \notin ToSet(s)
  BY ChainParts
<1>6. /\ nx[list] = IF s = <<>> THEN list ELSE s[1]
      /\ \A i \in 1..Len(s) : nx[s[i]] = IF i = Len(s) THEN list ELSE s[i + 1]
  BY ChainParts
<1> DEFINE at(i) == IF i = 0 THEN list ELSE s[i]
<1>7. \A m \in {list} \cup ToSet(s) : \E i \in 0..Len(s) : at(i) = m
  BY <1>1, <1>3, <1>5
<1>8. \A i \in 0..Len(s) : nx[at(i)] = IF i = Len(s) THEN list ELSE s[i + 1]
  BY <1>1, <1>6
<1> HIDE DEF at
<1>9. \A i \in 0..Len(s) : i # Len(s) => i + 1 \in 1..Len(s)
  BY <1>1
<1>10. \A i, j \in 0..Len(s) : nx[at(i)] = nx[at(j)] => i = j
  <2> SUFFICES ASSUME NEW i \in 0..Len(s), NEW j \in 0..Len(s), nx[at(i)] = nx[at(j)]
               PROVE  i = j
    OBVIOUS
  <2>1. CASE i = Len(s) \/ j = Len(s)
    BY <1>2, <1>5, <1>8, <1>9, <2>1
  <2>2. CASE i # Len(s) /\ j # Len(s)
    <3>1. s[i + 1] = s[j + 1]
      BY <1>8, <2>2
    <3>2. i + 1 = j + 1
      BY <1>4, <1>9, <2>2, <3>1
    <3> QED BY <3>2
  <2> QED BY <2>1, <2>2
<1>11. \A i \in 0..Len(s) : nx[at(i)] \in {list} \cup ToSet(s)
  BY <1>2, <1>8, <1>9
<1> QED BY <1>7, <1>10, <1>11

\* Links that are the same make the same list.
LEMMA FollowsSame ==
  ASSUME NEW nx, NEW wh, NEW nx2, NEW wh2, NEW list \in ListHead, NEW s,
         Follows(nx, wh, list, s), Member(wh2, list) = Member(wh, list),
         \A m \in Member(wh, list) : nx2[m] = nx[m]
  PROVE  Follows(nx2, wh2, list, s)
<1>1. \A i \in 1..Len(s) : s[i] \in ToSet(s)
  BY ChainParts DEF Follows
<1>2. ToSet(s) = {p \in Pcb : wh[p] = list} /\ list \in Member(wh, list)
      /\ ToSet(s) \subseteq Member(wh, list)
  BY DEF Follows, Member
<1>3. {p \in Pcb : wh2[p] = list} = {p \in Pcb : wh[p] = list}
  BY HeadsAreNodes DEF Member
<1> QED BY <1>1, <1>2, <1>3 DEF Follows, Chain

\* A ring with p in it, whose links are those of the list but for p's own, which leads
\* to the head, and that of one node: p has joined at the tail.
LEMMA JoinsLast ==
  ASSUME NEW nx, NEW wh \in [Pcb -> Place], NEW nx2, NEW pv2, NEW list \in ListHead, NEW s,
         Follows(nx, wh, list, s), NEW p \in Pcb, wh[p] # list,
         Ring(nx2, pv2, Member([wh EXCEPT ![p] = list], list)),
         nx2[p] = list, NEW a, \A m \in Member(wh, list) \ {a} : nx2[m] = nx[m]
  PROVE  Follows(nx2, [wh EXCEPT ![p] = list], list, Append(s, p))
<1> DEFINE M == Member(wh, list)
           M2 == Member([wh EXCEPT ![p] = list], list)
           last == IF Len(s) = 0 THEN list ELSE s[Len(s)]
           t == Append(s, p)
<1>0. Chain(nx, list, s) /\ ToSet(s) = {q \in Pcb : wh[q] = list}
  BY DEF Follows
<1>1. Len(s) \in Nat /\ (s = <<>> <=> Len(s) = 0)
  BY <1>0, ChainParts
<1>2. /\ \A i \in 1..Len(s) : s[i] \in ToSet(s)
      /\ \A i, j \in 1..Len(s) : s[i] = s[j] => i = j
  BY <1>0, ChainParts
<1>3. /\ nx[list] = IF Len(s) = 0 THEN list ELSE s[1]
      /\ \A i \in 1..Len(s) : nx[s[i]] = IF i = Len(s) THEN list ELSE s[i + 1]
  BY <1>0, <1>1, ChainParts
<1>4. list \notin Pcb /\ list \notin ToSet(s) /\ list # p
  BY <1>0, HeadsAreNodes
<1>5. /\ M = {list} \cup ToSet(s) /\ M2 = M \cup {p} /\ p \notin M /\ p \notin ToSet(s)
      /\ {q \in Pcb : [wh EXCEPT ![p] = list][q] = list} = ToSet(s) \cup {p}
  BY <1>0, <1>4 DEF Member
<1>6. \A m \in M : nx[m] \in M
  BY <1>0, <1>5, ChainNodes
<1>7. last \in M /\ nx[last] = list
  <2>1. Len(s) # 0 => Len(s) \in 1..Len(s)
    BY <1>1
  <2> QED BY <1>2, <1>3, <1>5, <2>1
<1> HIDE DEF M, M2, last
<1>8. last = a
  <2>1. pv2[list] = p
    BY <1>5 DEF Ring, M2
  <2>2. nx2[last] # list
    BY ZenonT(40), <1>5, <1>7, <2>1 DEF Ring, M2
  <2> QED BY <1>7, <2>2 DEF M
<1>9. nx2[a] = p
  <2>1. pv2[p] \in M2 /\ nx2[pv2[p]] = p
    BY <1>5 DEF Ring, M2
  <2>2. pv2[p] # p
    BY <1>4, <2>1
  <2>3. pv2[p] \in M
    BY <1>5, <2>1, <2>2
  <2>4. nx[pv2[p]] # p
    BY <1>5, <1>6, <2>3
  <2> QED BY <2>1, <2>3, <2>4 DEF M
<1>10. \A m \in M : m # a => nx2[m] = nx[m]
  BY DEF M
<1>11. t \in Seq(Pcb) /\ IsInjective(t) /\ ToSet(t) = ToSet(s) \cup {p}
  <2>1. s \in Seq(Pcb) /\ IsInjective(s)
    BY <1>0, ChainParts
  <2> QED BY <1>5, <2>1, AppendSet
<1>12. /\ Len(t) = Len(s) + 1
       /\ \A i \in 1..Len(s) : t[i] = s[i]
       /\ t[Len(s) + 1] = p
  BY <1>0, AppendProperties, ChainParts
<1> HIDE DEF t
<1>13. t # <<>>
  BY <1>1, <1>12
<1>14. nx2[list] = t[1]
  <2>1. CASE Len(s) = 0
    BY <1>8, <1>9, <1>12, <2>1 DEF last
  <2>2. CASE Len(s) # 0
    <3>1. 1 \in 1..Len(s) /\ Len(s) \in 1..Len(s)
      BY <1>1, <2>2
    <3>2. list # a
      BY <1>2, <1>4, <1>8, <2>2, <3>1 DEF last
    <3> QED BY <1>3, <1>5, <1>10, <1>12, <2>2, <3>1, <3>2
  <2> QED BY <2>1, <2>2
<1>15. ASSUME NEW i \in 1..Len(t)
       PROVE  nx2[t[i]] = IF i = Len(t) THEN list ELSE t[i + 1]
  <2>1. CASE i = Len(s) + 1
    BY <1>12, <2>1
  <2>2. CASE i = Len(s)
    <3>1. i \in 1..Len(s) /\ Len(s) # 0 /\ i # Len(s) + 1
      BY <1>1, <2>2
    <3> QED BY <1>8, <1>9, <1>12, <2>2, <3>1 DEF last
  <2>3. CASE i # Len(s) /\ i # Len(s) + 1
    <3>1. /\ i \in 1..Len(s) /\ i + 1 \in 1..Len(s) /\ Len(s) # 0 /\ Len(s) \in 1..Len(s)
      BY <1>1, <1>12, <2>3
    <3>2. s[i] # a /\ s[i] \in M
      BY <1>2, <1>5, <1>8, <2>3, <3>1 DEF last
    <3> QED BY <1>3, <1>10, <1>12, <2>3, <3>1, <3>2
  <2> QED BY <2>1, <2>2, <2>3
<1> QED BY <1>5, <1>11, <1>13, <1>14, <1>15 DEF Follows, Chain, t

\* A ring without p, whose links are those of the list but for that of one node: p has
\* left it.
LEMMA Leaves ==
  ASSUME NEW nx, NEW wh \in [Pcb -> Place], NEW nx2, NEW pv2, NEW list \in ListHead, NEW s,
         Follows(nx, wh, list, s), NEW p \in Pcb, wh[p] = list, NEW to, to # list,
         Ring(nx2, pv2, Member([wh EXCEPT ![p] = to], list)),
         NEW a, \A m \in Member(wh, list) \ {a, p} : nx2[m] = nx[m]
  PROVE  Follows(nx2, [wh EXCEPT ![p] = to], list, RemoveFirst(s, p))
<1> DEFINE M == Member(wh, list)
           M2 == Member([wh EXCEPT ![p] = to], list)
<1>0. Chain(nx, list, s) /\ ToSet(s) = {q \in Pcb : wh[q] = list}
  BY DEF Follows
<1>1. Len(s) \in Nat
  BY <1>0, ChainParts
<1>2. /\ \A i \in 1..Len(s) : s[i] \in ToSet(s)
      /\ \A i, j \in 1..Len(s) : s[i] = s[j] => i = j
  BY ZenonT(40), <1>0, ChainParts
<1>3. /\ nx[list] = IF Len(s) = 0 THEN list ELSE s[1]
      /\ \A i \in 1..Len(s) : nx[s[i]] = IF i = Len(s) THEN list ELSE s[i + 1]
  BY <1>0, ChainParts
<1>4. list \notin Pcb /\ list \notin ToSet(s) /\ list # p
  BY <1>0, HeadsAreNodes
<1>5. /\ M = {list} \cup ToSet(s) /\ M2 = M \ {p} /\ p \in M /\ p \in ToSet(s) /\ list \in M2
      /\ {q \in Pcb : [wh EXCEPT ![p] = to][q] = list} = ToSet(s) \ {p}
  BY <1>0, <1>4 DEF Member
<1>6. /\ \A m \in M : nx[m] \in M
      /\ \A m, o \in M : nx[m] = nx[o] => m = o
  <2> HIDE DEF M
  <2> QED BY <1>0, <1>5, ChainNodes
<1>7. PICK k \in 1..Len(s) : s[k] = p
  <2>1. \A x \in ToSet(s) : \E i \in 1..Len(s) : s[i] = x
    BY <1>0, ChainParts
  <2> QED BY <1>5, <2>1
<1> DEFINE before == IF k = 1 THEN list ELSE s[k - 1]
<1> HIDE DEF M, M2
<1>8. before \in M2 /\ nx[before] = p
  <2>1. CASE k = 1
    BY <1>1, <1>3, <1>5, <1>7, <2>1
  <2>2. CASE k # 1
    <3>1. k - 1 \in 1..Len(s) /\ k - 1 # k /\ (k - 1) + 1 = k /\ k - 1 # Len(s)
      BY <1>1, <2>2
    <3>2. s[k - 1] \in ToSet(s) /\ s[k - 1] # p
      BY <1>2, <1>7, <3>1
    <3> QED BY <1>3, <1>5, <1>7, <2>2, <3>1, <3>2
  <2> QED BY <2>1, <2>2
<1> HIDE DEF before
<1>9. \A m \in M : m # a /\ m # p => nx2[m] = nx[m]
  BY DEF M
<1>10. before = a
  <2>1. nx2[before] \in M2
    BY <1>8 DEF Ring, M2
  <2> QED BY <1>5, <1>8, <1>9, <2>1
<1>11. nx2[a] = nx[p]
  <2>1. nx[p] \in M2
    <3>1. nx[p] \in M /\ nx[p] # p
      BY <1>5, <1>6, <1>8
    <3> QED BY <1>5, <3>1
  <2>2. pv2[nx[p]] \in M2 /\ nx2[pv2[nx[p]]] = nx[p]
    BY <2>1 DEF Ring, M2
  <2>3. pv2[nx[p]] \in M /\ pv2[nx[p]] # p
    BY <1>5, <2>2
  <2>4. nx[pv2[nx[p]]] # nx[p]
    BY <1>5, <1>6, <2>3
  <2> QED BY <1>9, <2>2, <2>3, <2>4
<1> DEFINE t == RemoveFirst(s, p)
<1>12. t \in Seq(Pcb) /\ IsInjective(t) /\ ToSet(t) = ToSet(s) \ {p}
  <2>1. s \in Seq(Pcb) /\ IsInjective(s)
    BY <1>0, ChainParts
  <2> QED BY <2>1, RemoveFirstSet
<1>13. /\ Len(t) = Len(s) - 1
       /\ \A i \in 1..(Len(s) - 1) : t[i] = IF i < k THEN s[i] ELSE s[i + 1]
  <2>1. s \in Seq(Pcb) /\ IsInjective(s)
    BY <1>0, ChainParts
  <2>2. t = RemoveAt(s, k)
    BY <1>7, <2>1, RemoveFirstAt
  <2>3. /\ Len(RemoveAt(s, k)) = Len(s) - 1
        /\ \A i \in 1..(Len(s) - 1) : RemoveAt(s, k)[i] = IF i < k THEN s[i] ELSE s[i + 1]
    BY <2>1, RemoveAtSeq
  <2> HIDE DEF t
  <2> QED BY <2>2, <2>3
<1> HIDE DEF t
<1>14. t = <<>> <=> Len(t) = 0
  BY <1>12, EmptySeq
<1>15. nx2[list] = IF Len(t) = 0 THEN list ELSE t[1]
  <2>1. CASE k = 1
    <3>1. nx2[list] = nx[p]
      BY <1>10, <1>11, <2>1 DEF before
    <3>2. nx[p] = IF 1 = Len(s) THEN list ELSE s[1 + 1]
      BY <1>3, <1>7, <2>1
    <3>3. Len(s) # 1 => 1 \in 1..(Len(s) - 1)
      <4>1. Len(s) # 0
        BY <1>1, <1>7
      <4> QED BY SMTT(30), <1>1, <4>1
    <3>4. Len(t) = 0 <=> 1 = Len(s)
      BY <1>1, <1>13
    <3> QED BY <1>13, <2>1, <3>1, <3>2, <3>3, <3>4
  <2>2. CASE k # 1
    <3>1. k - 1 \in 1..Len(s) /\ 1 \in 1..(Len(s) - 1) /\ 1 < k /\ Len(s) # 1 /\ Len(s) # 0
      BY <1>1, <1>7, <2>2
    <3>2. list # a
      BY <1>2, <1>4, <1>10, <2>2, <3>1 DEF before
    <3>3. nx2[list] = s[1]
      BY <1>3, <1>4, <1>5, <1>9, <3>1, <3>2
    <3>4. Len(t) # 0
      BY <1>1, <1>13, <3>1
    <3> QED BY <1>13, <3>1, <3>3, <3>4
  <2> QED BY <2>1, <2>2
<1>16. ASSUME NEW i \in 1..Len(t)
       PROVE  nx2[t[i]] = IF i = Len(t) THEN list ELSE t[i + 1]
  <2>1. /\ i \in 1..(Len(s) - 1) /\ i \in 1..Len(s) /\ i + 1 \in 1..Len(s)
        /\ i # Len(s) /\ (i + 1 = Len(s) <=> i = Len(t))
        /\ i # Len(t) => i + 1 \in 1..(Len(s) - 1)
    BY <1>1, <1>13
  <2>2. \A j \in 1..Len(s) : j # k => s[j] # p /\ s[j] \in M
    BY <1>2, <1>5, <1>7
  <2>3. \A j \in 1..Len(s) : s[j] = a => j = k - 1
    <3>1. CASE k = 1
      BY <1>2, <1>4, <1>10, <3>1 DEF before
    <3>2. CASE k # 1
      <4>1. k - 1 \in 1..Len(s)
        BY <1>1, <3>2
      <4> QED BY <1>2, <1>10, <3>2, <4>1 DEF before
    <3> QED BY <3>1, <3>2
  <2>4. \A j \in 1..Len(s) : j # k /\ j # k - 1 => nx2[s[j]] = nx[s[j]]
    BY <1>9, <2>2, <2>3
  <2>5. CASE i = k - 1
    <3>1. i < k /\ k # 1 /\ i + 1 = k /\ ~(i + 1 < k)
      BY <1>1, <2>5
    <3>2. t[i] = a
      BY <1>10, <1>13, <2>1, <2>5, <3>1 DEF before
    <3>3. nx2[t[i]] = IF k = Len(s) THEN list ELSE s[k + 1]
      BY <1>3, <1>7, <1>11, <3>2
    <3> QED BY <1>13, <2>1, <3>1, <3>3
  <2>6. CASE i # k - 1 /\ i < k
    <3>1. i + 1 < k /\ i # Len(t) /\ i # k
      BY <1>1, <1>13, <2>1, <2>6
    <3>2. t[i] = s[i] /\ t[i + 1] = s[i + 1]
      BY <1>13, <2>1, <2>6, <3>1
    <3>3. nx2[s[i]] = s[i + 1]
      BY <1>3, <2>1, <2>4, <2>6, <3>1
    <3> QED BY <3>1, <3>2, <3>3
  <2>7. CASE ~(i < k)
    <3>1. ~(i + 1 < k) /\ i + 1 # k /\ i + 1 # k - 1
      BY <1>1, <2>1, <2>7
    <3>2. t[i] = s[i + 1]
      BY <1>13, <2>1, <2>7
    <3>3. nx2[s[i + 1]] = IF i + 1 = Len(s) THEN list ELSE s[i + 1 + 1]
      BY <1>3, <2>1, <2>4, <3>1
    <3> QED BY <1>13, <2>1, <3>1, <3>2, <3>3
  <2> QED BY <2>5, <2>6, <2>7
<1> QED BY <1>5, <1>12, <1>14, <1>15, <1>16 DEF Follows, Chain, t
------------------------------------------------------------------------------
(* How a step changes the lists.                                            *)

\* The list when p goes from a place to another.
Becomes(s, list, p, from, to) ==
  CASE from = list -> RemoveFirst(s, p)
    [] from # list /\ to = list -> Append(s, p)
    [] OTHER -> s

\* Between its first store and the last the SSI writes next only in a PCB that is in no
\* list; the operation takes the PCB out of the list or puts it in, and then at its end.
StoreOrder ==
  stores # <<>> =>
    /\ \A i \in 1..(Len(stores) - 1) : stores[i].field = "next" =>
         stores[i].at = change.pcb /\ where[change.pcb] \notin ListHead
    /\ change.to \in ListHead => After("next", next, stores)[change.pcb] = change.to
    /\ change.list \in ListHead =>
         (where[change.pcb] = change.list) # (change.to = change.list)

\* Every list has a sequence of its PCBs from its head on.
Queued == \A list \in ListHead : \E s : Follows(next, where, list, s)

QInv == IInv /\ Queued /\ StoreOrder

\* A step after which p is at another place, and which has changed next in p, in one node
\* of the list it leaves and in one of the list it joins.
LEMMA OneMoves ==
  ASSUME where \in [Pcb -> Place], NEW p \in Pcb, NEW to \in Place, to # where[p],
         where' = [where EXCEPT ![p] = to],
         NEW a \in {p} \cup Member(where, where[p]), NEW b \in {p} \cup Member(where, to),
         \A m \in Node \ {p, a, b} : next'[m] = next[m],
         where[p] \in ListHead => Ring(next', prev', Member(where', where[p])),
         to \in ListHead => next'[p] = to /\ Ring(next', prev', Member(where', to)),
         NEW list \in ListHead, NEW s, Follows(next, where, list, s)
  PROVE  Follows(next', where', list, Becomes(s, list, p, where[p], to))
<1>1. /\ \A m \in Member(where, list) : m \in Node
      /\ \A l \in Place : l # list => Member(where, l) \cap Member(where, list) = {}
      /\ where[p] # list => p \notin Member(where, list)
  BY HeadsAreNodes DEF Member, Node
<1>2. CASE where[p] = list
  <2>1. b \notin Member(where, list) \ {p}
    BY <1>1, <1>2
  <2>2. \A m \in Member(where, list) \ {a, p} : next'[m] = next[m]
    BY <1>1, <2>1
  <2>3. Follows(next', [where EXCEPT ![p] = to], list, RemoveFirst(s, p))
    BY <1>2, <2>2, Leaves
  <2> QED BY <1>2, <2>3 DEF Becomes
<1>3. CASE where[p] # list /\ to = list
  <2>1. a \notin Member(where, list)
    BY <1>1, <1>3
  <2>2. \A m \in Member(where, list) \ {b} : next'[m] = next[m]
    BY <1>1, <1>3, <2>1
  <2>3. Follows(next', [where EXCEPT ![p] = list], list, Append(s, p))
    BY <1>3, <2>2, JoinsLast
  <2> QED BY <1>3, <2>3 DEF Becomes
<1>4. CASE where[p] # list /\ to # list
  <2>1. \A m \in Member(where, list) : next'[m] = next[m]
    BY <1>1, <1>4
  <2>2. Member(where', list) = Member(where, list)
    BY <1>4 DEF Member
  <2>3. Follows(next', where', list, s)
    BY <2>1, <2>2, FollowsSame
  <2> QED BY <1>4, <2>3 DEF Becomes
<1> QED BY <1>2, <1>3, <1>4

\* What list_add_tail() does to next.
LEMMA AddNext ==
  ASSUME NEW nx \in [Node -> Node], NEW pv \in [Node -> Node], NEW p \in Pcb,
         NEW list \in ListHead, pv[list] # p
  PROVE  /\ After("next", nx, AddTail(nx, pv, p, list))[p] = list
         /\ \A m \in Node \ {p, pv[list]} : After("next", nx, AddTail(nx, pv, p, list))[m] = nx[m]
<1> DEFINE s == AddTail(nx, pv, p, list)
<1>1. list \in Node /\ p \in Node /\ p # list /\ pv[list] \in Node
  BY HeadsAreNodes DEF Node
<1>2. /\ DOMAIN s = 1..4
      /\ s[1] = Store("prev", list, p) /\ s[2] = Store("next", p, list)
      /\ s[3] = Store("prev", p, pv[list]) /\ s[4] = Store("next", pv[list], p)
  BY DEF AddTail, AddStores
<1>3. /\ Store("prev", list, p) \in StoreType /\ Store("next", p, list) \in StoreType
      /\ Store("prev", p, pv[list]) \in StoreType /\ Store("next", pv[list], p) \in StoreType
  BY <1>1 DEF Store, StoreType
<1>4. s \in Seq(StoreType)
  BY <1>3 DEF AddTail, AddStores
<1> HIDE DEF s
<1>5. Apart(s)
  BY <1>1, <1>2 DEF Apart, Store
<1>6. /\ s[2].field = "next" /\ s[2].at = p /\ s[2].to = list
      /\ s[4].field = "next" /\ s[4].at = pv[list]
      /\ s[1].field # "next" /\ s[3].field # "next"
  BY <1>2 DEF Store
<1>7. After("next", nx, s)[p] = list
  <2>1. 2 \in DOMAIN s
    BY <1>2
  <2> QED BY <1>4, <1>5, <1>6, <2>1, AfterAt
<1>8. ASSUME NEW m \in Node \ {p, pv[list]} PROVE After("next", nx, s)[m] = nx[m]
  BY <1>2, <1>6, AfterElse
<1> QED BY <1>7, <1>8 DEF s

\* And list_del().
LEMMA DelLinks ==
  ASSUME NEW nx \in [Node -> Node], NEW pv \in [Node -> Node], NEW p \in Node
  PROVE  /\ \A m \in Node \ {pv[p]} : After("next", nx, Del(nx, pv, p))[m] = nx[m]
         /\ \A m \in Node \ {nx[p]} : After("prev", pv, Del(nx, pv, p))[m] = pv[m]
         /\ After("next", nx, Del(nx, pv, p)) \in [Node -> Node]
         /\ After("prev", pv, Del(nx, pv, p)) \in [Node -> Node]
<1> DEFINE s == Del(nx, pv, p)
<1>1. /\ DOMAIN s = 1..2
      /\ s[1] = Store("prev", nx[p], pv[p]) /\ s[2] = Store("next", pv[p], nx[p])
  BY DEF Del, DelStores
<1>2. Store("prev", nx[p], pv[p]) \in StoreType /\ Store("next", pv[p], nx[p]) \in StoreType
  BY DEF Store, StoreType
<1>3. s \in Seq(StoreType)
  BY <1>2 DEF Del, DelStores
<1> HIDE DEF s
<1>4. Apart(s)
  BY <1>1 DEF Apart, Store
<1>5. /\ s[1].field = "prev" /\ s[1].at = nx[p]
      /\ s[2].field = "next" /\ s[2].at = pv[p]
  BY <1>1 DEF Store
<1>6. ASSUME NEW m \in Node \ {pv[p]} PROVE After("next", nx, s)[m] = nx[m]
  BY <1>1, <1>5, AfterElse
<1>7. ASSUME NEW m \in Node \ {nx[p]} PROVE After("prev", pv, s)[m] = pv[m]
  BY <1>1, <1>5, AfterElse
<1>8. After("next", nx, s) \in [Node -> Node] /\ After("prev", pv, s) \in [Node -> Node]
  BY <1>3, <1>4, AfterType
<1> QED BY <1>6, <1>7, <1>8 DEF s

\* A step that changes no list, and one that moves p and nothing else.
Kept ==
  \A list \in ListHead : \A s : Follows(next, where, list, s) => Follows(next', where', list, s)

Moved(p, to) ==
  /\ to # where[p] /\ where' = [where EXCEPT ![p] = to]
  /\ \A list \in ListHead : \A s : Follows(next, where, list, s) =>
       Follows(next', where', list, Becomes(s, list, p, where[p], to))

\* A list that the SSI is not changing is a ring.
LEMMA RingNow ==
  \A list \in ListHead : IInv /\ (stores # <<>> => change.list # list)
                           => Ring(next, prev, Member(where, list))
BY InvariantShows DEF Ring, In, Member

\* And after a step.
LEMMA RingThen ==
  \A list \in ListHead : IInv' /\ (stores' # <<>> => change'.list # list)
                           => Ring(next', prev', Member(where', list))
<1>1. (\A list \in ListHead : IInv /\ (stores # <<>> => change.list # list)
                                => Ring(next, prev, Member(where, list)))'
  BY RingNow, PTL
<1> QED BY <1>1 DEF Ring

\* A handler moves one PCB, at the end of another list if it puts it into one.
LEMMA HandlerMoves ==
  ASSUME IInv, IInv', NEW p \in Pcb, UNCHANGED <<stores, change>>, NEW to \in Place,
         where[p] # to,
         /\ where[p] \in ListHead /\ stores # <<>> => change.list # where[p]
         /\ to \in ListHead /\ stores # <<>> => change.list # to,
         \/ to = "nowhere" /\ where[p] \in ListHead /\ Out(p)
         \/ to \in ListHead /\ where[p] \notin ListHead /\ Insert(p, to)
         \/ to \in ListHead /\ where[p] \in ListHead /\ Move(p, to)
  PROVE  /\ Moved(p, to)
         /\ \A m \in Node : next'[m] # next[m] =>
              \/ m = p
              \/ where[p] \in ListHead /\ m \in Member(where, where[p])
              \/ to \in ListHead /\ m \in Member(where, to)
<1>1. /\ where \in [Pcb -> Place] /\ next \in [Node -> Node] /\ prev \in [Node -> Node]
      /\ p \in Node /\ \A list \in ListHead : list \in Place /\ list \notin Pcb /\ list \in Node
  BY HeadsAreNodes DEF IInv, Sound, Node
<1>2. \A l \in {where[p], to} \cap ListHead :
         /\ Ring(next, prev, Member(where, l)) /\ Ring(next', prev', Member(where', l))
         /\ prev[l] \in Member(where, l) /\ \A m \in Member(where, l) : m \in Node
  <2>1. SUFFICES ASSUME NEW l \in ListHead, stores # <<>> => change.list # l
                 PROVE  /\ Ring(next, prev, Member(where, l))
                        /\ Ring(next', prev', Member(where', l))
                        /\ prev[l] \in Member(where, l) /\ \A m \in Member(where, l) : m \in Node
    OBVIOUS
  <2>2. Ring(next, prev, Member(where, l)) /\ Ring(next', prev', Member(where', l))
    BY <2>1, RingNow, RingThen
  <2>3. l \in Member(where, l) /\ \A m \in Member(where, l) : m \in Node
    BY <1>1 DEF Member, Node
  <2>4. prev[l] \in Member(where, l)
    BY <2>2, <2>3 DEF Ring
  <2> QED BY <2>2, <2>3, <2>4
<1>3. where' = [where EXCEPT ![p] = to]
  BY DEF Out, Insert, Move
<1>4. PICK a \in {p} \cup Member(where, where[p]), b \in {p} \cup Member(where, to) :
         /\ \A m \in Node \ {p, a, b} : next'[m] = next[m]
         /\ to \in ListHead => next'[p] = to
         /\ where[p] \notin ListHead => a = p
         /\ to \notin ListHead => b = p
  <2>1. CASE to = "nowhere" /\ where[p] \in ListHead /\ Out(p)
    <3>1. prev[p] \in Member(where, where[p])
      BY <1>2, <2>1 DEF Ring, Member
    <3>2. \A m \in Node \ {prev[p]} : next'[m] = next[m]
      BY <1>1, <2>1, DelLinks DEF Out
    <3>3. to \notin ListHead
      BY <2>1 DEF ListHead
    <3> QED BY <2>1, <3>1, <3>2, <3>3
  <2>2. CASE to \in ListHead /\ where[p] \notin ListHead /\ Insert(p, to)
    <3>1. prev[to] \in Member(where, to) /\ prev[to] # p
      <4>1. p \notin Member(where, to)
        BY <1>1, <2>2 DEF Member
      <4> QED BY <1>2, <2>2, <4>1
    <3>2. next'[p] = to /\ \A m \in Node \ {p, prev[to]} : next'[m] = next[m]
      BY <1>1, <2>2, <3>1, AddNext DEF Insert
    <3> QED BY <2>2, <3>1, <3>2
  <2>3. CASE to \in ListHead /\ where[p] \in ListHead /\ Move(p, to)
    <3> DEFINE nx == After("next", next, Del(next, prev, p))
               pv == After("prev", prev, Del(next, prev, p))
    <3>1. /\ \A m \in Node \ {prev[p]} : nx[m] = next[m]
          /\ \A m \in Node \ {next[p]} : pv[m] = prev[m]
          /\ nx \in [Node -> Node] /\ pv \in [Node -> Node]
      BY <1>1, DelLinks
    <3>2. /\ prev[p] \in Member(where, where[p]) /\ next[p] \in Member(where, where[p])
          /\ prev[to] \in Member(where, to) /\ p \notin Member(where, to)
          /\ to \notin Member(where, where[p])
      BY <1>1, <1>2, <2>3 DEF Ring, Member
    <3>3. pv[to] = prev[to]
      BY <1>1, <2>3, <3>1, <3>2
    <3>4. next' = After("next", nx, AddTail(nx, pv, p, to))
      BY <2>3 DEF Move
    <3> HIDE DEF nx, pv
    <3>5. /\ next'[p] = to
          /\ \A m \in Node \ {p, prev[to]} : next'[m] = nx[m]
      BY <2>3, <3>1, <3>2, <3>3, <3>4, AddNext
    <3> QED BY <2>3, <3>1, <3>2, <3>5
  <2> QED BY <2>1, <2>2, <2>3
<1>5. Moved(p, to)
  <2>1. SUFFICES ASSUME NEW list \in ListHead, NEW s, Follows(next, where, list, s)
                 PROVE  Follows(next', where', list, Becomes(s, list, p, where[p], to))
    BY <1>3 DEF Moved
  <2> QED BY <1>1, <1>2, <1>3, <1>4, <2>1, OneMoves
<1> QED BY <1>4, <1>5
\* A step of a handler keeps the order of the stores that are left.
LEMMA OrderKept ==
  ASSUME IInv, StoreOrder, NEW p \in Pcb, NEW to \in Place, UNCHANGED <<stores, change>>,
         stores # <<>> => /\ p # change.pcb /\ change.list \notin {where[p], to}
                          /\ "nowhere" \notin {to},
         where' = [where EXCEPT ![p] = to],
         where[p] # "nowhere",
         \A m \in Node : next'[m] # next[m] =>
              \/ m = p
              \/ where[p] \in ListHead /\ m \in Member(where, where[p])
              \/ to \in ListHead /\ m \in Member(where, to)
  PROVE  StoreOrder'
<1>1. SUFFICES ASSUME stores # <<>> PROVE StoreOrder'
  BY DEF StoreOrder
<1>2. /\ where \in [Pcb -> Place] /\ change.pcb \in Pcb /\ change.pcb \in Node
      /\ where[change.pcb] \in {change.list, "nowhere"}
  BY <1>1 DEF IInv, Sound, InOperation, Node
<1>3. where'[change.pcb] = where[change.pcb]
  BY <1>1, <1>2
<1>4. next'[change.pcb] = next[change.pcb]
  BY <1>1, <1>2, HeadsAreNodes DEF Member
<1>5. After("next", next', stores)[change.pcb] = After("next", next, stores)[change.pcb]
  BY <1>2, <1>4 DEF After
<1>6. /\ \A i \in 1..(Len(stores) - 1) : stores[i].field = "next" =>
            stores[i].at = change.pcb /\ where[change.pcb] \notin ListHead
      /\ change.to \in ListHead => After("next", next, stores)[change.pcb] = change.to
      /\ change.list \in ListHead =>
            (where[change.pcb] = change.list) # (change.to = change.list)
  BY <1>1 DEF StoreOrder
<1> HIDE DEF StoreOrder
<1>7. /\ stores' = stores /\ change' = change
  OBVIOUS
<1>8. After("next", next, stores)' = After("next", next', stores)
  BY <1>7 DEF After
<1> QED BY <1>3, <1>5, <1>6, <1>7, <1>8 DEF StoreOrder

\* DeviceInterrupt and WakeOne.
LEMMA InterruptMoves ==
  ASSUME IInv, StoreOrder, ~clashed', NEW p \in Pcb,
         DeviceInterrupt(p) \/ WakeOne(p)
  PROVE  Moved(p, "readyQueue") /\ StoreOrder'
<1>1. IInv' /\ UNCHANGED <<stores, change>>
  BY InterruptKeeps DEF DeviceInterrupt, WakeOne, ssi
<1>2. /\ "readyQueue" \in ListHead /\ "readyQueue" \in Place /\ "pseudoClockQueue" \in ListHead
      /\ "device" \notin ListHead
  BY DEF ListHead, Place
<1>3. stores # <<>> => /\ change.list # "readyQueue"
                       /\ where[change.pcb] \in {change.list, "nowhere"}
                       /\ change.list \in ListHead \cup {"nowhere"}
  <2>1. stores # <<>> => change.list # "readyQueue"
    BY Unclashed DEF DeviceInterrupt, WakeOne
  <2> QED BY <1>2, <2>1 DEF IInv, Sound, InOperation
<1>4. CASE DeviceInterrupt(p)
  <2>1. where[p] = "device" /\ Insert(p, "readyQueue")
    BY <1>4 DEF DeviceInterrupt
  <2>2. stores # <<>> => p # change.pcb /\ change.list # "device"
    BY <1>2, <1>3, <2>1
  <2>3. /\ Moved(p, "readyQueue")
        /\ \A m \in Node : next'[m] # next[m] =>
             \/ m = p
             \/ where[p] \in ListHead /\ m \in Member(where, where[p])
             \/ "readyQueue" \in ListHead /\ m \in Member(where, "readyQueue")
    BY <1>1, <1>2, <1>3, <2>1, HandlerMoves
  <2>4. where' = [where EXCEPT ![p] = "readyQueue"]
    BY <2>1 DEF Insert
  <2> QED BY <1>1, <1>2, <1>3, <2>1, <2>2, <2>3, <2>4, OrderKept
<1>5. CASE WakeOne(p)
  <2>1. stores # <<>> => change.list # "pseudoClockQueue"
    BY <1>5, Unclashed DEF WakeOne
  <2>2. where[p] = "pseudoClockQueue" /\ Move(p, "readyQueue")
    <3>1. Ring(next, prev, Member(where, "pseudoClockQueue"))
      BY <1>2, <2>1, RingNow
    <3>2. p \in Member(where, "pseudoClockQueue") /\ p # "pseudoClockQueue"
      BY <1>5, <3>1 DEF WakeOne, Empty, Ring, Member
    <3> QED BY <1>5, <3>2 DEF WakeOne, Member
  <2>3. stores # <<>> => p # change.pcb
    BY <1>2, <1>3, <2>1, <2>2
  <2>4. /\ Moved(p, "readyQueue")
        /\ \A m \in Node : next'[m] # next[m] =>
             \/ m = p
             \/ where[p] \in ListHead /\ m \in Member(where, where[p])
             \/ "readyQueue" \in ListHead /\ m \in Member(where, "readyQueue")
    BY <1>1, <1>2, <1>3, <2>1, <2>2, HandlerMoves
  <2>5. where' = [where EXCEPT ![p] = "readyQueue"]
    BY <2>2 DEF Move
  <2> QED BY <1>1, <1>2, <1>3, <2>1, <2>2, <2>3, <2>4, <2>5, OrderKept
<1> QED BY <1>4, <1>5

\* The handlers that run when the SSI is in no operation.
LEMMA DispatchMoves ==
  ASSUME IInv, NEW q \in Pcb, NEW list \in ListHead,
         Dispatch(q) \/ PutAway(list) \/ SendMessage(q)
  PROVE  (\E p \in Pcb, to \in Place : Moved(p, to)) /\ StoreOrder'
<1>1. IInv' /\ UNCHANGED <<stores, change>>
  BY HandlerKeeps DEF Dispatch, PutAway, SendMessage, ssi
<1>2. stores = <<>>
  BY ListAssumption DEF IInv, Apace, Dispatch, PutAway, SendMessage, Idle, Node
<1>3. /\ "readyQueue" \in ListHead /\ "receiveMessageQueue" \in ListHead
      /\ "nowhere" \notin ListHead /\ "nowhere" \in Place /\ ListHead \subseteq Place
  BY DEF ListHead, Place
<1>4. StoreOrder'
  BY <1>1, <1>2 DEF StoreOrder
<1>5. CASE Dispatch(q)
  <2>1. Ring(next, prev, Member(where, "readyQueue"))
    BY <1>2, <1>3, RingNow
  <2>2. where[q] = "readyQueue" /\ Out(q)
    <3>1. q \in Member(where, "readyQueue") /\ q # "readyQueue"
      BY <1>5, <2>1 DEF Dispatch, Empty, Ring, Member
    <3> QED BY <1>5, <3>1 DEF Dispatch, Member
  <2>3. Moved(q, "nowhere")
    BY <1>1, <1>2, <1>3, <2>2, HandlerMoves
  <2> QED BY <1>3, <1>4, <2>3
<1>6. CASE PutAway(list)
  <2>1. current_process \in Pcb /\ where[current_process] = "nowhere"
        /\ Insert(current_process, list)
    BY <1>6 DEF PutAway, IInv, CurrentUnlinked, Apace
  <2>2. Moved(current_process, list)
    BY <1>1, <1>2, <1>3, <2>1, HandlerMoves
  <2> QED BY <1>3, <1>4, <2>1, <2>2
<1>7. CASE SendMessage(q)
  <2>1. where[q] = "receiveMessageQueue" /\ Move(q, "readyQueue")
    BY <1>7 DEF SendMessage
  <2>2. Moved(q, "readyQueue")
    BY <1>1, <1>2, <1>3, <2>1, HandlerMoves
  <2> QED BY <1>3, <1>4, <2>2
<1> QED BY <1>5, <1>6, <1>7

\* Links and lists as they were.
LEMMA KeptWhenSame ==
  ASSUME UNCHANGED next, \A list \in ListHead : Member(where', list) = Member(where, list)
  PROVE  Kept
BY FollowsSame DEF Kept

\* The SSI takes up a request.
LEMMA ServeMoves ==
  ASSUME IInv, NEW p \in Pcb, SsiServe(p)
  PROVE  Kept /\ StoreOrder'
<1>1. stores = <<>> /\ stores' = <<>> /\ UNCHANGED next
  BY DEF SsiServe, Idle
<1>2. \A list \in ListHead : Member(where', list) = Member(where, list)
  <2>1. where' = where \/ (where[p] = "device" /\ where' = [where EXCEPT ![p] = "nowhere"])
    BY DEF SsiServe, CreateProcess, WaitForClock, DoIO, KillProcess
  <2>2. where \in [Pcb -> Place]
    BY DEF IInv, Sound
  <2> QED BY <2>1, <2>2 DEF Member, ListHead
<1> QED BY <1>1, <1>2, KeptWhenSame DEF StoreOrder

\* The SSI calls an operation: its stores come in an order that keeps the list walkable.
LEMMA CallMoves ==
  ASSUME IInv, SsiCall
  PROVE  Kept /\ StoreOrder'
<1>1. /\ stores = <<>> /\ calls # <<>> /\ UNCHANGED <<next, prev, where>>
  BY DEF SsiCall, links
<1>2. Kept
  BY <1>1, KeptWhenSame DEF Member
<1>3. /\ LinksOK(next, prev, where) /\ next \in [Node -> Node] /\ prev \in [Node -> Node]
      /\ where \in [Pcb -> Place] /\ Landed(where) = where
  BY <1>1, SoundIdle DEF IInv, LinksOK, Landed
<1>4. PICK p \in Pcb \ {ssi_pcb}, list \in ListHead : Fit(p, list)
  BY <1>1 DEF IInv, CallsFit
<1>5. "nowhere" \notin ListHead /\ "device" \notin ListHead
  BY DEF ListHead
<1>6. \/ where[p] = "nowhere" /\ calls[1] \in {Call("add", p, list), Call("init", p, "nowhere")}
      \/ where[p] \in ListHead /\ calls[1] \in {Call("del", p, "device"), Call("del", p, "nowhere")}
  BY <1>3, <1>4 DEF Fit
<1>7. StoreOrder' = (stores' # <<>> =>
        /\ \A i \in 1..(Len(stores') - 1) : stores'[i].field = "next" =>
             stores'[i].at = change'.pcb /\ where[change'.pcb] \notin ListHead
        /\ change'.to \in ListHead => After("next", next, stores')[change'.pcb] = change'.to
        /\ change'.list \in ListHead =>
             (where[change'.pcb] = change'.list) # (change'.to = change'.list))
  BY <1>1 DEF StoreOrder, After
<1>8. CASE where[p] = "nowhere" /\ calls[1] = Call("add", p, list)
  <2>1. /\ stores' = AddTail(next, prev, p, list)
        /\ change' = [pcb |-> p, list |-> list, to |-> list]
    BY <1>8 DEF SsiCall, Call
  <2>2. /\ Len(stores') = 4 /\ stores'[1].field = "prev" /\ stores'[2].at = p
        /\ stores'[3].field = "prev"
    BY <2>1 DEF AddTail, AddStores, Store
  <2>3. After("next", next, stores')[p] = list
    <3>1. prev[list] # p
      BY <1>3, <1>5, <1>8, HeadsAreNodes DEF LinksOK, Linked, Member
    <3> QED BY <1>3, <2>1, <3>1, AddNext
  <2>4. \A i \in 1..(Len(stores') - 1) : stores'[i].field = "next" => stores'[i].at = p
    BY <2>2
  <2> QED BY <1>2, <1>5, <1>7, <1>8, <2>1, <2>3, <2>4
<1>9. CASE where[p] = "nowhere" /\ calls[1] = Call("init", p, "nowhere")
  <2>1. /\ stores' = InitStores(p)
        /\ change' = [pcb |-> p, list |-> "nowhere", to |-> "nowhere"]
    BY <1>9 DEF SsiCall, Call
  <2>2. Len(stores') = 2 /\ stores'[1].at = p
    BY <2>1 DEF InitStores, Store
  <2>3. \A i \in 1..(Len(stores') - 1) : stores'[i].at = p
    BY <2>2
  <2> QED BY <1>2, <1>5, <1>7, <1>9, <2>1, <2>3
<1>10. CASE where[p] \in ListHead /\ calls[1] \in {Call("del", p, "device"), Call("del", p, "nowhere")}
  <2>1. /\ stores' = Del(next, prev, p)
        /\ change'.pcb = p /\ change'.list = where[p] /\ change'.to \in {"device", "nowhere"}
    BY <1>10 DEF SsiCall, Call
  <2>2. Len(stores') = 2 /\ stores'[1].field = "prev"
    BY <2>1 DEF Del, DelStores, Store
  <2>3. \A i \in 1..(Len(stores') - 1) : stores'[i].field # "next"
    BY <2>2
  <2> QED BY ZenonT(40), <1>2, <1>5, <1>7, <1>10, <2>1, <2>3
<1> QED BY <1>6, <1>8, <1>9, <1>10

\* A store of the SSI: the last one takes the PCB out or puts it in, those before it
\* change no list.
LEMMA StoreMoves ==
  ASSUME IInv, StoreOrder, SsiStore
  PROVE  /\ Kept \/ (change.pcb \in Pcb /\ change.to \in Place /\ Moved(change.pcb, change.to))
         /\ StoreOrder'
<1> DEFINE p == change.pcb
           to == change.to
           a == stores[1].at
<1>1. /\ stores # <<>> /\ UNCHANGED change /\ stores' = Tail(stores)
      /\ next' = After("next", next, <<stores[1]>>)
      /\ where' = IF Len(stores) = 1 THEN [where EXCEPT ![p] = to] ELSE where
  BY DEF SsiStore
<1>2. /\ next \in [Node -> Node] /\ where \in [Pcb -> Place]
      /\ stores \in Seq(StoreType) /\ Apart(stores)
      /\ p \in Pcb /\ to \in Place /\ change.list \in Place
  BY DEF IInv, Sound
<1>3. /\ change.list \in ListHead \cup {"nowhere"}
      /\ where[p] \in {change.list, "nowhere"} /\ to \in {change.list, "nowhere", "device"}
      /\ \A i \in DOMAIN stores : stores[i].at \in {p} \cup (Member(where, change.list) \cap Node)
  BY <1>1 DEF IInv, Sound, InOperation
<1>4. /\ Len(stores) \in Nat /\ Len(stores) >= 1 /\ 1 \in DOMAIN stores
      /\ a \in Node /\ stores[1].field \in {"next", "prev"}
      /\ Len(stores) = 1 => stores' = <<>>
      /\ Len(stores) # 1 => /\ Len(stores') = Len(stores) - 1 /\ stores' # <<>>
                            /\ \A i \in 1..(Len(stores) - 1) : stores'[i] = stores[i + 1]
  <2>1. ASSUME NEW s \in Seq(StoreType), s # <<>>
        PROVE  /\ Len(s) \in Nat /\ Len(s) >= 1 /\ 1 \in DOMAIN s /\ s[1] \in StoreType
               /\ Len(Tail(s)) = Len(s) - 1
               /\ Len(s) = 1 => Tail(s) = <<>>
               /\ Len(s) # 1 => Tail(s) # <<>>
               /\ \A i \in 1..(Len(s) - 1) : Tail(s)[i] = s[i + 1]
    <3>1. Len(s) \in Nat /\ Len(s) >= 1 /\ 1 \in DOMAIN s /\ s[1] \in StoreType
      BY <2>1, EmptySeq
    <3>2. /\ Tail(s) \in Seq(StoreType) /\ Len(Tail(s)) = Len(s) - 1
          /\ \A i \in 1..(Len(s) - 1) : Tail(s)[i] = s[i + 1]
      BY <2>1, HeadTailProperties
    <3>3. Len(s) = 1 <=> Tail(s) = <<>>
      BY <3>1, <3>2, EmptySeq
    <3> QED BY <3>1, <3>2, <3>3
  <2> QED BY <1>1, <1>2, <2>1 DEF StoreType
<1>5. /\ \A m \in Node : m # a \/ stores[1].field = "prev" => next'[m] = next[m]
  <2> DEFINE one == <<stores[1]>>
  <2>1. DOMAIN one = {1} /\ one[1] = stores[1]
    OBVIOUS
  <2> HIDE DEF one
  <2> QED BY <1>1, <2>1, AfterElse DEF one
<1>6. /\ \A i \in 1..(Len(stores) - 1) : stores[i].field = "next" =>
           stores[i].at = p /\ where[p] \notin ListHead
      /\ to \in ListHead => After("next", next, stores)[p] = to
      /\ change.list \in ListHead => (where[p] = change.list) # (to = change.list)
  BY <1>1 DEF StoreOrder
<1>7. After("next", next', stores') = After("next", next, stores)
  BY <1>1, <1>2, AfterFirst
<1>8. /\ \A list \in ListHead : \A m \in Member(where, list) : m \in Node
      /\ \A list \in ListHead : p \in Member(where, list) <=> where[p] = list
  BY <1>2, HeadsAreNodes DEF Member, Node
<1>9. CASE Len(stores) # 1
  <2>1. where' = where /\ 1 \in 1..(Len(stores) - 1)
    BY <1>1, <1>4, <1>9
  <2>2. \A list \in ListHead : \A m \in Member(where, list) : next'[m] = next[m]
    BY <1>4, <1>5, <1>6, <1>8, <2>1
  <2>3. Kept
    BY <2>1, <2>2, FollowsSame DEF Kept
  <2>4. StoreOrder'
    <3>1. \A i \in 1..(Len(stores') - 1) : stores'[i].field = "next" =>
            stores'[i].at = p /\ where[p] \notin ListHead
      <4>1. \A i \in 1..(Len(stores') - 1) : /\ i + 1 \in 1..(Len(stores) - 1)
                                             /\ stores'[i] = stores[i + 1]
        BY SMTT(30), <1>4, <1>9
      <4> QED BY <1>6, <4>1
    <3>2. After("next", next, stores)' = After("next", next', stores')
      BY DEF After
    <3> QED BY <1>1, <1>6, <1>7, <2>1, <3>1, <3>2 DEF StoreOrder
  <2> QED BY <2>3, <2>4
<1>10. CASE Len(stores) = 1
  <2>1. stores' = <<>> /\ where' = [where EXCEPT ![p] = to]
    BY <1>1, <1>4, <1>10
  <2>2. StoreOrder'
    BY <2>1 DEF StoreOrder
  <2>3. CASE change.list \notin ListHead
    <3>1. where[p] = "nowhere" /\ to \notin ListHead /\ where[p] \notin ListHead
      BY <1>3, <2>3 DEF ListHead
    <3>2. a = p \/ a \in Member(where, "nowhere")
      BY <1>3, <1>4, <2>3
    <3>3. \A list \in ListHead : a \notin Member(where, list)
      BY <1>2, <1>8, <3>1, <3>2, HeadsAreNodes DEF Member, ListHead
    <3>4. \A list \in ListHead : Member(where', list) = Member(where, list)
      BY <1>2, <2>1, <3>1 DEF Member
    <3>5. Kept
      BY <1>5, <1>8, <3>3, <3>4, FollowsSame DEF Kept
    <3> QED BY <2>2, <3>5
  <2>4. CASE change.list \in ListHead
    <3>1. IInv' /\ \A list \in ListHead : Ring(next', prev', Member(where', list))
      BY <2>1, StoreKeeps, RingThen
    <3>2. to # where[p] /\ change.list \in {where[p], to}
      BY <1>6, <2>4
    <3>3. to \in ListHead => next'[p] = to
      <4>1. After("next", next', stores') = next'
        <5>1. next' \in [Node -> Node]
          BY <3>1 DEF IInv, Sound
        <5> QED BY <2>1, <5>1, AfterNothing
      <4> QED BY <1>6, <1>7, <4>1
    <3>4. a \in {p} \cup Member(where, where[p]) \/ a \in {p} \cup Member(where, to)
      BY <1>3, <1>4, <3>2
    <3>5. \A m \in Node \ {p, a} : next'[m] = next[m]
      BY <1>5
    <3>6. \A list \in ListHead : \A s : Follows(next, where, list, s) =>
            Follows(next', where', list, Becomes(s, list, p, where[p], to))
      <4> SUFFICES ASSUME NEW list \in ListHead, NEW s, Follows(next, where, list, s)
                   PROVE  Follows(next', where', list, Becomes(s, list, p, where[p], to))
        OBVIOUS
      <4> HIDE DEF p, to, a
      <4>1. CASE a \in {p} \cup Member(where, where[p])
        <5>1. p \in {p} \cup Member(where, to) /\ \A m \in Node \ {p, a, p} : next'[m] = next[m]
          BY <3>5
        <5> QED BY <1>2, <2>1, <3>1, <3>2, <3>3, <4>1, <5>1, OneMoves
      <4>2. CASE a \in {p} \cup Member(where, to)
        <5>1. p \in {p} \cup Member(where, where[p])
              /\ \A m \in Node \ {p, p, a} : next'[m] = next[m]
          BY <3>5
        <5> QED BY <1>2, <2>1, <3>1, <3>2, <3>3, <4>2, <5>1, OneMoves
      <4> QED BY <3>4, <4>1, <4>2
    <3> QED BY <1>2, <2>1, <2>2, <3>2, <3>6 DEF Moved
  <2> QED BY <2>3, <2>4
<1> QED BY <1>9, <1>10

\* Every step keeps the lists, but that one PCB may move.
LEMMA NextMoves ==
  ASSUME IInv, StoreOrder, ~clashed', [Next]_vars
  PROVE  /\ Kept \/ \E p \in Pcb, to \in Place : Moved(p, to)
         /\ StoreOrder'
<1>1. "readyQueue" \in ListHead /\ "readyQueue" \in Place
  BY DEF ListHead, Place
<1>2. CASE SsiCall
  BY <1>2, CallMoves
<1>3. CASE SsiStore
  BY <1>3, StoreMoves
<1>4. CASE IntervalTimer \/ WakeEnd \/ UNCHANGED vars
  <2>1. UNCHANGED <<next, prev, where, stores, change>>
    BY <1>4 DEF IntervalTimer, WakeEnd, vars, links, ssi
  <2>2. Kept
    BY <2>1, KeptWhenSame DEF Member
  <2>3. StoreOrder'
    BY <2>1 DEF StoreOrder, After
  <2> QED BY <2>2, <2>3
<1>5. CASE ReceiveMessage \/ ProcessorLocalTimer \/ Die
  <2>1. PICK list \in ListHead : PutAway(list)
    BY <1>5 DEF ReceiveMessage, ProcessorLocalTimer, Die, ListHead
  <2>2. ssi_pcb \in Pcb
    BY ListAssumption
  <2> QED BY <2>1, <2>2, DispatchMoves
<1>6. ASSUME NEW p \in Pcb,
             SsiServe(p) \/ DeviceInterrupt(p) \/ WakeOne(p) \/ Dispatch(p) \/ SendMessage(p)
      PROVE  /\ Kept \/ \E q \in Pcb, to \in Place : Moved(q, to)
             /\ StoreOrder'
  <2>1. CASE SsiServe(p)
    BY <2>1, ServeMoves
  <2>2. CASE DeviceInterrupt(p) \/ WakeOne(p)
    <3>1. Moved(p, "readyQueue") /\ StoreOrder'
      BY <2>2, InterruptMoves
    <3> QED BY <1>1, <3>1
  <2>3. CASE Dispatch(p) \/ SendMessage(p)
    BY <1>1, <2>3, DispatchMoves
  <2> QED BY <1>6, <2>1, <2>2, <2>3
<1> QED BY <1>2, <1>3, <1>4, <1>5, <1>6 DEF Next

\* Whatever the step, every list still has its sequence.
LEMMA QueuedKeeps ==
  ASSUME QInv, ~clashed', [Next]_vars
  PROVE  QInv'
<1>1. IInv' /\ StoreOrder' /\ (Kept \/ \E p \in Pcb, to \in Place : Moved(p, to))
  BY StepKeeps, NextMoves DEF QInv
<1>2. ASSUME NEW list \in ListHead PROVE \E s : Follows(next', where', list, s)
  <2>1. PICK s : Follows(next, where, list, s)
    BY DEF QInv, Queued
  <2> QED BY <1>1, <2>1 DEF Kept, Moved
<1>3. Queued'
  BY <1>2 DEF Queued, Follows, Chain
<1> QED BY <1>1, <1>3 DEF QInv

\* list_for_each() finds the PCBs of a list, in its order.
LEMMA WalkFollows ==
  ASSUME NEW list \in ListHead, NEW s, Follows(next, where, list, s)
  PROVE  Walk(list) = s
BY WalkIs DEF Follows

\* And the walk goes through it.
LEMMA QueuedShows == QInv => \A list \in ListHead : Complete(list)
<1>1. SUFFICES ASSUME QInv, NEW list \in ListHead
               PROVE  ToSet(Walk(list)) = {p \in Pcb : where[p] = list}
  BY DEF Complete
<1>2. PICK s : Follows(next, where, list, s)
  BY <1>1 DEF QInv, Queued
<1> QED BY <1>2, WalkFollows DEF Follows
------------------------------------------------------------------------------
(* The queues.                                                              *)

\* A list that p leaves, joins or is not concerned with is a step of Queues.
LEMMA BecomesMoves ==
  ASSUME NEW nx, NEW wh, NEW list \in ListHead, NEW s, Follows(nx, wh, list, s),
         NEW p \in Pcb, NEW to \in Place, to # wh[p]
  PROVE  /\ RemoveFirst(Becomes(s, list, p, wh[p], to), p) = RemoveFirst(s, p)
         /\ to = list => Last(Becomes(s, list, p, wh[p], to)) = p
<1>1. s \in Seq(Pcb) /\ IsInjective(s) /\ (p \in ToSet(s) <=> wh[p] = list)
  BY DEF Follows, Chain
<1>2. CASE wh[p] = list
  <2>1. RemoveFirst(s, p) \in Seq(Pcb) /\ p \notin ToSet(RemoveFirst(s, p))
    BY <1>1, RemoveFirstSet
  <2>2. RemoveFirst(RemoveFirst(s, p), p) = RemoveFirst(s, p)
    <3> DEFINE t == RemoveFirst(s, p)
    <3>1. t \in Seq(Pcb) /\ p \notin ToSet(t)
      BY <2>1
    <3> HIDE DEF t
    <3>2. RemoveFirst(t, p) = t
      BY <3>1, RemoveFirstSet
    <3> QED BY <3>2 DEF t
  <2> QED BY <1>2, <2>2 DEF Becomes
<1>3. CASE wh[p] # list /\ to = list
  <2>1. RemoveFirst(Append(s, p), p) = s /\ Last(Append(s, p)) = p
    BY <1>1, <1>3, RemoveLast
  <2>2. RemoveFirst(s, p) = s
    BY <1>1, <1>3, RemoveFirstSet
  <2> QED BY <1>3, <2>1, <2>2 DEF Becomes
<1>4. CASE wh[p] # list /\ to # list
  BY <1>4 DEF Becomes
<1> QED BY <1>2, <1>3, <1>4

\* The operators of Queues are those of this module.
LEMMA SameOperators ==
  /\ \A s : Q!ToSet(s) = ToSet(s) /\ (Q!IsInjective(s) <=> IsInjective(s)) /\ Q!Last(s) = Last(s)
  /\ \A s, e : Q!RemoveFirst(s, e) = RemoveFirst(s, e)
  /\ \A S : Q!Cardinality(S) = Cardinality(S)
<1>1. \A s : Q!ToSet(s) = ToSet(s) /\ (Q!IsInjective(s) <=> IsInjective(s)) /\ Q!Last(s) = Last(s)
  BY DEF Q!ToSet, ToSet, Q!IsInjective, IsInjective, Q!Last, Last
<1>2. \A s, i : Q!RemoveAt(s, i) = RemoveAt(s, i)
  BY DEF Q!RemoveAt, RemoveAt
<1>3. \A S : Q!Min(S) = Min(S)
  BY DEF Q!Min, Min
<1>4. \A S : Q!Cardinality(S) = Cardinality(S)
  BY Zenon DEF Q!Cardinality, Cardinality
<1>5. ASSUME NEW s, NEW e PROVE Q!RemoveFirst(s, e) = RemoveFirst(s, e)
  BY <1>2, <1>3 DEF Q!RemoveFirst, RemoveFirst, Q!SelectInSeq, SelectInSeq
<1> QED BY <1>1, <1>4, <1>5

\* The refinement mapping: what the walk finds from each head.
Walked == [pcbFree_h |-> Walk("pcbFree_h"), readyQueue |-> Walk("readyQueue"),
           receiveMessageQueue |-> Walk("receiveMessageQueue"),
           pseudoClockQueue |-> Walk("pseudoClockQueue")]

\* The walked lists are indexed by the heads.
LEMMA WalkedIs ==
  /\ DOMAIN Walked = ListHead
  /\ \A list \in ListHead : Walked[list] = Walk(list)
BY DEF Walked, ListHead

\* They are queues that share no PCB.
LEMMA QueuesInit == QInv => Q!Init
<1>1. SUFFICES ASSUME QInv PROVE Q!Init
  OBVIOUS
<1>2. \A list \in ListHead : Follows(next, where, list, Walked[list])
  BY <1>1, WalkFollows, WalkedIs DEF QInv, Queued
<1>3. \A list \in ListHead : Walked[list] \in Seq(Pcb) /\ IsInjective(Walked[list])
  BY <1>2 DEF Follows, Chain
<1>4. \A g, h \in ListHead : g # h => ToSet(Walked[g]) \cap ToSet(Walked[h]) = {}
  BY <1>2 DEF Follows
<1>5. DOMAIN Walked = ListHead
  BY WalkedIs
<1>6. /\ \A h \in ListHead : Walked[h] \in Seq(Pcb) /\ Q!IsInjective(Walked[h])
      /\ \A g, h \in ListHead : g # h => Q!ToSet(Walked[g]) \cap Q!ToSet(Walked[h]) = {}
  BY <1>3, <1>4, SameOperators
<1> QED BY <1>5, <1>6 DEF Q!Init, Walked

\* The walk after a step.
LEMMA WalkedThen ==
  /\ \A list \in ListHead : \A s : Follows(next', where', list, s) => Walked'[list] = s
  /\ DOMAIN Walked' = ListHead
<1>1. (\A list \in ListHead : \A s : Follows(next, where, list, s) => Walked[list] = s)'
  <2>1. \A list \in ListHead : \A s : Follows(next, where, list, s) => Walked[list] = s
    BY WalkFollows, WalkedIs
  <2> QED BY <2>1, PTL
<1>2. (DOMAIN Walked = ListHead)'
  BY WalkedIs, PTL
<1> QED BY <1>1, <1>2 DEF Follows, Chain

\* Every step of ListX is one of Queues or changes no queue.
LEMMA QueuesNext ==
  ASSUME QInv, ~clashed', [Next]_vars
  PROVE  Q!Next \/ UNCHANGED Walked
<1>1. Kept \/ \E p \in Pcb, to \in Place : Moved(p, to)
  BY NextMoves DEF QInv
<1>2. \A list \in ListHead : Follows(next, where, list, Walked[list])
  BY WalkFollows, WalkedIs DEF QInv, Queued
<1>3. CASE Kept
  <2>1. \A list \in ListHead : Walked'[list] = Walked[list]
    BY <1>2, <1>3, WalkedThen DEF Kept
  <2>2. /\ Walked' = [list \in ListHead |-> Walked'[list]]
        /\ Walked = [list \in ListHead |-> Walked[list]]
    BY WalkedThen DEF Walked, ListHead
  <2>3. Walked' = Walked
    BY <2>1, <2>2
  <2> QED BY <2>3
<1>4. ASSUME NEW p \in Pcb, NEW to \in Place, Moved(p, to) PROVE Q!Next
  <2>1. \A list \in ListHead :
          /\ Follows(next', where', list, Walked'[list])
          /\ Walked'[list] = Becomes(Walked[list], list, p, where[p], to)
    BY <1>2, <1>4, WalkedThen DEF Moved
  <2>2. to # where[p] /\ where' = [where EXCEPT ![p] = to] /\ where \in [Pcb -> Place]
    BY <1>4 DEF Moved, QInv, IInv, Sound
  <2>3. \A list \in ListHead : p \in ToSet(Walked'[list]) <=> to = list
    BY <2>1, <2>2 DEF Follows
  <2>4. PICK q, q2 : q = Walked /\ q2 = Walked'
    OBVIOUS
  <2>5. ASSUME NEW list \in ListHead
        PROVE  /\ RemoveFirst(q2[list], p) = RemoveFirst(q[list], p)
               /\ p \in ToSet(q2[list]) => IsInjective(q2[list]) /\ Last(q2[list]) = p
    <3>1. Follows(next, where, list, q[list])
      BY <1>2, <2>4
    <3>2. q2[list] = Becomes(q[list], list, p, where[p], to)
      BY <2>1, <2>4
    <3>3. IsInjective(q2[list]) /\ (p \in ToSet(q2[list]) <=> to = list)
      BY <2>1, <2>3, <2>4 DEF Follows, Chain
    <3>4. /\ RemoveFirst(Becomes(q[list], list, p, where[p], to), p) = RemoveFirst(q[list], p)
          /\ to = list => Last(Becomes(q[list], list, p, where[p], to)) = p
      <4>1. to # where[p]
        BY <2>2
      <4> QED BY <3>1, <4>1, BecomesMoves
    <3> QED BY <3>2, <3>3, <3>4
  <2>6. Q!Within(p, q2) \subseteq {to}
    BY <2>3, <2>4, SameOperators DEF Q!Within
  <2>7. Cardinality(Q!Within(p, q2)) <= 1
    <3>1. IsFiniteSet({to}) /\ Cardinality({to}) = 1
      BY FS_Singleton
    <3> QED BY <2>6, <3>1, FS_Subset
  <2>8. Q!Moves(p, q, q2)
    <3>1. \A h \in ListHead : Q!Others(p, q2[h]) = Q!Others(p, q[h])
      BY <2>5, SameOperators DEF Q!Others
    <3>2. \A h \in Q!Within(p, q2) : Q!IsInjective(q2[h]) /\ Q!Last(q2[h]) = p
      BY <2>5, SameOperators DEF Q!Within
    <3> QED BY <2>7, <3>1, <3>2, SameOperators DEF Q!Moves
  <2> QED BY <2>4, <2>8 DEF Q!Next, Walked
<1> QED BY <1>1, <1>3, <1>4
------------------------------------------------------------------------------
\* The lists that main() leaves are sequences.
LEMMA InitQueued == Init => QInv
<1>1. SUFFICES ASSUME Init PROVE Queued /\ StoreOrder
  BY InitSound DEF QInv
<1>2. StoreOrder
  BY <1>1 DEF Init, StoreOrder
<1>3. PICK root \in Pcb \ {ssi_pcb} : \E free \in Seq(Pcb \ {ssi_pcb, root}) :
         /\ IsInjective(free)
         /\ \A p \in Pcb \ {ssi_pcb, root} : \E i \in 1..Len(free) : free[i] = p
         /\ next["readyQueue"] = root /\ next[root] = "readyQueue"
         /\ \A l \in {"receiveMessageQueue", "pseudoClockQueue"} : next[l] = l
         /\ next["pcbFree_h"] = IF Len(free) > 0 THEN free[1] ELSE "pcbFree_h"
         /\ \A i \in 1..Len(free) :
              next[free[i]] = IF i = Len(free) THEN "pcbFree_h" ELSE free[i + 1]
         /\ where = [p \in Pcb |-> CASE p = ssi_pcb -> "nowhere" [] p = root -> "readyQueue"
                                      [] OTHER -> "pcbFree_h"]
  BY <1>1, InitLaid
<1> DEFINE F == Pcb \ {ssi_pcb, root}
<1>4. PICK free \in Seq(F) :
         /\ IsInjective(free)
         /\ \A p \in F : \E i \in 1..Len(free) : free[i] = p
         /\ next["readyQueue"] = root /\ next[root] = "readyQueue"
         /\ \A l \in {"receiveMessageQueue", "pseudoClockQueue"} : next[l] = l
         /\ next["pcbFree_h"] = IF Len(free) > 0 THEN free[1] ELSE "pcbFree_h"
         /\ \A i \in 1..Len(free) :
              next[free[i]] = IF i = Len(free) THEN "pcbFree_h" ELSE free[i + 1]
         /\ where = [p \in Pcb |-> CASE p = ssi_pcb -> "nowhere" [] p = root -> "readyQueue"
                                      [] OTHER -> "pcbFree_h"]
  BY <1>3
<1>5. /\ {p \in Pcb : where[p] = "readyQueue"} = {root}
      /\ {p \in Pcb : where[p] = "pcbFree_h"} = F
      /\ \A l \in {"receiveMessageQueue", "pseudoClockQueue"} : {p \in Pcb : where[p] = l} = {}
  BY <1>4, ListAssumption
<1>6. Follows(next, where, "pcbFree_h", free)
  <2>1. /\ Len(free) \in Nat /\ (free = <<>> <=> Len(free) = 0)
        /\ ToSet(free) \subseteq F
        /\ \A x : x \in ToSet(free) <=> \E i \in 1..Len(free) : free[i] = x
    BY InSet, EmptySeq
  <2>2. ToSet(free) = F
    BY <1>4, <2>1
  <2>3. next["pcbFree_h"] = IF free = <<>> THEN "pcbFree_h" ELSE free[1]
    BY <1>4, <2>1
  <2>4. free \in Seq(Pcb)
    OBVIOUS
  <2> QED BY <1>4, <1>5, <2>2, <2>3, <2>4 DEF Follows, Chain
<1>7. Follows(next, where, "readyQueue", <<root>>)
  <2> DEFINE s == <<root>>
  <2>1. s \in Seq(Pcb) /\ Len(s) = 1 /\ s[1] = root /\ s # <<>> /\ ToSet(s) = {root}
        /\ IsInjective(s)
    BY DEF ToSet, IsInjective
  <2> HIDE DEF s
  <2> QED BY <1>4, <1>5, <2>1 DEF Follows, Chain
<1>8. \A l \in {"receiveMessageQueue", "pseudoClockQueue"} : Follows(next, where, l, <<>>)
  <2> DEFINE s == <<>>
  <2>1. s \in Seq(Pcb) /\ Len(s) = 0 /\ s = <<>> /\ ToSet(s) = {} /\ IsInjective(s)
    BY DEF ToSet, IsInjective
  <2> HIDE DEF s
  <2> QED BY <1>4, <1>5, <2>1 DEF Follows, Chain
<1>9. Queued
  BY <1>6, <1>7, <1>8 DEF Queued, ListHead
<1> QED BY <1>2, <1>9

\* Only a clash loses a process: as long as no handler has changed a list in the middle
\* of the SSI's operation on it, list_for_each() finds from each head exactly the PCBs
\* that were put into the list (list_add_tail, list_del), for any number of PCBs,
\* whatever interrupts the SSI and wherever.
THEOREM NobodyIsLost == Spec => []NobodyLost
<1> DEFINE Until == ~clashed => QInv
<1>1. Init => Until
  BY InitQueued
<1>2. Until /\ [Next]_vars => Until'
  BY ClashStays, QueuedKeeps
<1>3. Until => NobodyLost
  BY QueuedShows DEF NobodyLost
<1> QED BY <1>1, <1>2, <1>3, PTL DEF Spec

\* Every step implements Queues until there is a clash: each operation, in a handler or
\* store by store in the SSI, takes effect at one moment, moves one PCB and puts it last
\* (insertProcQ, removeProcQ, outAnyProcQ), for any number of PCBs.
THEOREM ListsAreQueues == Spec => AreQueues
<1> DEFINE Until == ~clashed => QInv
           walks == <<Walk("pcbFree_h"), Walk("readyQueue"), Walk("receiveMessageQueue"),
                      Walk("pseudoClockQueue")>>
<1>1. Init => Until /\ Q!Init
  BY InitQueued, QueuesInit
<1>2. Until /\ [Next]_vars => Until'
  BY ClashStays, QueuedKeeps
<1>3. Until /\ [Next]_vars => [Q!Next \/ clashed']_walks
  <2>1. SUFFICES ASSUME Until, [Next]_vars, ~clashed' PROVE Q!Next \/ UNCHANGED walks
    OBVIOUS
  <2>2. Q!Next \/ UNCHANGED Walked
    BY <2>1, ClashStays, QueuesNext
  <2>3. UNCHANGED Walked => UNCHANGED walks
    BY WalkedThen, WalkedIs DEF Walked
  <2> QED BY <2>2, <2>3
<1> HIDE DEF Until
<1> QED BY <1>1, <1>2, <1>3, PTL DEF Spec, AreQueues
==============================================================================
