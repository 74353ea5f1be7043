------------------------------ MODULE KlogProofs ------------------------------
(* Where klog_char_index can be, and what the buffer shows, for a buffer of *)
(* any size and any texts.                                                  *)
EXTENDS Klog, QueueLemmas

\* Where a process can be.
Points == {"idle", "test", "line", "char", "store", "next_char", "increment", "compare",
           "reset", "next_line", "move", "zero", "clean"}

\* What a process has added one to, it has loaded from a line that was not full, and it
\* finds the index full if it is: no handler leaves it full.
RegOK(p) ==
  /\ at[p] = "increment" => reg[p] \in 1..KLOG_LINE_SIZE
  /\ at[p] = "compare" /\ klog_char_index = KLOG_LINE_SIZE => reg[p] = KLOG_LINE_SIZE

IInv ==
  /\ klog_char_index \in 0..KLOG_LINE_SIZE
  /\ at \in [Printer -> Points] /\ DOMAIN reg = Printer
  /\ \A p \in Printer : RegOK(p)
  /\ klog_char_index = KLOG_LINE_SIZE => \E p \in Printer : at[p] \in {"compare", "reset"}

\* The steps of the only process that prints.
LEMMA ProcessKeeps ==
  ASSUME \A p, q \in Printer : p = q, IInv, NEW p \in Printer,
         \/ Test(p) \/ FetchLine(p) \/ FetchChar(p) \/ StoreChar(p)
         \/ LoadIndex(p) \/ StoreIndex(p) \/ Compare(p) \/ ResetIndex(p, "reset", "next_line")
         \/ LoadLine(p) \/ StoreLine(p) \/ ResetIndex(p, "zero", "clean") \/ CleanChar(p)
  PROVE IInv'
<1>1. /\ KLOG_LINE_SIZE \in Nat \ {0} /\ klog_char_index \in 0..KLOG_LINE_SIZE
      /\ at \in [Printer -> Points] /\ DOMAIN reg = Printer /\ RegOK(p)
      /\ klog_char_index = KLOG_LINE_SIZE => at[p] \in {"compare", "reset"}
  BY KlogAssumption DEF IInv
<1>2. SUFFICES /\ klog_char_index' \in 0..KLOG_LINE_SIZE
               /\ at' \in [Printer -> Points] /\ DOMAIN reg' = Printer /\ RegOK(p)'
               /\ klog_char_index' = KLOG_LINE_SIZE => at'[p] \in {"compare", "reset"}
  BY DEF IInv
<1>3. CASE Test(p) \/ FetchLine(p) \/ StoreChar(p) \/ LoadLine(p) \/ StoreLine(p)
           \/ CleanChar(p) \/ FetchChar(p)
  <2>1. /\ klog_char_index' = klog_char_index
        /\ at[p] \in {"test", "line", "store", "next_line", "move", "clean", "char"}
        /\ \E to \in {"idle", "next_line", "line", "char", "next_char", "move", "zero",
                      "clean", "test", "store"} : at' = [at EXCEPT ![p] = to]
        /\ DOMAIN reg' = Printer
    BY <1>1, <1>3 DEF Test, FetchLine, StoreChar, LoadLine, StoreLine, CleanChar, FetchChar,
                      Step, Load, klog
  <2>2. QED
    BY <1>1, <2>1 DEF RegOK, Points
<1>4. CASE LoadIndex(p)
  <2>1. /\ at[p] = "next_char" /\ at' = [at EXCEPT ![p] = "increment"]
        /\ klog_char_index' = klog_char_index
        /\ reg' = [reg EXCEPT ![p] = klog_char_index + 1]
    BY <1>4 DEF LoadIndex, Step, Load, klog
  <2>2. QED
    BY <1>1, <2>1 DEF RegOK, Points
<1>5. CASE StoreIndex(p)
  <2>1. /\ at[p] = "increment" /\ at' = [at EXCEPT ![p] = "compare"]
        /\ klog_char_index' = reg[p] /\ reg' = reg
    BY <1>5 DEF StoreIndex, Step
  <2>2. QED
    BY <1>1, <2>1 DEF RegOK, Points
<1>6. CASE Compare(p)
  <2>1. /\ at[p] = "compare" /\ UNCHANGED <<klog_char_index, reg>>
        /\ \/ at' = [at EXCEPT ![p] = "reset"]
           \/ /\ at' = [at EXCEPT ![p] = "test"]
              /\ \E index \in {reg[p], klog_char_index} : ~(index >= KLOG_LINE_SIZE)
    BY <1>6 DEF Compare, Step, klog
  <2>2. klog_char_index = KLOG_LINE_SIZE => at' = [at EXCEPT ![p] = "reset"]
    BY <1>1, <2>1 DEF RegOK
  <2>3. QED
    BY <1>1, <2>1, <2>2 DEF RegOK, Points
<1>7. CASE ResetIndex(p, "reset", "next_line") \/ ResetIndex(p, "zero", "clean")
  <2>1. /\ klog_char_index' = 0 /\ reg' = reg
        /\ \E to \in {"next_line", "clean"} : at' = [at EXCEPT ![p] = to]
    BY <1>7 DEF ResetIndex, Step
  <2>2. QED
    BY <1>1, <2>1 DEF RegOK, Points
<1>8. QED
  BY <1>3, <1>4, <1>5, <1>6, <1>7

\* If one process prints at a time, whatever the handlers print in between,
\* klog_char_index is at most one character past its line, and that only until the
\* process resets it (next_char()), for any size of the buffer and any texts.
THEOREM IndexStaysInLine ==
  ASSUME \A p, q \in Printer : p = q
  PROVE Spec => []IndexInLine
<1>1. Init => IInv
  BY KlogAssumption DEF Init, IInv, RegOK, Points
<1>2. ASSUME IInv, [Next]_vars PROVE IInv'
  <2>1. CASE HandlerPut
    <3>1. /\ klog_char_index' \in 0..(KLOG_LINE_SIZE - 1) /\ UNCHANGED <<at, reg>>
      BY <1>2, <2>1, KlogAssumption DEF HandlerPut, Put, IInv
    <3>2. QED
      BY <1>2, <3>1, KlogAssumption DEF IInv, RegOK
  <2>2. CASE Done \/ UNCHANGED vars \/ \E t \in Printed : Interrupt(t)
    <3>1. UNCHANGED <<klog_char_index, at, reg>>
      BY <2>2 DEF Done, vars, klog, Interrupt
    <3>2. QED
      BY <1>2, <3>1 DEF IInv, RegOK
  <2>3. ASSUME NEW p \in Printer, NEW t \in Printed, klog_print(p, t) PROVE IInv'
    <3>1. /\ at[p] = "idle" /\ at' = [at EXCEPT ![p] = "test"]
          /\ UNCHANGED <<klog_char_index, reg>>
      BY <2>3 DEF klog_print, klog
    <3>2. QED
      BY <1>2, <2>3, <3>1 DEF IInv, RegOK, Points
  <2>4. QED
    BY <1>2, <2>1, <2>2, <2>3, ProcessKeeps DEF Next
<1>3. IInv => IndexInLine
  BY KlogAssumption DEF IInv, IndexInLine
<1>4. QED
  BY <1>1, <1>2, <1>3, PTL DEF Spec
------------------------------------------------------------------------------
(* The types.                                                               *)

\* What a process holds in its register when it is about to store a line index, and that
\* there is a character to store where it stores one.
StrOK(p) ==
  /\ at[p] = "move" => reg[p] \in 0..(KLOG_LINES - 1)
  /\ at[p] \in {"line", "char", "store"} => str[p] # <<>> /\ Head(str[p]) # Newline

\* klog_print(), klog_print_dec() and klog_print_hex() print characters.
LEMMA PrintedTexts == Printed \subseteq Seq(Char)
<1>1. \A i \in 0..15 : Digit(i) \in Char
  BY DEF Digit, digits, Char, ToSet
<1>2. ASSUME NEW n \in Nat PROVE Dec(n) \in Seq(Char)
  <2>1. n < 10 => Digit(n) \in Char
    BY <1>1
  <2>2. Digit((n \div 10) % 10) \in Char /\ Digit(n % 10) \in Char
    BY <1>1
  <2>3. QED
    BY <2>1, <2>2 DEF Dec
<1>3. ASSUME NEW n \in Nat PROVE Hex(n) \in Seq(Char)
  <2>1. \A i \in 1..8 : (n \div 16 ^ (i - 1)) % 16 \in 0..15
    OBVIOUS
  <2>2. \A i \in 1..8 : Digit((n \div 16 ^ (i - 1)) % 16) \in Char
    BY <1>1, <2>1
  <2>3. QED
    BY <2>2 DEF Hex
<1>4. QED
  BY <1>2, <1>3, KlogAssumption DEF Printed

\* A character other than a newline, or none, leaves a buffer.
LEMMA BufferKept ==
  ASSUME NEW buffer \in [Cell -> (Char \ {Newline}) \cup {Blank}], NEW cell, NEW line,
         NEW c \in (Char \ {Newline}) \cup {Blank}
  PROVE /\ Write(buffer, cell, c) \in [Cell -> (Char \ {Newline}) \cup {Blank}]
        /\ Clean(buffer, line) \in [Cell -> (Char \ {Newline}) \cup {Blank}]
BY DEF Write, Clean

\* A step of a process, as far as the types go.
LEMMA ProcessTypes ==
  ASSUME TypeOK, \A p \in Printer : StrOK(p), NEW p \in Printer,
         \/ Test(p) \/ FetchLine(p) \/ FetchChar(p) \/ StoreChar(p)
         \/ LoadIndex(p) \/ StoreIndex(p) \/ Compare(p) \/ ResetIndex(p, "reset", "next_line")
         \/ LoadLine(p) \/ StoreLine(p) \/ ResetIndex(p, "zero", "clean") \/ CleanChar(p)
  PROVE TypeOK' /\ \A q \in Printer : StrOK(q)'
<1> DEFINE Buffer == [Cell -> (Char \ {Newline}) \cup {Blank}]
<1>1. /\ KLOG_LINES \in Nat \ {0} /\ KLOG_LINE_SIZE \in Nat \ {0}
      /\ klog_line_index \in 0..(KLOG_LINES - 1) /\ klog_char_index \in Nat
      /\ klog_buffer \in Buffer /\ str \in [Printer -> Seq(Char)]
      /\ at \in [Printer -> Points] /\ reg \in [Printer -> Nat] /\ StrOK(p)
  BY KlogAssumption DEF TypeOK, Points
<1>2. UNCHANGED <<handler, log, mixed>>
  BY DEF Test, FetchLine, FetchChar, StoreChar, LoadIndex, StoreIndex, Compare, ResetIndex,
         LoadLine, StoreLine, CleanChar, Step
<1>3. SUFFICES /\ klog_line_index' \in 0..(KLOG_LINES - 1) /\ klog_char_index' \in Nat
               /\ klog_buffer' \in Buffer
               /\ \E s \in Seq(Char), to \in Points, n \in Nat :
                    /\ str' = [str EXCEPT ![p] = s] /\ at' = [at EXCEPT ![p] = to]
                    /\ reg' = [reg EXCEPT ![p] = n]
                    /\ to = "move" => n \in 0..(KLOG_LINES - 1)
                    /\ to \in {"line", "char", "store"} => s # <<>> /\ Head(s) # Newline
  <2>1. PICK s \in Seq(Char), to \in Points, n \in Nat :
               /\ str' = [str EXCEPT ![p] = s] /\ at' = [at EXCEPT ![p] = to]
               /\ reg' = [reg EXCEPT ![p] = n]
               /\ to = "move" => n \in 0..(KLOG_LINES - 1)
               /\ to \in {"line", "char", "store"} => s # <<>> /\ Head(s) # Newline
    BY <1>3
  <2>2. /\ str' \in [Printer -> Seq(Char)] /\ at' \in [Printer -> Points]
        /\ reg' \in [Printer -> Nat]
    BY <1>1, <2>1
  <2>3. TypeOK'
    BY <1>2, <1>3, <2>2 DEF TypeOK, Points
  <2>4. \A q \in Printer : StrOK(q)'
    BY <1>1, <2>1 DEF StrOK, TypeOK
  <2>5. QED
    BY <2>3, <2>4
<1>4. /\ str = [str EXCEPT ![p] = str[p]] /\ reg = [reg EXCEPT ![p] = reg[p]]
      /\ str[p] \in Seq(Char) /\ reg[p] \in Nat
      /\ str[p] # <<>> => Head(str[p]) \in Char /\ Tail(str[p]) \in Seq(Char)
  BY <1>1
<1>5. CASE Test(p) \/ Compare(p)
  <2>1. UNCHANGED <<klog_line_index, klog_char_index, klog_buffer, reg>>
    BY <1>5 DEF Test, Compare, klog
  <2>2. CASE Test(p)
    <3>1. \/ str[p] = <<>> /\ str' = str /\ at' = [at EXCEPT ![p] = "idle"]
          \/ /\ str[p] # <<>> /\ str' = [str EXCEPT ![p] = Tail(str[p])]
             /\ at' = [at EXCEPT ![p] = "next_line"]
          \/ /\ str[p] # <<>> /\ Head(str[p]) # Newline /\ str' = str
             /\ at' = [at EXCEPT ![p] = "line"]
      BY <2>2 DEF Test, Step
    <3>2. QED
      BY <1>1, <1>4, <2>1, <3>1 DEF Points
  <2>3. CASE Compare(p)
    <3>1. /\ str' = str /\ \E to \in {"reset", "test"} : at' = [at EXCEPT ![p] = to]
      BY <2>3 DEF Compare, Step
    <3>2. QED
      BY <1>1, <1>4, <2>1, <3>1 DEF Points
  <2>4. QED
    BY <1>5, <2>2, <2>3
<1>6. CASE FetchLine(p) \/ FetchChar(p) \/ LoadIndex(p) \/ LoadLine(p)
  <2>1. UNCHANGED <<klog_line_index, klog_char_index, klog_buffer, str>>
    BY <1>6 DEF FetchLine, FetchChar, LoadIndex, LoadLine, Load, klog
  <2>2. \/ /\ at[p] = "line" /\ at' = [at EXCEPT ![p] = "char"]
           /\ reg' = [reg EXCEPT ![p] = klog_line_index]
        \/ /\ at[p] = "char" /\ at' = [at EXCEPT ![p] = "store"]
           /\ reg' = [reg EXCEPT ![p] = CellOf(reg[p], klog_char_index)]
        \/ /\ at' = [at EXCEPT ![p] = "increment"]
           /\ reg' = [reg EXCEPT ![p] = klog_char_index + 1]
        \/ /\ at' = [at EXCEPT ![p] = "move"]
           /\ reg' = [reg EXCEPT ![p] = (klog_line_index + 1) % KLOG_LINES]
    BY <1>6 DEF FetchLine, FetchChar, LoadIndex, LoadLine, Load, Step
  <2>3. CellOf(reg[p], klog_char_index) \in Nat
    BY <1>1, <1>4 DEF CellOf
  <2>4. (klog_line_index + 1) % KLOG_LINES \in 0..(KLOG_LINES - 1)
    BY <1>1
  <2>5. PICK to \in Points, n \in Nat :
               /\ at' = [at EXCEPT ![p] = to] /\ reg' = [reg EXCEPT ![p] = n]
               /\ to = "move" => n \in 0..(KLOG_LINES - 1)
               /\ to \in {"line", "char", "store"} => at[p] \in {"line", "char"}
    <3>1. klog_line_index \in Nat /\ klog_char_index + 1 \in Nat
          /\ (klog_line_index + 1) % KLOG_LINES \in Nat
      BY <1>1, <2>4
    <3>2. {"char", "store", "increment", "move"} \subseteq Points
      BY DEF Points
    <3>3. QED
      BY <2>2, <2>3, <2>4, <3>1, <3>2
  <2>6. to \in {"line", "char", "store"} => str[p] # <<>> /\ Head(str[p]) # Newline
    BY <1>1, <2>5 DEF StrOK
  <2>7. QED
    BY <1>1, <1>4, <2>1, <2>5, <2>6
<1>7. CASE StoreChar(p)
  <2>1. /\ at[p] = "store" /\ at' = [at EXCEPT ![p] = "next_char"]
        /\ klog_buffer' = Write(klog_buffer, reg[p], Head(str[p]))
        /\ str' = [str EXCEPT ![p] = Tail(str[p])]
        /\ UNCHANGED <<klog_line_index, klog_char_index, reg>>
    BY <1>7 DEF StoreChar, Step
  <2>2. str[p] # <<>> /\ Head(str[p]) \in Char \ {Newline}
    BY <1>1, <1>4, <2>1 DEF StrOK
  <2>3. klog_buffer' \in Buffer
    BY <1>1, <2>1, <2>2, BufferKept
  <2>4. QED
    BY <1>1, <1>4, <2>1, <2>2, <2>3 DEF Points
<1>8. CASE StoreIndex(p) \/ ResetIndex(p, "reset", "next_line") \/ ResetIndex(p, "zero", "clean")
  <2>1. /\ UNCHANGED <<klog_line_index, klog_buffer, str, reg>>
        /\ klog_char_index' \in {reg[p], 0}
        /\ \E to \in {"compare", "next_line", "clean"} : at' = [at EXCEPT ![p] = to]
    BY <1>8 DEF StoreIndex, ResetIndex, Step
  <2>2. PICK to \in Points : /\ at' = [at EXCEPT ![p] = to]
                             /\ to \notin {"line", "char", "store", "move"}
    BY <2>1 DEF Points
  <2>3. reg' = [reg EXCEPT ![p] = reg[p]] /\ str' = [str EXCEPT ![p] = str[p]]
    BY <1>4, <2>1
  <2>4. QED
    BY <1>1, <1>4, <2>1, <2>2, <2>3
<1>9. CASE StoreLine(p)
  <2>1. /\ at[p] = "move" /\ at' = [at EXCEPT ![p] = "zero"]
        /\ klog_line_index' = reg[p] /\ reg' = [reg EXCEPT ![p] = 0]
        /\ UNCHANGED <<klog_char_index, klog_buffer, str>>
    BY <1>9 DEF StoreLine, Step
  <2>2. QED
    BY <1>1, <1>4, <2>1 DEF Points, StrOK
<1>10. CASE CleanChar(p)
  <2>1. /\ \E to \in {"clean", "test"} : at' = [at EXCEPT ![p] = to]
        /\ klog_buffer' = Write(klog_buffer, CellOf(klog_line_index, reg[p]), Blank)
        /\ reg' = [reg EXCEPT ![p] = reg[p] + 1]
        /\ UNCHANGED <<klog_line_index, klog_char_index, str>>
    BY <1>10 DEF CleanChar, Step
  <2>2. klog_buffer' \in Buffer
    BY <1>1, <2>1, BufferKept
  <2>3. PICK to \in Points : /\ at' = [at EXCEPT ![p] = to]
                             /\ to \notin {"line", "char", "store", "move"}
    BY <2>1 DEF Points
  <2>4. str' = [str EXCEPT ![p] = str[p]] /\ reg[p] + 1 \in Nat
    BY <1>4, <2>1
  <2>5. QED
    BY <1>1, <1>4, <2>1, <2>2, <2>3, <2>4
<1>11. QED
  BY <1>5, <1>6, <1>7, <1>8, <1>9, <1>10

\* Both.
Typed == TypeOK /\ \A p \in Printer : StrOK(p)

\* The types hold at the start,
LEMMA TypesInit == Init => Typed
<1>1. SUFFICES ASSUME Init PROVE Typed
  OBVIOUS
<1>2. 0 \in 0..(KLOG_LINES - 1) /\ 0 \in Nat
  BY KlogAssumption
<1>3. klog_buffer \in [Cell -> (Char \ {Newline}) \cup {Blank}]
  BY <1>1 DEF Init
<1>4. /\ str \in [Printer -> Seq(Char)] /\ handler \in Seq(Char)
      /\ log \in Seq(Seq(Char)) /\ mixed \in BOOLEAN
  <2>1. <<>> \in Seq(Char) /\ <<>> \in Seq(Seq(Char))
    OBVIOUS
  <2>2. str \in [Printer -> Seq(Char)]
    BY <1>1, <2>1 DEF Init
  <2>3. QED
    BY <1>1, <2>1, <2>2 DEF Init
<1>5. /\ at \in [Printer -> Points] /\ reg \in [Printer -> Nat]
  BY <1>1 DEF Init, Points
<1>6. \A p \in Printer : at[p] = "idle"
  BY <1>1 DEF Init
<1>7. QED
  BY <1>1, <1>2, <1>3, <1>4, <1>5, <1>6 DEF Init, TypeOK, StrOK, Points, Typed

\* after every step,
LEMMA TypesNext == ASSUME Typed, [Next]_vars PROVE Typed'
<1> USE DEF Typed
<1>1. CASE HandlerPut
  <2>1. /\ klog_line_index \in 0..(KLOG_LINES - 1) /\ klog_char_index \in Nat
        /\ klog_buffer \in [Cell -> (Char \ {Newline}) \cup {Blank}]
        /\ handler \in Seq(Char) /\ handler # <<>>
        /\ KLOG_LINES \in Nat \ {0} /\ Head(handler) \in Char
    BY <1>1, KlogAssumption DEF HandlerPut, TypeOK
  <2>2. (klog_line_index + 1) % KLOG_LINES \in 0..(KLOG_LINES - 1)
    BY <2>1
  <2>3. /\ klog_line_index' \in 0..(KLOG_LINES - 1) /\ klog_char_index' \in Nat
    BY <1>1, <2>1, <2>2 DEF HandlerPut, Put
  <2>4. klog_buffer' \in [Cell -> (Char \ {Newline}) \cup {Blank}]
    <3> DEFINE cell == CellOf(klog_line_index, klog_char_index)
               written == Write(klog_buffer, cell, Head(handler))
    <3>1. Head(handler) # Newline =>
            written \in [Cell -> (Char \ {Newline}) \cup {Blank}]
      BY <2>1, BufferKept
    <3>2. klog_buffer' \in {written, Clean(written, klog_line_index'),
                            Clean(klog_buffer, klog_line_index')}
          /\ (Head(handler) = Newline =>
                klog_buffer' = Clean(klog_buffer, klog_line_index'))
      BY <1>1 DEF HandlerPut, Put
    <3> HIDE DEF written
    <3>3. Blank \in (Char \ {Newline}) \cup {Blank}
      OBVIOUS
    <3>4. Clean(klog_buffer, klog_line_index') \in [Cell -> (Char \ {Newline}) \cup {Blank}]
      BY <2>1, <3>3, BufferKept
    <3>5. written \in [Cell -> (Char \ {Newline}) \cup {Blank}] =>
            Clean(written, klog_line_index') \in [Cell -> (Char \ {Newline}) \cup {Blank}]
      BY <3>3, BufferKept
    <3>6. QED
      BY <3>1, <3>2, <3>4, <3>5
  <2>5. UNCHANGED <<str, at, reg, log, mixed>> /\ handler' \in Seq(Char)
    BY <1>1, <2>1 DEF HandlerPut
  <2>6. QED
    BY <2>3, <2>4, <2>5 DEF TypeOK, StrOK
<1>2. ASSUME NEW t \in Printed, Interrupt(t) PROVE Typed'
  <2>1. t \in Seq(Char) /\ UNCHANGED <<klog_line_index, klog_char_index, klog_buffer>>
    BY <1>2, PrintedTexts DEF Interrupt, klog
  <2>2. log' = Append(log, t) /\ mixed' \in BOOLEAN /\ UNCHANGED <<str, at, reg>>
    BY <1>2 DEF Interrupt, TypeOK
  <2>3. handler' = t /\ log' \in Seq(Seq(Char))
    BY <1>2, <2>1, <2>2 DEF Interrupt, TypeOK
  <2>4. QED
    BY <2>1, <2>2, <2>3 DEF TypeOK, StrOK
<1>3. ASSUME NEW p \in Printer, NEW t \in Printed, klog_print(p, t) PROVE Typed'
  <2>1. t \in Seq(Char) /\ UNCHANGED <<klog_line_index, klog_char_index, klog_buffer>>
    BY <1>3, PrintedTexts DEF klog_print, klog
  <2>2. /\ at' = [at EXCEPT ![p] = "test"] /\ str' = [str EXCEPT ![p] = t]
        /\ log' = Append(log, t) /\ mixed' \in BOOLEAN /\ UNCHANGED <<reg, handler>>
    BY <1>3 DEF klog_print, TypeOK
  <2>3. log' \in Seq(Seq(Char))
    BY <2>1, <2>2 DEF TypeOK
  <2>4. TypeOK'
    BY <2>1, <2>2, <2>3 DEF TypeOK
  <2>5. \A q \in Printer : StrOK(q)'
    BY <2>2 DEF TypeOK, StrOK
  <2>6. QED
    BY <2>4, <2>5
<1>4. CASE Done \/ UNCHANGED vars
  <2>1. UNCHANGED <<klog_line_index, klog_char_index, klog_buffer, str, at, reg, handler, log,
                    mixed>>
    BY <1>4 DEF Done, vars, klog
  <2>2. QED
    BY <2>1 DEF TypeOK, StrOK
<1>5. QED
  BY <1>1, <1>2, <1>3, <1>4, ProcessTypes DEF Next

\* and always.
LEMMA TypesHold == Spec => []Typed
BY TypesInit, TypesNext, PTL DEF Spec

\* Whoever prints and is interrupted, klog_line_index is a line of the buffer, no newline is
\* stored in it, and the register of a process holds a line index when it is stored as one.
THEOREM KlogTypeOK == Spec => []TypeOK
<1>1. Typed => TypeOK
  BY DEF Typed
<1>2. QED
  BY <1>1, TypesHold, PTL
------------------------------------------------------------------------------
(* The lines and the columns of the buffer.                                 *)

\* Division by the length of a line, or by their number, as multiplication.
LEMMA DivMod ==
  ASSUME NEW n \in Nat, NEW m \in Nat \ {0}
  PROVE  n \div m \in Nat /\ n % m \in 0..(m - 1) /\ n = (n \div m) * m + (n % m)
OBVIOUS

\* A smaller quotient leaves room for a whole line.
LEMMA MulLess ==
  ASSUME NEW m \in Nat \ {0}, NEW a \in Int, NEW b \in Int, a < b
  PROVE  a * m + m <= b * m
<1>1. PICK d \in Nat : b = a + 1 + d
  <2>1. b - a - 1 \in Nat
    OBVIOUS
  <2>2. QED
    BY <2>1
<1>2. b * m = a * m + m + d * m /\ d * m >= 0 /\ a * m \in Int
  BY <1>1
<1>3. QED
  BY <1>2

\* The quotient and the rest are the only ones.
LEMMA Quotient ==
  ASSUME NEW m \in Nat \ {0}, NEW q \in Nat, NEW r \in 0..(m - 1)
  PROVE  (q * m + r) \div m = q /\ (q * m + r) % m = r
<1> DEFINE n == q * m + r
           a == n \div m
           b == n % m
<1>1. n \in Nat
  OBVIOUS
<1>2. a \in Nat /\ b \in 0..(m - 1) /\ n = a * m + b
  BY <1>1, DivMod
<1>3. q * m \in Nat /\ a * m \in Nat /\ q * m + r = a * m + b
  BY <1>2
<1> HIDE DEF a, b, n
<1>4. ~(a < q) /\ ~(q < a)
  BY <1>2, <1>3, MulLess
<1>5. a = q
  BY <1>2, <1>4
<1>6. b = r
  BY <1>2, <1>3, <1>5
<1>7. QED
  BY <1>5, <1>6 DEF a, b, n

\* Two lines less than KLOG_LINES apart are different lines of the buffer.
LEMMA SameLine ==
  ASSUME NEW a \in Nat, NEW b \in Nat, NEW m \in Nat \ {0},
         a <= b, b < a + m, a % m = b % m
  PROVE  a = b
<1>1. /\ a \div m \in Nat /\ b \div m \in Nat /\ a % m \in 0..(m - 1)
      /\ a = (a \div m) * m + (a % m) /\ b = (b \div m) * m + (b % m)
  BY DivMod
<1>2. (a \div m) * m \in Nat /\ (b \div m) * m \in Nat
  BY <1>1
<1>3. ~((a \div m) < (b \div m)) /\ ~((b \div m) < (a \div m))
  BY <1>1, <1>2, MulLess
<1>4. QED
  BY <1>1, <1>2, <1>3

\* The line KLOG_LINES before is the same line of the buffer, and the only one between.
LEMMA LineBefore ==
  ASSUME NEW a \in Nat, NEW b \in Nat, NEW m \in Nat \ {0}, a < b
  PROVE  /\ b <= a + m /\ a % m = b % m => b = a + m
         /\ b = a + m => a % m = b % m
<1>1. /\ a \div m \in Nat /\ b \div m \in Nat /\ a % m \in 0..(m - 1)
      /\ a = (a \div m) * m + (a % m) /\ b = (b \div m) * m + (b % m)
  BY DivMod
<1>2. (a \div m) * m \in Nat /\ (b \div m) * m \in Nat
  BY <1>1
<1>3. ASSUME b <= a + m, a % m = b % m PROVE b = a + m
  <2>1. ~((b \div m) < (a \div m)) /\ (a \div m) # (b \div m)
    BY <1>1, <1>2, <1>3, MulLess
  <2>2. (a \div m) * m + m <= (b \div m) * m
    BY <1>1, <2>1, MulLess
  <2>3. QED
    BY <1>1, <1>2, <1>3, <2>2
<1>4. ASSUME b = a + m PROVE a % m = b % m
  <2>1. b = ((a \div m) + 1) * m + (a % m) /\ (a \div m) + 1 \in Nat
    BY <1>1, <1>2, <1>4
  <2>2. QED
    BY <1>1, <2>1, Quotient
<1>5. QED
  BY <1>3, <1>4

\* The next line, in the buffer.
LEMMA NextLine ==
  ASSUME NEW n \in Nat, NEW m \in Nat \ {0}
  PROVE  ((n % m) + 1) % m = (n + 1) % m
<1> DEFINE q == n \div m
           r == n % m
<1>1. q \in Nat /\ r \in 0..(m - 1) /\ n = q * m + r
  BY DivMod
<1> HIDE DEF q, r
<1>2. CASE r + 1 < m
  <2>1. r + 1 \in 0..(m - 1) /\ n + 1 = q * m + (r + 1)
    BY <1>1, <1>2
  <2>2. (n + 1) % m = r + 1
    BY <1>1, <2>1, Quotient
  <2>3. (0 * m + (r + 1)) % m = r + 1
    BY <2>1, Quotient
  <2>4. QED
    BY <1>1, <2>1, <2>2, <2>3 DEF r
<1>3. CASE r + 1 = m
  <2>1. 0 \in 0..(m - 1) /\ n + 1 = (q + 1) * m + 0 /\ q + 1 \in Nat
    BY <1>1, <1>3
  <2>2. (n + 1) % m = 0
    BY <2>1, Quotient
  <2>3. (1 * m + 0) % m = 0
    BY <2>1, Quotient
  <2>4. QED
    BY <1>3, <2>2, <2>3 DEF r
<1>4. QED
  BY <1>1, <1>2, <1>3

\* The cell of a character in the buffer, from its line and its column, and back.
LEMMA CellAt ==
  ASSUME NEW line \in 0..(KLOG_LINES - 1), NEW char \in 0..(KLOG_LINE_SIZE - 1)
  PROVE  /\ CellOf(line, char) \in Cell
         /\ CellOf(line, char) \div KLOG_LINE_SIZE = line
         /\ CellOf(line, char) % KLOG_LINE_SIZE = char
<1>1. KLOG_LINES \in Nat \ {0} /\ KLOG_LINE_SIZE \in Nat \ {0}
  BY KlogAssumption
<1>2. line * KLOG_LINE_SIZE + KLOG_LINE_SIZE <= KLOG_LINES * KLOG_LINE_SIZE
  BY <1>1, MulLess
<1>3. line * KLOG_LINE_SIZE \in Nat /\ KLOG_LINES * KLOG_LINE_SIZE \in Nat
  BY <1>1
<1>4. CellOf(line, char) \in Cell
  BY <1>1, <1>2, <1>3 DEF CellOf, Cell
<1>5. QED
  BY <1>1, <1>4, Quotient DEF CellOf

\* Every cell is that of a line and a column.
LEMMA CellSplit ==
  ASSUME NEW cell \in Cell
  PROVE  /\ cell \div KLOG_LINE_SIZE \in 0..(KLOG_LINES - 1)
         /\ cell % KLOG_LINE_SIZE \in 0..(KLOG_LINE_SIZE - 1)
         /\ cell = CellOf(cell \div KLOG_LINE_SIZE, cell % KLOG_LINE_SIZE)
<1> DEFINE line == cell \div KLOG_LINE_SIZE
<1>1. /\ KLOG_LINES \in Nat \ {0} /\ KLOG_LINE_SIZE \in Nat \ {0}
      /\ KLOG_LINES * KLOG_LINE_SIZE \in Nat
  BY KlogAssumption
<1>2. cell \in Nat /\ cell < KLOG_LINES * KLOG_LINE_SIZE
  BY <1>1 DEF Cell
<1>3. /\ line \in Nat /\ cell % KLOG_LINE_SIZE \in 0..(KLOG_LINE_SIZE - 1)
      /\ cell = line * KLOG_LINE_SIZE + (cell % KLOG_LINE_SIZE)
  BY <1>1, <1>2, DivMod
<1> HIDE DEF line
<1>4. line * KLOG_LINE_SIZE \in Nat
  BY <1>1, <1>3
<1>5. ~(KLOG_LINES < line) /\ line # KLOG_LINES
  BY <1>1, <1>2, <1>3, <1>4, MulLess
<1>6. line \in 0..(KLOG_LINES - 1)
  BY <1>1, <1>3, <1>5
<1>7. QED
  BY <1>3, <1>6 DEF line, CellOf

\* A spot of the tape is a line and a column, and the line wraps in the buffer.
LEMMA SpotCell ==
  ASSUME NEW s \in Nat
  PROVE  s % (KLOG_LINES * KLOG_LINE_SIZE)
           = CellOf((s \div KLOG_LINE_SIZE) % KLOG_LINES, s % KLOG_LINE_SIZE)
<1> DEFINE n == s \div KLOG_LINE_SIZE
           cell == CellOf(n % KLOG_LINES, s % KLOG_LINE_SIZE)
           size == KLOG_LINES * KLOG_LINE_SIZE
<1>1. KLOG_LINES \in Nat \ {0} /\ KLOG_LINE_SIZE \in Nat \ {0} /\ size \in Nat \ {0}
  BY KlogAssumption
<1>2. /\ n \in Nat /\ s % KLOG_LINE_SIZE \in 0..(KLOG_LINE_SIZE - 1)
      /\ s = n * KLOG_LINE_SIZE + (s % KLOG_LINE_SIZE)
  BY <1>1, DivMod
<1> HIDE DEF n
<1>3. /\ n \div KLOG_LINES \in Nat /\ n % KLOG_LINES \in 0..(KLOG_LINES - 1)
      /\ n = (n \div KLOG_LINES) * KLOG_LINES + (n % KLOG_LINES)
  BY <1>1, <1>2, DivMod
<1>4. cell \in 0..(size - 1)
  BY <1>1, <1>2, <1>3, CellAt DEF Cell
<1>5. s = (n \div KLOG_LINES) * size + cell
  <2> DEFINE a == n \div KLOG_LINES
             b == n % KLOG_LINES
             c == s % KLOG_LINE_SIZE
  <2>1. /\ a \in Nat /\ b \in Nat /\ c \in Nat
        /\ n = a * KLOG_LINES + b /\ s = n * KLOG_LINE_SIZE + c
    BY <1>1, <1>2, <1>3
  <2> HIDE DEF a, b, c
  <2>2. (a * KLOG_LINES + b) * KLOG_LINE_SIZE
          = a * (KLOG_LINES * KLOG_LINE_SIZE) + b * KLOG_LINE_SIZE
    BY <1>1, <2>1
  <2>3. /\ a * (KLOG_LINES * KLOG_LINE_SIZE) \in Nat /\ b * KLOG_LINE_SIZE \in Nat
        /\ s = a * (KLOG_LINES * KLOG_LINE_SIZE) + (b * KLOG_LINE_SIZE + c)
    BY <1>1, <2>1, <2>2
  <2>4. QED
    BY <2>3 DEF a, b, c, CellOf
<1> HIDE DEF cell, size
<1>6. s % size = cell
  BY <1>1, <1>3, <1>4, <1>5, Quotient
<1>7. QED
  BY <1>6 DEF cell, size, n
------------------------------------------------------------------------------
(* The tape.                                                                *)

\* The spot after one more character, and the spots of the first n.
Beyond(c, spot) ==
  IF c = Newline THEN (spot \div KLOG_LINE_SIZE + 1) * KLOG_LINE_SIZE ELSE spot + 1
Laid(text, n, f) == f = [i \in 0..n |-> IF i = 0 THEN 0 ELSE Beyond(text[i], f[i - 1])]

\* There is such a tape, whatever the text: a shortest text without one would have one.
LEMMA SpotsAre ==
  ASSUME NEW text \in Seq(Char)
  PROVE  Laid(text, Len(text), Spots(text))
<1> DEFINE I == {n \in Nat : n <= Len(text) /\ ~ \E f : Laid(text, n, f)}
<1>1. Len(text) \in Nat
  OBVIOUS
<1>2. I = {}
  <2>1. SUFFICES ASSUME I # {} PROVE FALSE
    OBVIOUS
  <2> DEFINE m == Min(I)
  <2>2. m \in I /\ \A i \in I : m <= i
    BY <2>1, MinNat
  <2> HIDE DEF m
  <2>3. CASE m = 0
    <3> DEFINE f == [i \in 0..0 |-> 0]
    <3>1. Laid(text, 0, f)
      BY DEF Laid
    <3>2. QED
      BY <2>2, <2>3, <3>1
  <2>4. CASE m # 0
    <3>1. m - 1 \in Nat /\ m \in Nat /\ m - 1 \notin I /\ m - 1 <= Len(text)
      BY <2>2, <2>4
    <3>2. PICK f : Laid(text, m - 1, f)
      BY <3>1
    <3> DEFINE g == [i \in 0..m |-> IF i = m THEN Beyond(text[m], f[m - 1]) ELSE f[i]]
    <3>3. ASSUME NEW i \in 0..m
          PROVE  g[i] = IF i = 0 THEN 0 ELSE Beyond(text[i], g[i - 1])
      <4>1. CASE i = m
        BY <3>1, <2>4, <4>1
      <4>2. CASE i # m
        <5>1. i \in 0..(m - 1) /\ g[i] = f[i] /\ (i # 0 => g[i - 1] = f[i - 1])
          BY <3>1, <4>2
        <5>2. QED
          BY <3>2, <5>1 DEF Laid
      <4>3. QED
        BY <4>1, <4>2
    <3>4. Laid(text, m, g)
      BY <3>3 DEF Laid
    <3>5. QED
      BY <2>2, <3>4
  <2>5. QED
    BY <2>3, <2>4
<1>3. \E f : Laid(text, Len(text), f)
  BY <1>1, <1>2
<1>4. Spots(text) = CHOOSE f : Laid(text, Len(text), f)
  BY DEF Spots, Laid, Beyond
<1>5. QED
  BY <1>3, <1>4

\* The line and the column of the spot after the first i characters.
Line(text, i) == Spots(text)[i] \div KLOG_LINE_SIZE
Col(text, i) == Spots(text)[i] % KLOG_LINE_SIZE

\* klog_print(), on the tape.
LEMMA Along ==
  ASSUME NEW text \in Seq(Char)
  PROVE  /\ Spots(text)[0] = 0 /\ Line(text, 0) = 0 /\ Col(text, 0) = 0
         /\ \A i \in 1..Len(text) : Spots(text)[i] = Beyond(text[i], Spots(text)[i - 1])
         /\ \A i \in 0..Len(text) : /\ Spots(text)[i] \in Nat /\ Line(text, i) \in Nat
                                    /\ Col(text, i) \in 0..(KLOG_LINE_SIZE - 1)
<1>1. KLOG_LINE_SIZE \in Nat \ {0} /\ Len(text) \in Nat
  BY KlogAssumption
<1>2. /\ Spots(text)[0] = 0
      /\ \A i \in 1..Len(text) : Spots(text)[i] = Beyond(text[i], Spots(text)[i - 1])
  <2>1. \A i \in 0..Len(text) :
          Spots(text)[i] = IF i = 0 THEN 0 ELSE Beyond(text[i], Spots(text)[i - 1])
    BY SpotsAre DEF Laid
  <2>2. QED
    BY <1>1, <2>1
<1> DEFINE I == {i \in Nat : i <= Len(text) /\ Spots(text)[i] \notin Nat}
<1>3. I = {}
  <2>1. SUFFICES ASSUME I # {} PROVE FALSE
    OBVIOUS
  <2> DEFINE m == Min(I)
  <2>2. m \in I /\ \A i \in I : m <= i
    BY <2>1, MinNat
  <2> HIDE DEF m
  <2>3. m \in 1..Len(text) /\ m - 1 \in Nat /\ m - 1 \notin I /\ m - 1 <= Len(text)
    BY <1>1, <1>2, <2>2
  <2>4. Spots(text)[m - 1] \in Nat
    BY <2>3
  <2>5. Beyond(text[m], Spots(text)[m - 1]) \in Nat
    <3>1. (Spots(text)[m - 1] \div KLOG_LINE_SIZE) \in Nat
      BY <1>1, <2>4, DivMod
    <3>2. QED
      BY <1>1, <2>4, <3>1 DEF Beyond
  <2>6. QED
    BY <1>2, <2>2, <2>3, <2>5
<1>4. \A i \in 0..Len(text) : Spots(text)[i] \in Nat
  BY <1>1, <1>3
<1>5. \A i \in 0..Len(text) : /\ Line(text, i) \in Nat
                              /\ Col(text, i) \in 0..(KLOG_LINE_SIZE - 1)
  BY <1>1, <1>4, DivMod DEF Line, Col
<1>6. Line(text, 0) = 0 /\ Col(text, 0) = 0
  <2>1. 0 = 0 * KLOG_LINE_SIZE + 0 /\ 0 \in 0..(KLOG_LINE_SIZE - 1)
    BY <1>1
  <2>2. QED
    BY <1>1, <1>2, <2>1, Quotient DEF Line, Col
<1>7. QED
  BY <1>2, <1>4, <1>5, <1>6

\* next_char() and next_line(), on the tape: a newline and a full line lead to column 0 of
\* the next line, any other character to the next column.
LEMMA Ahead ==
  ASSUME NEW text \in Seq(Char), NEW i \in 1..Len(text)
  PROVE  IF text[i] = Newline \/ Col(text, i - 1) + 1 = KLOG_LINE_SIZE
         THEN Line(text, i) = Line(text, i - 1) + 1 /\ Col(text, i) = 0
         ELSE Line(text, i) = Line(text, i - 1) /\ Col(text, i) = Col(text, i - 1) + 1
<1> DEFINE s == Spots(text)[i - 1]
           n == Line(text, i - 1)
           c == Col(text, i - 1)
<1>1. KLOG_LINE_SIZE \in Nat \ {0} /\ i - 1 \in 0..Len(text)
  BY KlogAssumption
<1>2. s \in Nat /\ n \in Nat /\ c \in 0..(KLOG_LINE_SIZE - 1)
  BY <1>1, Along
<1>3. s = n * KLOG_LINE_SIZE + c
  BY <1>1, <1>2, DivMod DEF Line, Col
<1>4. Spots(text)[i] = IF text[i] = Newline THEN (n + 1) * KLOG_LINE_SIZE ELSE s + 1
  BY Along DEF Beyond, Line
<1> HIDE DEF s, n, c
<1>5. CASE text[i] = Newline \/ c + 1 = KLOG_LINE_SIZE
  <2>1. Spots(text)[i] = (n + 1) * KLOG_LINE_SIZE + 0
    BY <1>1, <1>2, <1>3, <1>4, <1>5
  <2>2. n + 1 \in Nat /\ 0 \in 0..(KLOG_LINE_SIZE - 1)
    BY <1>1, <1>2
  <2>3. Line(text, i) = n + 1 /\ Col(text, i) = 0
    BY <1>1, <2>1, <2>2, Quotient DEF Line, Col
  <2>4. QED
    BY <1>5, <2>3 DEF n, c
<1>6. CASE ~(text[i] = Newline \/ c + 1 = KLOG_LINE_SIZE)
  <2>1. Spots(text)[i] = n * KLOG_LINE_SIZE + (c + 1) /\ c + 1 \in 0..(KLOG_LINE_SIZE - 1)
    BY <1>1, <1>2, <1>3, <1>4, <1>6
  <2>2. Line(text, i) = n /\ Col(text, i) = c + 1
    BY <1>1, <1>2, <2>1, Quotient DEF Line, Col
  <2>3. QED
    BY <1>6, <2>2 DEF n, c
<1>7. QED
  BY <1>5, <1>6

\* Later on the tape is further on it.
LEMMA Onward ==
  ASSUME NEW text \in Seq(Char), NEW j \in 0..Len(text), NEW i \in 0..(j - 1)
  PROVE  /\ Line(text, i) <= Line(text, j)
         /\ Line(text, i) = Line(text, j) => Col(text, i) < Col(text, j)
<1> DEFINE Further(k) == /\ Line(text, i) <= Line(text, k)
                         /\ Line(text, i) = Line(text, k) => Col(text, i) < Col(text, k)
           I == {k \in Nat : i < k /\ k <= Len(text) /\ ~Further(k)}
<1>1. /\ KLOG_LINE_SIZE \in Nat \ {0} /\ Len(text) \in Nat /\ i \in Nat /\ j \in Nat
      /\ \A k \in 0..Len(text) : Line(text, k) \in Nat /\ Col(text, k) \in Nat
  BY KlogAssumption, Along
<1>2. SUFFICES ASSUME I # {} PROVE FALSE
  BY <1>1
<1> DEFINE m == Min(I)
<1>3. m \in I /\ \A k \in I : m <= k
  BY <1>2, MinNat
<1> HIDE DEF m
<1>4. m \in 1..Len(text) /\ m - 1 \in 0..Len(text) /\ m - 1 \notin I /\ m - 1 \in Nat
  BY <1>1, <1>3
<1>5. \/ Line(text, m) = Line(text, m - 1) + 1
      \/ Line(text, m) = Line(text, m - 1) /\ Col(text, m) = Col(text, m - 1) + 1
  BY <1>4, Ahead
<1>6. m - 1 = i \/ Further(m - 1)
  BY <1>1, <1>3, <1>4
<1>7. Further(m)
  <2>1. /\ Line(text, i) \in Nat /\ Line(text, m - 1) \in Nat /\ Line(text, m) \in Nat
        /\ Col(text, i) \in Nat /\ Col(text, m - 1) \in Nat /\ Col(text, m) \in Nat
    BY <1>1, <1>4
  <2>2. CASE m - 1 = i
    BY <1>5, <2>1, <2>2
  <2>3. CASE Further(m - 1)
    BY <1>5, <2>1, <2>3
  <2>4. QED
    BY <1>6, <2>2, <2>3
<1>8. QED
  BY <1>3, <1>7

\* What is printed later moves nothing that was printed before.
LEMMA SpotsKept ==
  ASSUME NEW text \in Seq(Char), NEW more \in Seq(Char)
  PROVE  \A i \in 0..Len(text) : Spots(text \o more)[i] = Spots(text)[i]
<1> DEFINE all == text \o more
           I == {i \in Nat : i <= Len(text) /\ Spots(all)[i] # Spots(text)[i]}
<1>1. /\ all \in Seq(Char) /\ Len(all) = Len(text) + Len(more)
      /\ Len(text) \in Nat /\ Len(more) \in Nat
      /\ \A i \in 1..Len(text) : all[i] = text[i]
  BY ConcatProperties
<1> HIDE DEF all
<1>2. SUFFICES ASSUME I # {} PROVE FALSE
  BY <1>1 DEF all
<1> DEFINE m == Min(I)
<1>3. m \in I /\ \A k \in I : m <= k
  BY <1>2, MinNat
<1> HIDE DEF m
<1>4. m # 0
  BY <1>1, <1>3, Along
<1>5. m \in 1..Len(text) /\ m \in 1..Len(all) /\ m - 1 \notin I /\ m - 1 \in Nat
  BY <1>1, <1>3, <1>4
<1>6. Spots(all)[m - 1] = Spots(text)[m - 1] /\ all[m] = text[m]
  BY <1>1, <1>5
<1>7. Spots(all)[m] = Spots(text)[m]
  BY ZenonT(40), <1>1, <1>5, <1>6, Along
<1>8. QED
  BY <1>3, <1>7

------------------------------------------------------------------------------
(* The texts, and what the buffer shows of them.                            *)

\* FlattenSeq(), one text after the other.
Joined(texts, n, f) ==
  f = [i \in 1..n |-> IF i = 1 THEN texts[i] ELSE f[i - 1] \o texts[i]]
Joining(texts) ==
  LET flatten[i \in 1..Len(texts)] == IF i = 1 THEN texts[i] ELSE flatten[i - 1] \o texts[i]
  IN flatten

\* It gives the texts it is made of, and characters.
LEMMA JoiningIs ==
  ASSUME NEW texts \in Seq(Seq(Char))
  PROVE  /\ \A i \in 1..Len(texts) :
              Joining(texts)[i] = IF i = 1 THEN texts[i] ELSE Joining(texts)[i - 1] \o texts[i]
         /\ \A i \in 1..Len(texts) : Joining(texts)[i] \in Seq(Char)
<1> DEFINE I == {n \in Nat : n <= Len(texts) /\ ~ \E f : Joined(texts, n, f)}
<1>1. Len(texts) \in Nat
  OBVIOUS
<1>2. I = {}
  <2>1. SUFFICES ASSUME I # {} PROVE FALSE
    OBVIOUS
  <2> DEFINE m == Min(I)
  <2>2. m \in I /\ \A i \in I : m <= i
    BY <2>1, MinNat
  <2> HIDE DEF m
  <2>3. CASE m = 0
    <3> DEFINE f == [i \in 1..0 |-> <<>>]
    <3>1. Joined(texts, 0, f)
      BY DEF Joined
    <3>2. QED
      BY <2>2, <2>3, <3>1
  <2>4. CASE m # 0
    <3>1. m \in Nat /\ m <= Len(texts) /\ ~ \E f : Joined(texts, m, f)
      BY <2>2
    <3>2. m - 1 \in Nat /\ m - 1 <= Len(texts) /\ ~(m <= m - 1)
      BY <1>1, <2>4, <3>1
    <3>3. PICK f : Joined(texts, m - 1, f)
      BY <2>2, <3>2
    <3> DEFINE g == [i \in 1..m |-> IF i # m THEN f[i]
                                    ELSE IF i = 1 THEN texts[m] ELSE f[m - 1] \o texts[m]]
    <3>4. ASSUME NEW i \in 1..m
          PROVE  g[i] = IF i = 1 THEN texts[i] ELSE g[i - 1] \o texts[i]
      <4>1. CASE i = m
        <5>1. i # 1 => m - 1 \in 1..m /\ g[m - 1] = f[m - 1]
          BY <3>1, <3>2, <4>1
        <5>2. QED
          BY <4>1, <5>1
      <4>2. CASE i # m
        <5>1. i \in 1..(m - 1) /\ (i # 1 => i - 1 \in 1..m /\ i - 1 # m)
          BY <3>1, <3>2, <4>2
        <5>2. g[i] = f[i] /\ (i # 1 => g[i - 1] = f[i - 1])
          BY <4>2, <5>1
        <5>3. QED
          BY <3>3, <5>1, <5>2 DEF Joined
      <4>3. QED
        BY <4>1, <4>2
    <3>5. Joined(texts, m, g)
      <4> HIDE DEF g
      <4>1. g = [i \in 1..m |-> g[i]]
        BY DEF g
      <4>2. QED
        BY <3>4, <4>1 DEF Joined
    <3>6. QED
      BY <3>1, <3>5
  <2>5. QED
    BY <2>3, <2>4
<1>3. \E f : Joined(texts, Len(texts), f)
  BY <1>1, <1>2
<1>4. Joining(texts) = CHOOSE f : Joined(texts, Len(texts), f)
  BY DEF Joining, Joined
<1>5. Joined(texts, Len(texts), Joining(texts))
  BY <1>3, <1>4
<1>6. \A i \in 1..Len(texts) :
        Joining(texts)[i] = IF i = 1 THEN texts[i] ELSE Joining(texts)[i - 1] \o texts[i]
  BY <1>5 DEF Joined
<1> DEFINE J == {i \in Nat : i \in 1..Len(texts) /\ Joining(texts)[i] \notin Seq(Char)}
<1>7. J = {}
  <2>1. SUFFICES ASSUME J # {} PROVE FALSE
    OBVIOUS
  <2> DEFINE m == Min(J)
  <2>2. m \in J /\ \A i \in J : m <= i
    BY <2>1, MinNat
  <2> HIDE DEF m
  <2>3. m \in 1..Len(texts) /\ texts[m] \in Seq(Char)
    BY <2>2
  <2>4. CASE m = 1
    BY <1>6, <2>2, <2>3, <2>4
  <2>5. CASE m # 1
    <3>1. m - 1 \in 1..Len(texts) /\ m - 1 \notin J
      BY <2>2, <2>3, <2>5
    <3>2. Joining(texts)[m - 1] \in Seq(Char)
      BY <3>1
    <3>3. Joining(texts)[m] = Joining(texts)[m - 1] \o texts[m]
      BY <1>6, <2>3, <2>5
    <3>4. QED
      BY ZenonT(40), <2>2, <2>3, <3>2, <3>3, ConcatProperties
  <2>6. QED
    BY <2>4, <2>5
<1>8. \A i \in 1..Len(texts) : Joining(texts)[i] \in Seq(Char)
  <2>1. 1..Len(texts) \subseteq Nat
    BY <1>1
  <2>2. QED
    BY <1>7, <2>1
<1>9. QED
  BY <1>6, <1>8

\* A call adds its text at the end of all that was printed.
LEMMA Flattened ==
  ASSUME NEW texts \in Seq(Seq(Char)), NEW t \in Seq(Char)
  PROVE  /\ FlattenSeq(<<>>) = <<>> /\ FlattenSeq(texts) \in Seq(Char)
         /\ FlattenSeq(Append(texts, t)) = FlattenSeq(texts) \o t
<1> DEFINE n == Len(texts)
           more == Append(texts, t)
<1>1. /\ n \in Nat /\ more \in Seq(Seq(Char)) /\ Len(more) = n + 1 /\ more[n + 1] = t
      /\ \A i \in 1..n : more[i] = texts[i]
  BY AppendProperties
<1>2. /\ n = 0 => FlattenSeq(texts) = texts
      /\ n # 0 => FlattenSeq(texts) = Joining(texts)[n]
  BY DEF FlattenSeq, Joining
<1>3. FlattenSeq(<<>>) = <<>>
  <2>1. Len(<<>>) = 0
    OBVIOUS
  <2>2. QED
    BY <2>1 DEF FlattenSeq
<1> HIDE DEF more
<1>4. FlattenSeq(more) = Joining(more)[n + 1]
  BY <1>1 DEF FlattenSeq, Joining
<1>5. /\ \A i \in 1..n :
           /\ Joining(texts)[i] = IF i = 1 THEN texts[i] ELSE Joining(texts)[i - 1] \o texts[i]
           /\ Joining(texts)[i] \in Seq(Char)
      /\ \A i \in 1..(n + 1) :
           Joining(more)[i] = IF i = 1 THEN more[i] ELSE Joining(more)[i - 1] \o more[i]
  BY <1>1, JoiningIs
<1> HIDE DEF n
<1>6. FlattenSeq(texts) \in Seq(Char)
  <2>1. n = 0 => texts = <<>>
    BY EmptySeq DEF n
  <2>2. <<>> \in Seq(Char)
    OBVIOUS
  <2>3. n # 0 => n \in 1..n
    BY <1>1
  <2>4. QED
    BY <1>2, <1>3, <1>5, <2>1, <2>2, <2>3
<1> DEFINE I == {i \in Nat : i \in 1..n /\ Joining(more)[i] # Joining(texts)[i]}
<1>7. I = {}
  <2>1. SUFFICES ASSUME I # {} PROVE FALSE
    OBVIOUS
  <2> DEFINE m == Min(I)
  <2>2. m \in I /\ \A i \in I : m <= i
    BY <2>1, MinNat
  <2> HIDE DEF m
  <2>3. m \in 1..n /\ m \in 1..(n + 1) /\ more[m] = texts[m]
    BY <1>1, <2>2
  <2>4. m # 1 => m - 1 \in Nat /\ m - 1 \in 1..n /\ m - 1 \notin I
    BY <1>1, <2>2, <2>3
  <2>5. m # 1 => Joining(more)[m - 1] = Joining(texts)[m - 1]
    BY <2>4
  <2>6. Joining(more)[m] = Joining(texts)[m]
    BY <1>5, <2>3, <2>5
  <2>7. QED
    BY <2>2, <2>6
<1>8. FlattenSeq(more) = FlattenSeq(texts) \o t
  <2>1. n + 1 \in 1..(n + 1) /\ (n + 1) - 1 = n /\ (n + 1 = 1 <=> n = 0)
    BY <1>1
  <2>2. Joining(more)[n + 1] = IF n = 0 THEN t ELSE Joining(more)[n] \o t
    BY <1>1, <1>5, <2>1
  <2>3. CASE n = 0
    <3>1. FlattenSeq(texts) = <<>>
      BY <1>2, <2>3, EmptySeq DEF n
    <3>2. <<>> \o t = t
      OBVIOUS
    <3>3. QED
      BY <1>4, <2>2, <2>3, <3>1, <3>2
  <2>4. CASE n # 0
    <3>1. n \in 1..n /\ n \in Nat
      BY <1>1, <2>4
    <3>2. Joining(more)[n] = Joining(texts)[n]
      BY <1>7, <3>1
    <3>3. QED
      BY <1>2, <1>4, <2>2, <2>4, <3>2
  <2>5. QED
    BY <2>3, <2>4
<1>9. QED
  BY <1>3, <1>6, <1>8 DEF more

\* What the buffer shows of the first k characters, from one line of the tape on.
Chars(text, k, first, cell) ==
  {i \in 1..k : /\ text[i] # Newline
                /\ Spots(text)[i - 1] % (KLOG_LINES * KLOG_LINE_SIZE) = cell
                /\ Line(text, i - 1) >= first}
Picture(text, k, first) ==
  [cell \in Cell |-> IF Chars(text, k, first, cell) = {} THEN Blank
                     ELSE text[CHOOSE i \in Chars(text, k, first, cell) : TRUE]]

\* Two pictures agree where they show the same characters.
LEMMA SameAt ==
  ASSUME NEW text, NEW k, NEW first, NEW text2, NEW k2, NEW first2, NEW cell \in Cell,
         Chars(text, k, first, cell) = Chars(text2, k2, first2, cell),
         \A i \in Chars(text, k, first, cell) : text[i] = text2[i]
  PROVE  Picture(text, k, first)[cell] = Picture(text2, k2, first2)[cell]
<1> DEFINE I == Chars(text, k, first, cell)
           c == CHOOSE i \in I : TRUE
<1>1. /\ Picture(text, k, first)[cell] = IF I = {} THEN Blank ELSE text[c]
      /\ Picture(text2, k2, first2)[cell] = IF I = {} THEN Blank ELSE text2[c]
  BY DEF Picture
<1>2. I # {} => c \in I
  OBVIOUS
<1> HIDE DEF c, I
<1>3. I # {} => text[c] = text2[c]
  BY <1>2 DEF I
<1>4. QED
  BY <1>1, <1>3

\* A picture shows every cell.
LEMMA PictureOf ==
  ASSUME NEW text, NEW k, NEW first
  PROVE  Picture(text, k, first) = [cell \in Cell |-> Picture(text, k, first)[cell]]
<1> DEFINE value(cell) == IF Chars(text, k, first, cell) = {} THEN Blank
                          ELSE text[CHOOSE i \in Chars(text, k, first, cell) : TRUE]
<1>1. Picture(text, k, first) = [cell \in Cell |-> value(cell)]
  BY DEF Picture
<1> HIDE DEF value
<1>2. QED
  BY <1>1

\* Shown() is the picture of all that was printed.
LEMMA ShownIs ==
  ASSUME NEW text
  PROVE  Shown(text) = Picture(text, Len(text), Line(text, Len(text)) - KLOG_LINES + 1)
BY DEF Shown, Picture, Chars, Line

\* Whether a character is in a cell, by its line and its column.
LEMMA CharsAt ==
  ASSUME NEW text \in Seq(Char), NEW k \in 0..Len(text), NEW first \in Int, NEW cell \in Cell,
         NEW i \in 1..k
  PROVE  i \in Chars(text, k, first, cell) <=>
           /\ text[i] # Newline /\ Line(text, i - 1) >= first
           /\ Line(text, i - 1) % KLOG_LINES = cell \div KLOG_LINE_SIZE
           /\ Col(text, i - 1) = cell % KLOG_LINE_SIZE
<1> DEFINE n == Line(text, i - 1)
           c == Col(text, i - 1)
<1>1. i - 1 \in 0..Len(text) /\ KLOG_LINES \in Nat \ {0}
  BY KlogAssumption
<1>2. Spots(text)[i - 1] \in Nat /\ n \in Nat /\ c \in 0..(KLOG_LINE_SIZE - 1)
  BY <1>1, Along
<1>3. Spots(text)[i - 1] % (KLOG_LINES * KLOG_LINE_SIZE) = CellOf(n % KLOG_LINES, c)
  BY <1>2, SpotCell DEF Line, Col
<1>4. n % KLOG_LINES \in 0..(KLOG_LINES - 1)
  BY <1>1, <1>2, DivMod
<1> HIDE DEF n, c
<1>5. CellOf(n % KLOG_LINES, c) = cell <=>
        n % KLOG_LINES = cell \div KLOG_LINE_SIZE /\ c = cell % KLOG_LINE_SIZE
  BY <1>2, <1>4, CellAt, CellSplit
<1>6. QED
  BY <1>3, <1>5 DEF Chars, n, c

\* What follows on the tape is not in the picture yet.
LEMMA PictureKept ==
  ASSUME NEW text \in Seq(Char), NEW more \in Seq(Char), NEW k \in 0..Len(text), NEW first
  PROVE  Picture(text \o more, k, first) = Picture(text, k, first)
<1>1. \A i \in 1..k : i \in 1..Len(text) /\ i - 1 \in 0..Len(text)
  OBVIOUS
<1>2. \A i \in 1..k : (text \o more)[i] = text[i]
  BY <1>1, ConcatProperties
<1>3. \A i \in 1..k : Spots(text \o more)[i - 1] = Spots(text)[i - 1]
  BY <1>1, SpotsKept
<1>4. \A cell : Chars(text \o more, k, first, cell) = Chars(text, k, first, cell)
  BY <1>2, <1>3 DEF Chars, Line
<1>5. \A cell : \A i \in Chars(text, k, first, cell) : (text \o more)[i] = text[i]
  BY <1>2 DEF Chars
<1> DEFINE all == text \o more
<1> HIDE DEF all
<1>6. ASSUME NEW cell \in Cell
      PROVE  Picture(all, k, first)[cell] = Picture(text, k, first)[cell]
  <2>1. /\ Chars(all, k, first, cell) = Chars(text, k, first, cell)
        /\ \A i \in Chars(all, k, first, cell) : all[i] = text[i]
    BY <1>4, <1>5 DEF all
  <2>2. QED
    BY <2>1, SameAt
<1>7. QED
  BY <1>6, PictureOf DEF all

\* A newline leaves no mark.
LEMMA PictureNewline ==
  ASSUME NEW text \in Seq(Char), NEW k \in 1..Len(text), NEW first, text[k] = Newline
  PROVE  Picture(text, k, first) = Picture(text, k - 1, first)
<1>1. \A i \in 1..k : i = k \/ i \in 1..(k - 1)
  OBVIOUS
<1>2. \A cell : Chars(text, k, first, cell) = Chars(text, k - 1, first, cell)
  BY <1>1 DEF Chars
<1>3. \A cell \in Cell : Picture(text, k, first)[cell] = Picture(text, k - 1, first)[cell]
  BY <1>2, SameAt
<1>4. QED
  BY <1>3, PictureOf

\* Any other character is put where the tape has it; no character of the last KLOG_LINES
\* lines is there.
LEMMA PictureWrite ==
  ASSUME NEW text \in Seq(Char), NEW k \in 1..Len(text), text[k] # Newline
  PROVE  LET first == Line(text, k - 1) - KLOG_LINES + 1
         IN Picture(text, k, first) =
              Write(Picture(text, k - 1, first),
                    CellOf(Line(text, k - 1) % KLOG_LINES, Col(text, k - 1)), text[k])
<1> DEFINE n == Line(text, k - 1)
           c == Col(text, k - 1)
           first == n - KLOG_LINES + 1
           here == CellOf(n % KLOG_LINES, c)
<1>1. /\ k - 1 \in 0..Len(text) /\ k \in 0..Len(text) /\ KLOG_LINES \in Nat \ {0}
      /\ n \in Nat /\ c \in 0..(KLOG_LINE_SIZE - 1)
  BY KlogAssumption, Along
<1>2. n % KLOG_LINES \in 0..(KLOG_LINES - 1)
  BY <1>1, DivMod
<1>3. /\ here \in Cell /\ here \div KLOG_LINE_SIZE = n % KLOG_LINES
      /\ here % KLOG_LINE_SIZE = c
  BY <1>1, <1>2, CellAt
<1>4. first \in Int /\ n >= first
  BY <1>1
<1> HIDE DEF here, first
<1>5. ASSUME NEW i \in 1..(k - 1), i \in Chars(text, k - 1, first, here) PROVE FALSE
  <2>1. /\ Line(text, i - 1) >= first /\ Line(text, i - 1) % KLOG_LINES = n % KLOG_LINES
        /\ Col(text, i - 1) = c
    BY <1>1, <1>3, <1>4, <1>5, CharsAt
  <2>2. i - 1 \in 0..((k - 1) - 1) /\ i - 1 \in 0..Len(text)
    BY <1>1
  <2>3. /\ Line(text, i - 1) <= n /\ Line(text, i - 1) \in Nat
        /\ Line(text, i - 1) = n => Col(text, i - 1) < c
    BY <1>1, <2>2, Onward, Along
  <2>4. n < Line(text, i - 1) + KLOG_LINES
    BY <1>1, <2>1, <2>3 DEF first
  <2>5. Line(text, i - 1) = n
    BY <1>1, <2>1, <2>3, <2>4, SameLine
  <2>6. QED
    BY <1>1, <2>1, <2>3, <2>5
<1>6. Chars(text, k, first, here) = {k}
  <2>1. k \in Chars(text, k, first, here)
    BY <1>1, <1>3, <1>4, CharsAt
  <2>2. \A i \in Chars(text, k, first, here) :
          i = k \/ (i \in 1..(k - 1) /\ i \in Chars(text, k - 1, first, here))
    BY DEF Chars
  <2>3. QED
    BY <1>5, <2>1, <2>2
<1>7. ASSUME NEW cell \in Cell, cell # here
      PROVE  Chars(text, k, first, cell) = Chars(text, k - 1, first, cell)
  <2>1. k \notin Chars(text, k, first, cell)
    <3>1. ~(n % KLOG_LINES = cell \div KLOG_LINE_SIZE /\ c = cell % KLOG_LINE_SIZE)
      BY <1>7, CellSplit DEF here
    <3>2. QED
      BY <1>1, <1>4, <3>1, CharsAt
  <2>2. QED
    BY <2>1 DEF Chars
<1>8. Picture(text, k, first)[here] = text[k]
  BY <1>3, <1>6 DEF Picture
<1>9. \A cell \in Cell : cell # here =>
        Picture(text, k, first)[cell] = Picture(text, k - 1, first)[cell]
  BY <1>7, SameAt
<1>10. /\ Picture(text, k, first) = [cell \in Cell |-> Picture(text, k, first)[cell]]
       /\ Picture(text, k - 1, first) = [cell \in Cell |-> Picture(text, k - 1, first)[cell]]
  BY PictureOf
<1>11. Picture(text, k, first) = [Picture(text, k - 1, first) EXCEPT ![here] = text[k]]
  BY <1>3, <1>8, <1>9, <1>10
<1>12. Picture(text, k, first) = Write(Picture(text, k - 1, first), here, text[k])
  BY <1>3, <1>11 DEF Write
<1>13. QED
  BY <1>12 DEF here, first

\* The line that is entered takes the place of the oldest one, which goes.
LEMMA PictureClean ==
  ASSUME NEW text \in Seq(Char), NEW k \in 0..Len(text), Col(text, k) = 0
  PROVE  Picture(text, k, Line(text, k) - KLOG_LINES + 1) =
           Clean(Picture(text, k, Line(text, k) - KLOG_LINES), Line(text, k) % KLOG_LINES)
<1> DEFINE n == Line(text, k)
           first == n - KLOG_LINES
<1>1. /\ KLOG_LINES \in Nat \ {0} /\ n \in Nat /\ first \in Int /\ first + 1 \in Int
      /\ n - KLOG_LINES + 1 = first + 1 /\ n - KLOG_LINES = first
  BY KlogAssumption, Along
<1>2. ASSUME NEW i \in 1..k
      PROVE  /\ Line(text, i - 1) \in Nat /\ Line(text, i - 1) < n
             /\ Line(text, i - 1) >= first /\ Line(text, i - 1) % KLOG_LINES = n % KLOG_LINES
                  => Line(text, i - 1) = first
  <2> DEFINE a == Line(text, i - 1)
  <2>1. i - 1 \in 0..(k - 1) /\ i - 1 \in 0..Len(text) /\ k \in 0..Len(text)
    OBVIOUS
  <2>2. /\ a \in Nat /\ a <= n /\ (a = n => Col(text, i - 1) < 0)
        /\ Col(text, i - 1) \in 0..(KLOG_LINE_SIZE - 1)
    BY <2>1, Onward, Along
  <2>3. a < n
    BY <1>1, <2>2
  <2> HIDE DEF a
  <2>4. ASSUME a >= first, a % KLOG_LINES = n % KLOG_LINES PROVE a = first
    <3>1. n <= a + KLOG_LINES
      BY <1>1, <2>2, <2>4
    <3>2. n = a + KLOG_LINES
      BY <1>1, <2>2, <2>3, <2>4, <3>1, LineBefore
    <3>3. QED
      BY <1>1, <2>2, <3>2
  <2>5. QED
    BY <2>2, <2>3, <2>4 DEF a
<1> HIDE DEF n, first
<1>3. ASSUME NEW cell \in Cell, cell \div KLOG_LINE_SIZE = n % KLOG_LINES
      PROVE  Chars(text, k, first + 1, cell) = {}
  <2>1. SUFFICES ASSUME NEW i \in 1..k, i \in Chars(text, k, first + 1, cell) PROVE FALSE
    BY DEF Chars
  <2>2. /\ Line(text, i - 1) >= first + 1
        /\ Line(text, i - 1) % KLOG_LINES = n % KLOG_LINES
    BY <1>1, <1>3, <2>1, CharsAt
  <2>3. QED
    BY <1>1, <1>2, <2>2
<1>4. ASSUME NEW cell \in Cell, cell \div KLOG_LINE_SIZE # n % KLOG_LINES
      PROVE  Chars(text, k, first + 1, cell) = Chars(text, k, first, cell)
  <2>1. ASSUME NEW i \in 1..k
        PROVE  i \in Chars(text, k, first + 1, cell) <=> i \in Chars(text, k, first, cell)
    <3>1. /\ i \in Chars(text, k, first + 1, cell) <=>
               /\ text[i] # Newline /\ Line(text, i - 1) >= first + 1
               /\ Line(text, i - 1) % KLOG_LINES = cell \div KLOG_LINE_SIZE
               /\ Col(text, i - 1) = cell % KLOG_LINE_SIZE
          /\ i \in Chars(text, k, first, cell) <=>
               /\ text[i] # Newline /\ Line(text, i - 1) >= first
               /\ Line(text, i - 1) % KLOG_LINES = cell \div KLOG_LINE_SIZE
               /\ Col(text, i - 1) = cell % KLOG_LINE_SIZE
      BY <1>1, CharsAt
    <3>2. Line(text, i - 1) = first => Line(text, i - 1) % KLOG_LINES = n % KLOG_LINES
      <4>1. SUFFICES ASSUME first \in Nat, first < n, n = first + KLOG_LINES
                     PROVE  first % KLOG_LINES = n % KLOG_LINES
        BY <1>1, <1>2
      <4>2. QED
        BY ZenonT(40), <1>1, <4>1, LineBefore
    <3>3. QED
      BY <1>1, <1>2, <1>4, <3>1, <3>2
  <2>2. QED
    BY <2>1 DEF Chars
<1>5. ASSUME NEW cell \in Cell
      PROVE  Picture(text, k, first + 1)[cell] =
               IF cell \div KLOG_LINE_SIZE = n % KLOG_LINES THEN Blank
               ELSE Picture(text, k, first)[cell]
  <2>1. CASE cell \div KLOG_LINE_SIZE = n % KLOG_LINES
    BY <1>3, <2>1 DEF Picture
  <2>2. CASE cell \div KLOG_LINE_SIZE # n % KLOG_LINES
    BY <1>4, <2>2, SameAt
  <2>3. QED
    BY <2>1, <2>2
<1>6. Picture(text, k, first + 1) = [cell \in Cell |-> Picture(text, k, first + 1)[cell]]
  BY PictureOf
<1>7. Picture(text, k, first + 1) = Clean(Picture(text, k, first), n % KLOG_LINES)
  BY <1>5, <1>6 DEF Clean
<1>8. QED
  BY <1>1, <1>7 DEF n
------------------------------------------------------------------------------
(* What a call has printed.                                                 *)

\* What is left of a call is what the tape has after the first k characters.
Left(text, k, rest) ==
  /\ Len(text) = k + Len(rest) /\ k \in Nat
  /\ \A i \in 1..Len(rest) : rest[i] = text[k + i]

\* The buffer between two characters;
Arrived(text, k) ==
  /\ klog_line_index = Line(text, k) % KLOG_LINES /\ klog_char_index = Col(text, k)
  /\ klog_buffer = Picture(text, k, Line(text, k) - KLOG_LINES + 1)

\* when a character is stored and the index is still to be increased;
Stored(text, k) ==
  /\ k > 0 /\ text[k] # Newline /\ klog_line_index = Line(text, k - 1) % KLOG_LINES
  /\ klog_buffer = Picture(text, k, Line(text, k - 1) - KLOG_LINES + 1)

\* when the line is over: the next one still shows its old text;
Leaving(text, k) ==
  /\ k > 0 /\ Col(text, k) = 0 /\ Line(text, k) > 0
  /\ klog_line_index = (Line(text, k) - 1) % KLOG_LINES
  /\ klog_buffer = Picture(text, k, Line(text, k) - KLOG_LINES)

\* and when the next line is entered and its first n cells are clean.
Cleaned(buffer, line, n) ==
  [cell \in Cell |-> IF cell \div KLOG_LINE_SIZE = line /\ cell % KLOG_LINE_SIZE < n
                     THEN Blank ELSE buffer[cell]]
Entering(text, k, n) ==
  /\ Col(text, k) = 0 /\ klog_line_index = Line(text, k) % KLOG_LINES
  /\ klog_buffer = Cleaned(Picture(text, k, Line(text, k) - KLOG_LINES), klog_line_index, n)

\* Where the process is that has taken k characters.
Printing(p, text, k) ==
  /\ at[p] \in {"idle", "test", "line", "char", "store"} => Arrived(text, k)
  /\ at[p] = "char" => reg[p] = klog_line_index
  /\ at[p] = "store" => reg[p] = CellOf(klog_line_index, klog_char_index)
  /\ at[p] \in {"next_char", "increment"} =>
       Stored(text, k) /\ klog_char_index = Col(text, k - 1)
  /\ at[p] = "increment" => reg[p] = klog_char_index + 1
  /\ at[p] = "compare" =>
       Stored(text, k) /\ klog_char_index = Col(text, k - 1) + 1 /\ reg[p] = klog_char_index
  /\ at[p] \in {"reset", "next_line", "move"} => Leaving(text, k)
  /\ at[p] = "move" => reg[p] = Line(text, k) % KLOG_LINES
  /\ at[p] = "zero" => Entering(text, k, 0) /\ reg[p] = 0
  /\ at[p] = "clean" =>
       Entering(text, k, reg[p]) /\ klog_char_index = 0 /\ reg[p] < KLOG_LINE_SIZE

\* Some k characters are printed, and the others are in str[p].
Goes(p, text) ==
  \E k \in 0..Len(text) : Left(text, k, str[p]) /\ Printing(p, text, k)

\* As long as no call interrupts another, one call is under way at most.
LogInv ==
  /\ \A p \in Printer : at[p] = "idle" => str[p] = <<>>
  /\ ~mixed =>
       /\ \A p, q \in Printer : at[p] # "idle" /\ at[q] # "idle" => p = q
       /\ (\A p \in Printer : at[p] = "idle") =>
            \E k \in 0..Len(FlattenSeq(log)) : Left(FlattenSeq(log), k, handler)
                                             /\ Arrived(FlattenSeq(log), k)
       /\ \A p \in Printer : at[p] # "idle" => handler = <<>> /\ Goes(p, FlattenSeq(log))

\* What is printed of a call is its first character.
LEMMA TakesOne ==
  ASSUME NEW text \in Seq(Char), NEW k \in 0..Len(text), NEW rest \in Seq(Char),
         Left(text, k, rest), rest # <<>>
  PROVE  /\ k + 1 \in 1..Len(text) /\ text[k + 1] = Head(rest)
         /\ Left(text, k + 1, Tail(rest))
<1>1. /\ Len(rest) \in Nat \ {0} /\ Tail(rest) \in Seq(Char)
      /\ Len(Tail(rest)) = Len(rest) - 1 /\ Head(rest) = rest[1]
      /\ \A i \in 1..Len(Tail(rest)) : Tail(rest)[i] = rest[i + 1]
  BY HeadTailProperties, EmptySeq
<1>2. /\ Len(text) = k + Len(rest) /\ k \in Nat
      /\ \A i \in 1..Len(rest) : rest[i] = text[k + i]
  BY DEF Left
<1>3. k + 1 \in 1..Len(text) /\ text[k + 1] = Head(rest)
  <2>1. 1 \in 1..Len(rest)
    BY <1>1
  <2>2. QED
    BY <1>1, <1>2, <2>1
<1>4. ASSUME NEW i \in 1..Len(Tail(rest)) PROVE Tail(rest)[i] = text[(k + 1) + i]
  <2>1. i + 1 \in 1..Len(rest) /\ k + (i + 1) = (k + 1) + i
    BY <1>1, <1>2
  <2>2. QED
    BY <1>1, <1>2, <2>1
<1>5. QED
  BY <1>1, <1>2, <1>3, <1>4 DEF Left

\* Nothing is left at the end.
LEMMA AllTaken ==
  ASSUME NEW text \in Seq(Char), NEW k \in 0..Len(text), Left(text, k, <<>>)
  PROVE  k = Len(text)
<1>1. Len(<<>>) = 0
  OBVIOUS
<1>2. QED
  BY <1>1 DEF Left

\* Cleaning a line from its first cell to its last one.
LEMMA CleanedNone ==
  ASSUME NEW text, NEW k, NEW first, NEW line
  PROVE  Cleaned(Picture(text, k, first), line, 0) = Picture(text, k, first)
<1>1. \A cell \in Cell : ~(cell % KLOG_LINE_SIZE < 0)
  BY CellSplit, KlogAssumption
<1> DEFINE buffer == Picture(text, k, first)
<1>2. buffer = [cell \in Cell |-> buffer[cell]]
  BY PictureOf
<1> HIDE DEF buffer
<1>3. Cleaned(buffer, line, 0) = buffer
  BY <1>1, <1>2 DEF Cleaned
<1>4. QED
  BY <1>3 DEF buffer

\* CleanChar(): one more cell.
LEMMA CleanedNext ==
  ASSUME NEW buffer, NEW line \in 0..(KLOG_LINES - 1), NEW n \in 0..(KLOG_LINE_SIZE - 1)
  PROVE  Write(Cleaned(buffer, line, n), CellOf(line, n), Blank) = Cleaned(buffer, line, n + 1)
<1> DEFINE here == CellOf(line, n)
<1>1. here \in Cell /\ here \div KLOG_LINE_SIZE = line /\ here % KLOG_LINE_SIZE = n
  BY CellAt
<1>2. ASSUME NEW cell \in Cell
      PROVE  cell \div KLOG_LINE_SIZE = line /\ cell % KLOG_LINE_SIZE < n + 1
               <=> \/ cell \div KLOG_LINE_SIZE = line /\ cell % KLOG_LINE_SIZE < n
                   \/ cell = here
  <2>1. /\ cell = CellOf(cell \div KLOG_LINE_SIZE, cell % KLOG_LINE_SIZE)
        /\ cell % KLOG_LINE_SIZE \in 0..(KLOG_LINE_SIZE - 1) /\ KLOG_LINE_SIZE \in Nat
    BY CellSplit, KlogAssumption
  <2>2. cell = here <=> cell \div KLOG_LINE_SIZE = line /\ cell % KLOG_LINE_SIZE = n
    BY <1>1, <2>1
  <2>3. cell % KLOG_LINE_SIZE < n + 1 <=> cell % KLOG_LINE_SIZE < n \/ cell % KLOG_LINE_SIZE = n
    BY <2>1
  <2>4. QED
    BY <2>2, <2>3
<1> HIDE DEF here
<1>3. Write(Cleaned(buffer, line, n), here, Blank) = Cleaned(buffer, line, n + 1)
  BY <1>1, <1>2 DEF Write, Cleaned
<1>4. QED
  BY <1>3 DEF here

\* After the last one the line is clean.
LEMMA CleanedAll ==
  ASSUME NEW buffer, NEW line
  PROVE  Cleaned(buffer, line, KLOG_LINE_SIZE) = Clean(buffer, line)
<1>1. \A cell \in Cell : cell % KLOG_LINE_SIZE < KLOG_LINE_SIZE
  BY CellSplit, KlogAssumption
<1>2. QED
  BY <1>1 DEF Cleaned, Clean
------------------------------------------------------------------------------
(* How a step changes the buffer.                                           *)

\* The numbers that the steps below compute with.
LEMMA Numbered ==
  ASSUME NEW text \in Seq(Char), NEW k \in 0..Len(text)
  PROVE  /\ KLOG_LINES \in Nat \ {0} /\ KLOG_LINE_SIZE \in Nat \ {0} /\ Len(text) \in Nat
         /\ Line(text, k) \in Nat /\ Col(text, k) \in 0..(KLOG_LINE_SIZE - 1)
         /\ k > 0 => k \in 1..Len(text) /\ k - 1 \in 0..Len(text)
BY KlogAssumption, Along

\* A newline: the line is over, and the next one still shows its old text.
LEMMA NewlineLeaves ==
  ASSUME NEW text \in Seq(Char), NEW k \in 0..Len(text), k + 1 \in 1..Len(text),
         text[k + 1] = Newline
  PROVE  /\ Col(text, k + 1) = 0 /\ Line(text, k + 1) = Line(text, k) + 1
         /\ Picture(text, k + 1, Line(text, k + 1) - KLOG_LINES)
              = Picture(text, k, Line(text, k) - KLOG_LINES + 1)
<1> DEFINE j == k + 1
<1>1. j \in 1..Len(text) /\ text[j] = Newline /\ j - 1 = k
  OBVIOUS
<1> HIDE DEF j
<1>2. Col(text, j) = 0 /\ Line(text, j) = Line(text, k) + 1
  BY <1>1, Ahead
<1>3. Line(text, j) - KLOG_LINES = Line(text, k) - KLOG_LINES + 1
  BY <1>2, Numbered
<1>4. \A first : Picture(text, j, first) = Picture(text, k, first)
  BY <1>1, PictureNewline
<1>5. QED
  BY <1>2, <1>3, <1>4 DEF j

\* Another character: it is stored; where it goes on depends on the line.
LEMMA CharStores ==
  ASSUME NEW text \in Seq(Char), NEW k \in 0..Len(text), k + 1 \in 1..Len(text),
         text[k + 1] # Newline
  PROVE  /\ Picture(text, k + 1, Line(text, k) - KLOG_LINES + 1)
              = Write(Picture(text, k, Line(text, k) - KLOG_LINES + 1),
                      CellOf(Line(text, k) % KLOG_LINES, Col(text, k)), text[k + 1])
         /\ IF Col(text, k) + 1 = KLOG_LINE_SIZE
            THEN Line(text, k + 1) = Line(text, k) + 1 /\ Col(text, k + 1) = 0
            ELSE Line(text, k + 1) = Line(text, k) /\ Col(text, k + 1) = Col(text, k) + 1
<1> DEFINE j == k + 1
<1>1. j \in 1..Len(text) /\ text[j] # Newline /\ j - 1 = k
  OBVIOUS
<1> HIDE DEF j
<1>2. Picture(text, j, Line(text, k) - KLOG_LINES + 1)
        = Write(Picture(text, k, Line(text, k) - KLOG_LINES + 1),
                CellOf(Line(text, k) % KLOG_LINES, Col(text, k)), text[j])
  <2>1. /\ Line(text, j - 1) = Line(text, k) /\ Col(text, j - 1) = Col(text, k)
        /\ \A first : Picture(text, j - 1, first) = Picture(text, k, first)
    BY <1>1
  <2>2. LET first == Line(text, j - 1) - KLOG_LINES + 1
        IN Picture(text, j, first) =
             Write(Picture(text, j - 1, first),
                   CellOf(Line(text, j - 1) % KLOG_LINES, Col(text, j - 1)), text[j])
    BY <1>1, PictureWrite
  <2>3. QED
    BY <2>1, <2>2
<1>3. IF Col(text, k) + 1 = KLOG_LINE_SIZE
      THEN Line(text, j) = Line(text, k) + 1 /\ Col(text, j) = 0
      ELSE Line(text, j) = Line(text, k) /\ Col(text, j) = Col(text, k) + 1
  BY <1>1, Ahead
<1>4. QED
  BY <1>2, <1>3 DEF j

\* A handler prints a character.
LEMMA HandlerPrints ==
  ASSUME TypeOK, HandlerPut, NEW text \in Seq(Char), NEW k \in 0..Len(text),
         Left(text, k, handler), Arrived(text, k)
  PROVE  /\ k + 1 \in 0..Len(text) /\ Left(text, k + 1, handler') /\ Arrived(text, k + 1)'
<1> DEFINE n == Line(text, k)
           c == Col(text, k)
           h == Head(handler)
           old == Picture(text, k, n - KLOG_LINES + 1)
           written == Write(old, CellOf(n % KLOG_LINES, c), h)
<1>1. /\ KLOG_LINES \in Nat \ {0} /\ KLOG_LINE_SIZE \in Nat \ {0}
      /\ n \in Nat /\ c \in 0..(KLOG_LINE_SIZE - 1)
  BY Numbered
<1>2. /\ k + 1 \in 1..Len(text) /\ text[k + 1] = h /\ Left(text, k + 1, handler')
  BY TakesOne DEF TypeOK, HandlerPut
<1>3. /\ klog_line_index = n % KLOG_LINES /\ klog_char_index = c /\ klog_buffer = old
  BY DEF Arrived
<1>4. /\ ~(h = Newline \/ c + 1 >= KLOG_LINE_SIZE) =>
           /\ klog_char_index' = c + 1 /\ klog_buffer' = written
           /\ klog_line_index' = n % KLOG_LINES
      /\ h = Newline \/ c + 1 >= KLOG_LINE_SIZE =>
           /\ klog_line_index' = ((n % KLOG_LINES) + 1) % KLOG_LINES /\ klog_char_index' = 0
           /\ klog_buffer' = Clean(IF h = Newline THEN old ELSE written, klog_line_index')
  BY <1>3 DEF HandlerPut, Put
<1>5. SUFFICES /\ klog_line_index' = Line(text, k + 1) % KLOG_LINES
               /\ klog_char_index' = Col(text, k + 1)
               /\ klog_buffer' = Picture(text, k + 1, Line(text, k + 1) - KLOG_LINES + 1)
  BY <1>2 DEF Arrived
<1>6. ((n % KLOG_LINES) + 1) % KLOG_LINES = (n + 1) % KLOG_LINES
  BY <1>1, NextLine
<1>7. h # Newline => Picture(text, k + 1, n - KLOG_LINES + 1) = written
  BY <1>2, CharStores
<1>8. k + 1 \in 0..Len(text)
  BY <1>2
<1>9. ASSUME Line(text, k + 1) = n + 1, Col(text, k + 1) = 0
      PROVE  /\ Line(text, k + 1) - KLOG_LINES = n - KLOG_LINES + 1
             /\ Picture(text, k + 1, Line(text, k + 1) - KLOG_LINES + 1)
                  = Clean(Picture(text, k + 1, n - KLOG_LINES + 1), (n + 1) % KLOG_LINES)
  <2>1. Line(text, k + 1) - KLOG_LINES = n - KLOG_LINES + 1
    BY <1>1, <1>9
  <2>2. Picture(text, k + 1, Line(text, k + 1) - KLOG_LINES + 1)
          = Clean(Picture(text, k + 1, Line(text, k + 1) - KLOG_LINES),
                  Line(text, k + 1) % KLOG_LINES)
    BY <1>8, <1>9, PictureClean
  <2>3. QED
    BY <1>9, <2>1, <2>2
<1> HIDE DEF n, c, h, old, written
<1>10. CASE h = Newline
  <2>1. /\ Col(text, k + 1) = 0 /\ Line(text, k + 1) = n + 1
        /\ Picture(text, k + 1, Line(text, k + 1) - KLOG_LINES) = old
    BY <1>2, <1>10, NewlineLeaves DEF n, old
  <2>2. Picture(text, k + 1, n - KLOG_LINES + 1) = old
    BY <1>9, <2>1
  <2>3. klog_buffer' = Clean(old, (n + 1) % KLOG_LINES) /\ klog_char_index' = 0
        /\ klog_line_index' = (n + 1) % KLOG_LINES
    BY <1>4, <1>6, <1>10
  <2>4. QED
    BY <1>9, <2>1, <2>2, <2>3
<1>11. CASE h # Newline /\ c + 1 >= KLOG_LINE_SIZE
  <2>1. Line(text, k + 1) = n + 1 /\ Col(text, k + 1) = 0
    <3>1. c + 1 = KLOG_LINE_SIZE
      BY <1>1, <1>11
    <3>2. QED
      BY <1>2, <1>11, <3>1, CharStores DEF n, c
  <2>2. klog_buffer' = Clean(written, (n + 1) % KLOG_LINES) /\ klog_char_index' = 0
        /\ klog_line_index' = (n + 1) % KLOG_LINES
    BY <1>4, <1>6, <1>11
  <2>3. QED
    BY <1>7, <1>9, <1>11, <2>1, <2>2
<1>12. CASE h # Newline /\ ~(c + 1 >= KLOG_LINE_SIZE)
  <2>1. Line(text, k + 1) = n /\ Col(text, k + 1) = c + 1
    <3>1. c + 1 # KLOG_LINE_SIZE
      BY <1>1, <1>12
    <3>2. QED
      BY <1>2, <1>12, <3>1, CharStores DEF n, c
  <2>2. klog_buffer' = written /\ klog_char_index' = c + 1 /\ klog_line_index' = n % KLOG_LINES
    BY <1>4, <1>12
  <2>3. QED
    BY <1>7, <1>12, <2>1, <2>2
<1>13. QED
  BY <1>10, <1>11, <1>12

\* klog_print() takes a character, or returns.
LEMMA TestGoes ==
  ASSUME TypeOK, NEW p \in Printer, NEW text \in Seq(Char), Goes(p, text), Test(p)
  PROVE  Goes(p, text)' /\ (at'[p] = "idle" => str'[p] = <<>>)
<1>1. PICK k \in 0..Len(text) : Left(text, k, str[p]) /\ Printing(p, text, k)
  BY DEF Goes
<1>2. /\ at[p] = "test" /\ Arrived(text, k) /\ str[p] \in Seq(Char)
      /\ p \in DOMAIN at /\ p \in DOMAIN str
      /\ UNCHANGED <<klog_line_index, klog_char_index, klog_buffer, reg>>
  BY <1>1 DEF Printing, Test, Step, TypeOK, klog
<1>3. CASE str[p] = <<>> /\ at' = [at EXCEPT ![p] = "idle"] /\ str' = str
  <2>1. at'[p] = "idle" /\ str'[p] = str[p] /\ str'[p] = <<>>
    BY <1>2, <1>3
  <2>2. Printing(p, text, k)'
    BY <1>2, <2>1 DEF Printing, Arrived
  <2>3. Left(text, k, str[p])'
    BY <1>1, <2>1 DEF Left
  <2>4. QED
    BY <2>1, <2>2, <2>3 DEF Goes
<1>4. CASE str[p] # <<>> /\ at' = [at EXCEPT ![p] = "line"] /\ str' = str
  <2>1. at'[p] = "line" /\ str'[p] = str[p]
    BY <1>2, <1>4
  <2>2. Printing(p, text, k)'
    BY <1>2, <2>1 DEF Printing, Arrived
  <2>3. Left(text, k, str[p])'
    BY <1>1, <2>1 DEF Left
  <2>4. QED
    BY <2>1, <2>2, <2>3 DEF Goes
<1>5. CASE /\ str[p] # <<>> /\ Head(str[p]) = Newline /\ at' = [at EXCEPT ![p] = "next_line"]
           /\ str' = [str EXCEPT ![p] = Tail(str[p])]
  <2>1. at'[p] = "next_line" /\ str'[p] = Tail(str[p])
    BY <1>2, <1>5
  <2>2. /\ k + 1 \in 1..Len(text) /\ text[k + 1] = Newline
        /\ Left(text, k + 1, Tail(str[p]))
    BY <1>1, <1>2, <1>5, TakesOne
  <2>3. /\ Col(text, k + 1) = 0 /\ Line(text, k + 1) = Line(text, k) + 1
        /\ Picture(text, k + 1, Line(text, k + 1) - KLOG_LINES)
              = Picture(text, k, Line(text, k) - KLOG_LINES + 1)
    BY <2>2, NewlineLeaves
  <2>4. Line(text, k + 1) > 0 /\ Line(text, k + 1) - 1 = Line(text, k) /\ k + 1 > 0
    <3>1. Line(text, k) \in Nat
      BY Numbered
    <3>2. QED
      BY <2>3, <3>1
  <2>5. Leaving(text, k + 1)'
    BY <1>2, <2>3, <2>4 DEF Leaving, Arrived
  <2>6. Printing(p, text, k + 1)'
    BY <2>1, <2>5 DEF Printing
  <2>7. k + 1 \in 0..Len(text)
    BY <2>2
  <2>8. Left(text, k + 1, str[p])'
    BY <2>1, <2>2 DEF Left
  <2>9. QED
    BY <2>1, <2>6, <2>7, <2>8 DEF Goes
<1>6. QED
  BY <1>3, <1>4, <1>5 DEF Test, Step

\* The character is stored where the indices were when they were loaded.
LEMMA StoreGoes ==
  ASSUME TypeOK, NEW p \in Printer, StrOK(p), NEW text \in Seq(Char), Goes(p, text),
         FetchLine(p) \/ FetchChar(p) \/ StoreChar(p)
  PROVE  Goes(p, text)' /\ at'[p] # "idle"
<1>1. PICK k \in 0..Len(text) : Left(text, k, str[p]) /\ Printing(p, text, k)
  BY DEF Goes
<1>2. /\ at[p] \in {"line", "char", "store"} /\ Arrived(text, k) /\ str[p] \in Seq(Char)
      /\ p \in DOMAIN at /\ p \in DOMAIN str /\ p \in DOMAIN reg
      /\ str[p] # <<>> /\ Head(str[p]) # Newline
  BY <1>1 DEF Printing, FetchLine, FetchChar, StoreChar, Step, TypeOK, StrOK
<1>3. CASE FetchLine(p) \/ FetchChar(p)
  <2>1. UNCHANGED <<klog_line_index, klog_char_index, klog_buffer, str>>
    BY <1>3 DEF FetchLine, FetchChar, Load, klog
  <2>2. \/ at'[p] = "char" /\ reg'[p] = klog_line_index
        \/ at'[p] = "store" /\ reg'[p] = CellOf(klog_line_index, klog_char_index)
    BY <1>1, <1>2, <1>3 DEF FetchLine, FetchChar, Step, Load, Printing
  <2>3. Printing(p, text, k)'
    BY <1>2, <2>1, <2>2 DEF Printing, Arrived
  <2>4. Left(text, k, str[p])'
    BY <1>1, <2>1 DEF Left
  <2>5. QED
    BY <2>2, <2>3, <2>4 DEF Goes
<1>4. CASE StoreChar(p)
  <2>1. /\ at'[p] = "next_char" /\ str'[p] = Tail(str[p])
        /\ UNCHANGED <<klog_line_index, klog_char_index>>
        /\ klog_buffer' = Write(klog_buffer, reg[p], Head(str[p]))
        /\ reg[p] = CellOf(klog_line_index, klog_char_index)
    BY <1>1, <1>2, <1>4 DEF StoreChar, Step, Printing
  <2>2. /\ k + 1 \in 1..Len(text) /\ text[k + 1] = Head(str[p])
        /\ Left(text, k + 1, Tail(str[p]))
    BY <1>1, <1>2, TakesOne
  <2>3. klog_buffer' = Picture(text, k + 1, Line(text, k) - KLOG_LINES + 1)
    BY <1>2, <2>1, <2>2, CharStores DEF Arrived
  <2>4. (k + 1) - 1 = k /\ k + 1 > 0 /\ k + 1 \in 0..Len(text)
    BY <2>2
  <2>5. Stored(text, k + 1)' /\ klog_char_index' = Col(text, (k + 1) - 1)
    BY <1>2, <2>1, <2>2, <2>3, <2>4 DEF Stored, Arrived
  <2>6. Printing(p, text, k + 1)'
    BY <2>1, <2>5 DEF Printing
  <2>7. Left(text, k + 1, str[p])'
    BY <2>1, <2>2 DEF Left
  <2>8. QED
    BY <2>1, <2>4, <2>6, <2>7 DEF Goes
<1>5. QED
  BY <1>3, <1>4

\* next_char(): the index is increased, and compared with the end of the line.
LEMMA CountGoes ==
  ASSUME TypeOK, NEW p \in Printer, NEW text \in Seq(Char), Goes(p, text),
         LoadIndex(p) \/ StoreIndex(p) \/ Compare(p)
  PROVE  Goes(p, text)' /\ at'[p] # "idle"
<1>1. PICK k \in 0..Len(text) : Left(text, k, str[p]) /\ Printing(p, text, k)
  BY DEF Goes
<1> DEFINE c == Col(text, k - 1)
<1>2. /\ Stored(text, k) /\ p \in DOMAIN at /\ p \in DOMAIN reg
      /\ UNCHANGED <<klog_line_index, klog_buffer, str>>
  BY <1>1 DEF Printing, LoadIndex, StoreIndex, Compare, Step, Load, TypeOK, klog
<1>3. Left(text, k, str[p])' /\ (Stored(text, k))'
  BY <1>1, <1>2 DEF Left, Stored
<1>4. SUFFICES Printing(p, text, k)' /\ at'[p] # "idle"
  BY <1>3 DEF Goes
<1>5. CASE LoadIndex(p)
  <2>1. /\ at[p] = "next_char" /\ at'[p] = "increment" /\ reg'[p] = klog_char_index + 1
        /\ klog_char_index' = klog_char_index
    BY <1>2, <1>5 DEF LoadIndex, Step, Load, klog
  <2>2. QED
    BY <1>1, <1>3, <2>1 DEF Printing
<1>6. CASE StoreIndex(p)
  <2>1. /\ at[p] = "increment" /\ at'[p] = "compare" /\ klog_char_index' = reg[p]
        /\ reg' = reg
    BY <1>2, <1>6 DEF StoreIndex, Step
  <2>2. QED
    BY <1>1, <1>3, <2>1 DEF Printing
<1>7. CASE Compare(p)
  <2>1. /\ at[p] = "compare" /\ klog_char_index' = klog_char_index
        /\ \E index \in {reg[p], klog_char_index} :
             IF index >= KLOG_LINE_SIZE THEN at'[p] = "reset" ELSE at'[p] = "test"
    BY <1>2, <1>7 DEF Compare, Step, klog
  <2>2. klog_char_index = c + 1 /\ reg[p] = klog_char_index
    BY <1>1, <2>1 DEF Printing
  <2>3. IF c + 1 >= KLOG_LINE_SIZE THEN at'[p] = "reset" ELSE at'[p] = "test"
    BY <2>1, <2>2
  <2>4. k \in 1..Len(text) /\ k - 1 \in 0..Len(text) /\ (k - 1) + 1 = k /\ text[k] # Newline
    BY <1>2, Numbered DEF Stored
  <2>5. /\ KLOG_LINE_SIZE \in Nat \ {0} /\ KLOG_LINES \in Nat \ {0}
        /\ c \in 0..(KLOG_LINE_SIZE - 1) /\ Line(text, k - 1) \in Nat
    BY <2>4, Numbered
  <2>6. IF c + 1 = KLOG_LINE_SIZE
        THEN Line(text, k) = Line(text, k - 1) + 1 /\ Col(text, k) = 0
        ELSE Line(text, k) = Line(text, k - 1) /\ Col(text, k) = c + 1
    BY <2>4, Ahead
  <2>7. /\ klog_line_index' = Line(text, k - 1) % KLOG_LINES
        /\ klog_buffer' = Picture(text, k, Line(text, k - 1) - KLOG_LINES + 1)
    BY <1>3 DEF Stored
  <2> HIDE DEF c
  <2>8. CASE c + 1 >= KLOG_LINE_SIZE
    <3>1. c + 1 = KLOG_LINE_SIZE
      BY <2>5, <2>8
    <3>2. /\ Line(text, k) > 0 /\ Line(text, k) - 1 = Line(text, k - 1) /\ Col(text, k) = 0
          /\ Line(text, k) - KLOG_LINES = Line(text, k - 1) - KLOG_LINES + 1 /\ k > 0
      BY <2>4, <2>5, <2>6, <3>1
    <3>3. Leaving(text, k)'
      BY <2>7, <3>2 DEF Leaving
    <3>4. QED
      BY <2>3, <2>8, <3>3 DEF Printing
  <2>9. CASE ~(c + 1 >= KLOG_LINE_SIZE)
    <3>1. Line(text, k) = Line(text, k - 1) /\ Col(text, k) = c + 1
      BY <2>5, <2>6, <2>9
    <3>2. Arrived(text, k)'
      BY <2>1, <2>2, <2>7, <3>1 DEF Arrived
    <3>3. QED
      BY <2>3, <2>9, <3>2 DEF Printing
  <2>10. QED
    BY <2>8, <2>9
<1>8. QED
  BY <1>5, <1>6, <1>7

\* next_line(): the next line is entered, with its old text.
LEMMA MoveGoes ==
  ASSUME TypeOK, NEW p \in Printer, NEW text \in Seq(Char), Goes(p, text),
         \/ ResetIndex(p, "reset", "next_line") \/ LoadLine(p) \/ StoreLine(p)
         \/ ResetIndex(p, "zero", "clean")
  PROVE  Goes(p, text)' /\ at'[p] # "idle"
<1>1. PICK k \in 0..Len(text) : Left(text, k, str[p]) /\ Printing(p, text, k)
  BY DEF Goes
<1>2. /\ p \in DOMAIN at /\ p \in DOMAIN reg /\ UNCHANGED <<klog_buffer, str>>
      /\ KLOG_LINES \in Nat \ {0} /\ KLOG_LINE_SIZE \in Nat \ {0} /\ Line(text, k) \in Nat
  BY Numbered DEF ResetIndex, LoadLine, StoreLine, Step, Load, TypeOK, klog
<1>3. Left(text, k, str[p])'
  BY <1>1, <1>2 DEF Left
<1>4. SUFFICES Printing(p, text, k)' /\ at'[p] # "idle"
  BY <1>3 DEF Goes
<1>5. CASE ResetIndex(p, "reset", "next_line")
  <2>1. at[p] = "reset" /\ at'[p] = "next_line" /\ klog_line_index' = klog_line_index
    BY <1>2, <1>5 DEF ResetIndex, Step
  <2>2. Leaving(text, k)'
    BY <1>1, <1>2, <2>1 DEF Printing, Leaving
  <2>3. QED
    BY <2>1, <2>2 DEF Printing
<1>6. CASE LoadLine(p)
  <2>1. /\ at[p] = "next_line" /\ at'[p] = "move" /\ klog_line_index' = klog_line_index
        /\ reg'[p] = (klog_line_index + 1) % KLOG_LINES
    BY <1>2, <1>6 DEF LoadLine, Step, Load, klog
  <2>2. Leaving(text, k)'
    BY <1>1, <1>2, <2>1 DEF Printing, Leaving
  <2>3. reg'[p] = Line(text, k) % KLOG_LINES
    <3>1. /\ klog_line_index = (Line(text, k) - 1) % KLOG_LINES
          /\ Line(text, k) - 1 \in Nat /\ (Line(text, k) - 1) + 1 = Line(text, k)
      BY <1>1, <1>2, <2>1 DEF Printing, Leaving
    <3>2. (((Line(text, k) - 1) % KLOG_LINES) + 1) % KLOG_LINES
            = ((Line(text, k) - 1) + 1) % KLOG_LINES
      BY <1>2, <3>1, NextLine
    <3>3. QED
      BY <2>1, <3>1, <3>2
  <2>4. QED
    BY <2>1, <2>2, <2>3 DEF Printing
<1>7. CASE StoreLine(p)
  <2>1. /\ at[p] = "move" /\ at'[p] = "zero" /\ klog_line_index' = reg[p] /\ reg'[p] = 0
    BY <1>2, <1>7 DEF StoreLine, Step
  <2>2. /\ Col(text, k) = 0 /\ reg[p] = Line(text, k) % KLOG_LINES
        /\ klog_buffer = Picture(text, k, Line(text, k) - KLOG_LINES)
    BY <1>1, <2>1 DEF Printing, Leaving
  <2>3. Entering(text, k, 0)'
    BY <1>2, <2>1, <2>2, CleanedNone DEF Entering
  <2>4. QED
    BY <2>1, <2>3 DEF Printing
<1>8. CASE ResetIndex(p, "zero", "clean")
  <2>1. /\ at[p] = "zero" /\ at'[p] = "clean" /\ klog_line_index' = klog_line_index
        /\ klog_char_index' = 0 /\ reg' = reg
    BY <1>2, <1>8 DEF ResetIndex, Step
  <2>2. reg'[p] = 0 /\ Entering(text, k, 0)'
    BY <1>1, <1>2, <2>1 DEF Printing, Entering
  <2>3. Entering(text, k, reg[p])' /\ reg'[p] < KLOG_LINE_SIZE
    BY <1>2, <2>2 DEF Entering
  <2>4. QED
    BY <2>1, <2>3 DEF Printing
<1>9. QED
  BY <1>5, <1>6, <1>7, <1>8

\* next_line(): its old text goes, one character after the other.
LEMMA CleanGoes ==
  ASSUME TypeOK, NEW p \in Printer, NEW text \in Seq(Char), Goes(p, text), CleanChar(p)
  PROVE  Goes(p, text)' /\ at'[p] # "idle"
<1>1. PICK k \in 0..Len(text) : Left(text, k, str[p]) /\ Printing(p, text, k)
  BY DEF Goes
<1> DEFINE n == Line(text, k)
           old == Picture(text, k, n - KLOG_LINES)
           r == reg[p]
<1>2. /\ at[p] = "clean" /\ reg'[p] = r + 1 /\ r \in Nat
      /\ at'[p] = IF r + 1 < KLOG_LINE_SIZE THEN "clean" ELSE "test"
      /\ klog_buffer' = Write(klog_buffer, CellOf(klog_line_index, r), Blank)
      /\ UNCHANGED <<klog_line_index, klog_char_index, str>>
  BY DEF CleanChar, Step, TypeOK
<1>3. /\ Col(text, k) = 0 /\ klog_line_index = n % KLOG_LINES /\ klog_char_index = 0
      /\ klog_buffer = Cleaned(old, klog_line_index, r) /\ r < KLOG_LINE_SIZE
  BY <1>1, <1>2 DEF Printing, Entering
<1>4. /\ KLOG_LINES \in Nat \ {0} /\ KLOG_LINE_SIZE \in Nat \ {0} /\ n \in Nat
      /\ klog_line_index \in 0..(KLOG_LINES - 1) /\ r \in 0..(KLOG_LINE_SIZE - 1)
  BY <1>2, <1>3, Numbered DEF TypeOK
<1>5. Left(text, k, str[p])'
  BY <1>1, <1>2 DEF Left
<1>6. SUFFICES Printing(p, text, k)' /\ at'[p] # "idle"
  BY <1>5 DEF Goes
<1>7. klog_buffer' = Cleaned(old, klog_line_index', reg'[p])
  BY <1>2, <1>3, <1>4, CleanedNext
<1>8. CASE r + 1 < KLOG_LINE_SIZE
  <2>1. at'[p] = "clean" /\ reg'[p] < KLOG_LINE_SIZE /\ klog_char_index' = 0
    BY <1>2, <1>3, <1>8
  <2>2. Entering(text, k, reg[p])'
    BY <1>2, <1>3, <1>7 DEF Entering
  <2>3. QED
    BY <2>1, <2>2 DEF Printing
<1>9. CASE ~(r + 1 < KLOG_LINE_SIZE)
  <2>1. at'[p] = "test" /\ reg'[p] = KLOG_LINE_SIZE
    BY <1>2, <1>4, <1>9
  <2>2. klog_buffer' = Clean(old, n % KLOG_LINES)
    BY <1>2, <1>3, <1>7, <2>1, CleanedAll
  <2>3. klog_buffer' = Picture(text, k, n - KLOG_LINES + 1)
    BY <1>3, <2>2, PictureClean
  <2>4. Arrived(text, k)'
    BY <1>2, <1>3, <2>3 DEF Arrived
  <2>5. QED
    BY <2>1, <2>4 DEF Printing
<1>10. QED
  BY <1>8, <1>9
------------------------------------------------------------------------------
(* The log.                                                                 *)

\* Every step of a process.
LEMMA ProcessGoes ==
  ASSUME Typed, NEW p \in Printer, NEW text \in Seq(Char), Goes(p, text),
         \/ Test(p) \/ FetchLine(p) \/ FetchChar(p) \/ StoreChar(p)
         \/ LoadIndex(p) \/ StoreIndex(p) \/ Compare(p) \/ ResetIndex(p, "reset", "next_line")
         \/ LoadLine(p) \/ StoreLine(p) \/ ResetIndex(p, "zero", "clean") \/ CleanChar(p)
  PROVE  Goes(p, text)' /\ (at'[p] = "idle" => str'[p] = <<>>)
<1>1. TypeOK /\ StrOK(p)
  BY DEF Typed
<1>2. CASE Test(p)
  BY <1>1, <1>2, TestGoes
<1>3. CASE FetchLine(p) \/ FetchChar(p) \/ StoreChar(p)
  BY <1>1, <1>3, StoreGoes
<1>4. CASE LoadIndex(p) \/ StoreIndex(p) \/ Compare(p)
  BY <1>1, <1>4, CountGoes
<1>5. CASE \/ ResetIndex(p, "reset", "next_line") \/ LoadLine(p) \/ StoreLine(p)
           \/ ResetIndex(p, "zero", "clean")
  BY <1>1, <1>5, MoveGoes
<1>6. CASE CleanChar(p)
  BY <1>1, <1>6, CleanGoes
<1>7. QED
  BY <1>2, <1>3, <1>4, <1>5, <1>6

\* It is the step of the only one that prints.
LEMMA ProcessLogs ==
  ASSUME Typed, LogInv, NEW p \in Printer,
         \/ Test(p) \/ FetchLine(p) \/ FetchChar(p) \/ StoreChar(p)
         \/ LoadIndex(p) \/ StoreIndex(p) \/ Compare(p) \/ ResetIndex(p, "reset", "next_line")
         \/ LoadLine(p) \/ StoreLine(p) \/ ResetIndex(p, "zero", "clean") \/ CleanChar(p)
  PROVE  LogInv'
<1>1. /\ at[p] # "idle" /\ handler = <<>> /\ UNCHANGED <<handler, log, mixed>>
      /\ p \in DOMAIN at
      /\ \A q \in Printer : q # p => at'[q] = at[q] /\ str'[q] = str[q]
      /\ at[p] = "test" \/ at'[p] # "idle"
  BY DEF Typed, TypeOK, Test, FetchLine, FetchChar, StoreChar, LoadIndex, StoreIndex, Compare,
         ResetIndex, LoadLine, StoreLine, CleanChar, Step, Load
<1>2. \A q \in Printer : at'[q] = "idle" => str'[q] = <<>>
  <2>1. at'[p] = "idle" => str'[p] = <<>>
    <3>1. at'[p] = "idle" => Test(p)
      BY <1>1 DEF Typed, TypeOK, Test, FetchLine, FetchChar, StoreChar, LoadIndex, StoreIndex,
                  Compare, ResetIndex, LoadLine, StoreLine, CleanChar, Step
    <3>2. QED
      BY <1>1, <3>1 DEF Test, Step, Typed, TypeOK
  <2>2. QED
    BY <1>1, <2>1 DEF LogInv
<1>3. ASSUME ~mixed
      PROVE  /\ \A q \in Printer : q # p => at'[q] = "idle"
             /\ \E text \in Seq(Char) : text = FlattenSeq(log) /\ Goes(p, text)'
  <2>1. PICK text \in Seq(Char) : text = FlattenSeq(log) /\ Goes(p, text)
    BY <1>1, <1>3, Flattened DEF LogInv, Typed, TypeOK
  <2>2. Goes(p, text)'
    BY <2>1, ProcessGoes
  <2>3. QED
    BY <1>1, <1>3, <2>1, <2>2 DEF LogInv
<1>4. ASSUME ~mixed'
      PROVE  /\ \A q, r \in Printer : at'[q] # "idle" /\ at'[r] # "idle" => q = r
             /\ (\A q \in Printer : at'[q] = "idle") =>
                  \E k \in 0..Len(FlattenSeq(log')) : /\ Left(FlattenSeq(log'), k, handler')
                                                      /\ Arrived(FlattenSeq(log), k)'
             /\ \A q \in Printer : at'[q] # "idle" =>
                  handler' = <<>> /\ Goes(q, FlattenSeq(log))'
  <2>1. PICK text \in Seq(Char) : /\ text = FlattenSeq(log) /\ Goes(p, text)'
                                  /\ \A q \in Printer : q # p => at'[q] = "idle"
    BY <1>1, <1>3, <1>4
  <2>2. text = FlattenSeq(log')
    BY <1>1, <2>1
  <2>3. PICK k \in 0..Len(text) : Left(text, k, str'[p]) /\ Printing(p, text, k)'
    BY <2>1 DEF Goes
  <2>4. at'[p] = "idle" => Left(text, k, handler') /\ Arrived(text, k)'
    BY <1>1, <1>2, <2>3 DEF Printing
  <2>5. Arrived(FlattenSeq(log), k)' <=> Arrived(text, k)'
    BY <2>2 DEF Arrived
  <2>6. Goes(p, FlattenSeq(log))'
    BY <2>2, <2>3 DEF Goes, Printing, Arrived, Stored, Leaving, Entering
  <2>7. QED
    BY <1>1, <2>1, <2>2, <2>4, <2>5, <2>6
<1>5. QED
  BY <1>2, <1>4 DEF LogInv

\* A call starts where all that was printed ends.
LEMMA CallLogs ==
  ASSUME Typed, NEW t \in Seq(Char), log' = Append(log, t), UNCHANGED klog,
         NEW k \in 0..Len(FlattenSeq(log)), Left(FlattenSeq(log), k, <<>>),
         Arrived(FlattenSeq(log), k)
  PROVE  /\ k \in 0..Len(FlattenSeq(log')) /\ Left(FlattenSeq(log'), k, t)
         /\ Arrived(FlattenSeq(log), k)'
<1>1. PICK text \in Seq(Char) : text = FlattenSeq(log)
  BY Flattened DEF Typed, TypeOK
<1>2. FlattenSeq(log') = text \o t
  BY <1>1, Flattened DEF Typed, TypeOK
<1> DEFINE all == text \o t
<1>3. /\ all \in Seq(Char) /\ Len(all) = Len(text) + Len(t) /\ Len(text) \in Nat
      /\ Len(t) \in Nat /\ \A i \in 1..Len(t) : all[Len(text) + i] = t[i]
  <2>1. /\ all \in Seq(Char) /\ Len(all) = Len(text) + Len(t) /\ Len(text) \in Nat
        /\ Len(t) \in Nat
        /\ \A i \in 1..(Len(text) + Len(t)) :
             all[i] = IF i <= Len(text) THEN text[i] ELSE t[i - Len(text)]
    BY ConcatProperties
  <2> HIDE DEF all
  <2>2. ASSUME NEW i \in 1..Len(t) PROVE all[Len(text) + i] = t[i]
    <3>1. /\ Len(text) + i \in 1..(Len(text) + Len(t)) /\ ~(Len(text) + i <= Len(text))
          /\ (Len(text) + i) - Len(text) = i
      BY <2>1
    <3>2. QED
      BY <2>1, <3>1
  <2>3. QED
    BY <2>1, <2>2
<1>4. k = Len(text)
  BY <1>1, AllTaken
<1>5. /\ Spots(all)[k] = Spots(text)[k]
      /\ \A first : Picture(all, k, first) = Picture(text, k, first)
  BY <1>1, <1>4, SpotsKept, PictureKept
<1>6. Line(all, k) = Line(text, k) /\ Col(all, k) = Col(text, k)
  BY <1>5 DEF Line, Col
<1> HIDE DEF all
<1>7. k \in 0..Len(all) /\ Left(all, k, t)
  BY <1>3, <1>4 DEF Left
<1>8. FlattenSeq(log') = all
  BY <1>2 DEF all
<1>9. Arrived(FlattenSeq(log), k)'
  BY <1>1, <1>5, <1>6, <1>8 DEF Arrived, klog
<1>10. QED
  BY <1>7, <1>8, <1>9

\* At the start nothing is printed.
LEMMA LogInit == Init => LogInv
<1>1. SUFFICES ASSUME Init PROVE LogInv
  OBVIOUS
<1>2. /\ \A p \in Printer : at[p] = "idle" /\ str[p] = <<>>
      /\ handler = <<>> /\ log = <<>>
  BY <1>1 DEF Init
<1>3. <<>> \in Seq(Char) /\ Len(<<>>) = 0 /\ <<>> \in Seq(Seq(Char)) /\ 0 \in 0..0
  OBVIOUS
<1>4. FlattenSeq(log) = <<>>
  BY <1>2, <1>3, Flattened
<1>5. Left(<<>>, 0, <<>>)
  BY <1>3 DEF Left
<1>6. Arrived(<<>>, 0)
  <2>1. Line(<<>>, 0) = 0 /\ Col(<<>>, 0) = 0
    BY <1>3, Along
  <2>2. \A first : Picture(<<>>, 0, first) = [cell \in Cell |-> Blank]
    <3>1. \A first, cell : Chars(<<>>, 0, first, cell) = {}
      BY DEF Chars
    <3>2. QED
      BY <3>1 DEF Picture
  <2>3. 0 % KLOG_LINES = 0
    <3>1. 0 = 0 * KLOG_LINES + 0 /\ 0 \in 0..(KLOG_LINES - 1) /\ KLOG_LINES \in Nat \ {0}
      BY KlogAssumption
    <3>2. QED
      BY <3>1, Quotient
  <2>4. QED
    BY <1>1, <2>1, <2>2, <2>3 DEF Arrived, Init
<1>7. QED
  BY <1>2, <1>3, <1>4, <1>5, <1>6 DEF LogInv

\* Every step keeps it.
LEMMA LogNext == ASSUME Typed, LogInv, [Next]_vars PROVE LogInv'
<1> DEFINE text == FlattenSeq(log)
<1>1. CASE HandlerPut
  <2>1. UNCHANGED <<str, at, reg, log, mixed>> /\ handler # <<>>
    BY <1>1 DEF HandlerPut
  <2>2. ASSUME ~mixed
        PROVE  /\ \A p \in Printer : at[p] = "idle"
               /\ \E k \in 0..Len(text) : Left(text, k, handler') /\ Arrived(FlattenSeq(log), k)'
    <3>1. \A p \in Printer : at[p] = "idle"
      BY <2>1, <2>2 DEF LogInv
    <3>2. PICK k \in 0..Len(text) : Left(text, k, handler) /\ Arrived(text, k)
      BY <2>2, <3>1 DEF LogInv
    <3>3. PICK tape \in Seq(Char) : tape = text
      BY Flattened DEF Typed, TypeOK
    <3>4. /\ k + 1 \in 0..Len(tape) /\ Left(tape, k + 1, handler') /\ Arrived(tape, k + 1)'
      BY <1>1, <3>2, <3>3, HandlerPrints DEF Typed
    <3>5. Arrived(FlattenSeq(log), k + 1)'
      BY <2>1, <3>3, <3>4 DEF Arrived
    <3>6. QED
      BY <3>1, <3>3, <3>4, <3>5
  <2>3. QED
    BY <2>1, <2>2 DEF LogInv
<1>2. ASSUME NEW t \in Printed, Interrupt(t) PROVE LogInv'
  <2>1. /\ t \in Seq(Char) /\ handler = <<>> /\ handler' = t /\ log' = Append(log, t)
        /\ mixed' = (mixed \/ \E p \in Printer : at[p] # "idle")
        /\ UNCHANGED <<klog, str, at>>
    BY <1>2, PrintedTexts DEF Interrupt
  <2>2. ASSUME ~mixed'
        PROVE  /\ \A p \in Printer : at[p] = "idle"
               /\ \E k \in 0..Len(FlattenSeq(log')) : /\ Left(FlattenSeq(log'), k, handler')
                                                      /\ Arrived(FlattenSeq(log), k)'
    <3>1. ~mixed /\ \A p \in Printer : at[p] = "idle"
      BY <2>1, <2>2
    <3>2. PICK k \in 0..Len(text) : Left(text, k, <<>>) /\ Arrived(text, k)
      BY <2>1, <3>1 DEF LogInv
    <3>3. QED
      BY <2>1, <3>1, <3>2, CallLogs
  <2>3. QED
    BY <2>1, <2>2 DEF LogInv
<1>3. ASSUME NEW p \in Printer, NEW t \in Printed, klog_print(p, t) PROVE LogInv'
  <2>1. /\ t \in Seq(Char) /\ handler = <<>> /\ handler' = <<>> /\ log' = Append(log, t)
        /\ mixed' = (mixed \/ \E q \in Printer : at[q] # "idle")
        /\ at'[p] = "test" /\ str'[p] = t
        /\ \A q \in Printer : q # p => at'[q] = at[q] /\ str'[q] = str[q]
        /\ UNCHANGED klog
    BY <1>3, PrintedTexts DEF klog_print, Typed, TypeOK
  <2>2. ASSUME ~mixed'
        PROVE  (\A q \in Printer : at[q] = "idle") /\ Goes(p, FlattenSeq(log))'
    <3>1. ~mixed /\ \A q \in Printer : at[q] = "idle"
      BY <2>1, <2>2
    <3>2. PICK k \in 0..Len(text) : Left(text, k, <<>>) /\ Arrived(text, k)
      BY <2>1, <3>1 DEF LogInv
    <3>3. /\ k \in 0..Len(FlattenSeq(log')) /\ Left(FlattenSeq(log'), k, t)
          /\ Arrived(FlattenSeq(log), k)'
      BY <2>1, <3>2, CallLogs
    <3>4. Printing(p, FlattenSeq(log), k)'
      BY <2>1, <3>3 DEF Printing
    <3>5. QED
      BY <2>1, <3>1, <3>3, <3>4 DEF Goes
  <2>3. QED
    BY <2>1, <2>2 DEF LogInv
<1>4. CASE Done \/ UNCHANGED vars
  <2>1. UNCHANGED <<klog_line_index, klog_char_index, klog_buffer, str, at, reg, handler, log,
                    mixed>>
    BY <1>4 DEF Done, vars, klog
  <2>2. QED
    BY <2>1 DEF LogInv, Goes, Printing, Arrived, Stored, Leaving, Entering
<1>5. QED
  BY <1>1, <1>2, <1>3, <1>4, ProcessLogs DEF Next

\* For a buffer of any size, any texts and any number of processes: as long as no call has
\* been interrupted by another, klog_buffer shows the last KLOG_LINES lines of all that was
\* printed, each on its line, and nothing of the lines before.
THEOREM LogIsShown == Spec => []ShowsLog
<1>1. ASSUME Typed, LogInv PROVE ShowsLog
  <2>1. SUFFICES ASSUME handler = <<>>, \A p \in Printer : at[p] = "idle", ~mixed
                 PROVE  klog_buffer = Shown(FlattenSeq(log))
    BY DEF ShowsLog
  <2>2. PICK k \in 0..Len(FlattenSeq(log)) : Left(FlattenSeq(log), k, <<>>)
                                             /\ Arrived(FlattenSeq(log), k)
    BY <1>1, <2>1 DEF LogInv
  <2>3. FlattenSeq(log) \in Seq(Char)
    BY <1>1, Flattened DEF Typed, TypeOK
  <2>4. k = Len(FlattenSeq(log))
    BY <2>2, <2>3, AllTaken
  <2>5. QED
    BY <2>2, <2>4, ShownIs DEF Arrived
<1>2. QED
  BY <1>1, TypesHold, LogInit, LogNext, PTL DEF Spec
==============================================================================
