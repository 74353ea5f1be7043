---------------------------------- MODULE Klog ----------------------------------
(****************************************************************************)
(* klog.c: a circular buffer of lines that processes and handlers print to, *)
(* with no lock.                                                            *)
(*                                                                          *)
(* A handler runs with interrupts off: each of its characters is one step,  *)
(* and no process runs before it has printed its text.  The SSI, test() and *)
(* the SSTs run with interrupts on: the loads and the stores of the two     *)
(* indices are steps, as -O0 compiles them, and a handler or another        *)
(* process may print between any two.                                       *)
(****************************************************************************)
EXTENDS Integers, SequencesExt

CONSTANTS
  Printer,              \* the processes that print
  Texts,                \* what klog_print() is called with: sequences of Char
  Numbers, Addresses,   \* and klog_print_dec(), klog_print_hex()
  KLOG_LINES, KLOG_LINE_SIZE,
  MaxPrints             \* bound: how many calls

digits == <<"0", "1", "2", "3", "4", "5", "6", "7", "8", "9", "A", "B", "C", "D", "E", "F">>
Digit(n) == digits[n + 1]
Newline == "newline"
Blank == "blank"        \* a space, and what the buffer holds at the start
Char == ToSet(digits) \cup {"a", "b", Newline}

ASSUME KlogAssumption ==
  /\ KLOG_LINES \in Nat \ {0} /\ KLOG_LINE_SIZE \in Nat \ {0} /\ MaxPrints \in Nat
  /\ Texts \subseteq Seq(Char) /\ Numbers \subseteq Nat /\ Addresses \subseteq Nat

\* klog_print_dec() prints the last two digits, klog_print_hex() the lowest digit first.
Dec(num) == IF num < 10 THEN <<Digit(num)>>
            ELSE <<Digit((num \div 10) % 10), Digit(num % 10)>>
Hex(num) == [i \in 1..8 |-> Digit((num \div 16 ^ (i - 1)) % 16)]
Printed == Texts \cup {Dec(n) : n \in Numbers} \cup {Hex(n) : n \in Addresses}

Cell == 0..(KLOG_LINES * KLOG_LINE_SIZE - 1)
CellOf(line, char) == line * KLOG_LINE_SIZE + char

VARIABLES
  klog_line_index, klog_char_index, klog_buffer,
  str,        \* str[p]: what p has still to print
  at, reg,    \* where p is, and the register it computes with
  handler,    \* what the handler that runs has still to print
  log,        \* the texts of all calls, in order
  mixed       \* a call has been interrupted by another

klog == <<klog_line_index, klog_char_index, klog_buffer>>
vars == <<klog, str, at, reg, handler, log, mixed>>

\* What follows the buffer in memory is left out.
Write(buffer, cell, c) == IF cell \in Cell THEN [buffer EXCEPT ![cell] = c] ELSE buffer
Clean(buffer, line) ==
  [cell \in Cell |-> IF cell \div KLOG_LINE_SIZE = line THEN Blank ELSE buffer[cell]]

Init ==
  /\ klog_line_index = 0 /\ klog_char_index = 0 /\ klog_buffer = [cell \in Cell |-> Blank]
  /\ str = [p \in Printer |-> <<>>] /\ at = [p \in Printer |-> "idle"]
  /\ reg = [p \in Printer |-> 0]
  /\ handler = <<>> /\ log = <<>> /\ mixed = FALSE
------------------------------------------------------------------------------
(* A handler.                                                               *)

Interrupt(t) ==
  /\ handler = <<>> /\ t # <<>> /\ Len(log) < MaxPrints
  /\ handler' = t /\ log' = Append(log, t)
  /\ mixed' = (mixed \/ \E p \in Printer : at[p] # "idle")
  /\ UNCHANGED <<klog, str, at, reg>>

\* Mutant: the line that is entered keeps its old text.
PutNoClean ==
  LET written == Write(klog_buffer, CellOf(klog_line_index, klog_char_index), Head(handler))
      full == klog_char_index + 1 >= KLOG_LINE_SIZE
  IN \/ /\ Head(handler) # Newline /\ ~full
        /\ klog_char_index' = klog_char_index + 1 /\ klog_buffer' = written
        /\ UNCHANGED klog_line_index
     \/ /\ Head(handler) = Newline \/ full
        /\ klog_line_index' = (klog_line_index + 1) % KLOG_LINES /\ klog_char_index' = 0
        /\ klog_buffer' = IF Head(handler) = Newline THEN klog_buffer ELSE written

\* klog_print() with next_char() and next_line(), uninterrupted.
Put ==
  LET written == Write(klog_buffer, CellOf(klog_line_index, klog_char_index), Head(handler))
      full == klog_char_index + 1 >= KLOG_LINE_SIZE
  IN \/ /\ Head(handler) # Newline /\ ~full
        /\ klog_char_index' = klog_char_index + 1 /\ klog_buffer' = written
        /\ UNCHANGED klog_line_index
     \/ /\ Head(handler) = Newline \/ full
        /\ klog_line_index' = (klog_line_index + 1) % KLOG_LINES /\ klog_char_index' = 0
        /\ klog_buffer' = Clean(IF Head(handler) = Newline THEN klog_buffer ELSE written,
                                klog_line_index')
HandlerPut ==
  /\ handler # <<>> /\ Put /\ handler' = Tail(handler)
  /\ UNCHANGED <<str, at, reg, log, mixed>>
------------------------------------------------------------------------------
(* A process.                                                               *)

Step(p, from, to) ==
  /\ handler = <<>> /\ at[p] = from /\ at' = [at EXCEPT ![p] = to]
  /\ UNCHANGED <<handler, log, mixed>>
Load(p, v) == reg' = [reg EXCEPT ![p] = v] /\ UNCHANGED <<klog, str>>

klog_print(p, t) ==
  /\ handler = <<>> /\ at[p] = "idle" /\ Len(log) < MaxPrints
  /\ at' = [at EXCEPT ![p] = "test"] /\ str' = [str EXCEPT ![p] = t] /\ log' = Append(log, t)
  /\ mixed' = (mixed \/ \E q \in Printer : at[q] # "idle")
  /\ UNCHANGED <<klog, reg, handler>>
Test(p) ==
  /\ \/ str[p] = <<>> /\ Step(p, "test", "idle") /\ UNCHANGED str
     \/ /\ str[p] # <<>> /\ str' = [str EXCEPT ![p] = Tail(str[p])]
        /\ Head(str[p]) = Newline /\ Step(p, "test", "next_line")
     \/ /\ str[p] # <<>> /\ Head(str[p]) # Newline /\ Step(p, "test", "line") /\ UNCHANGED str
  /\ UNCHANGED <<klog, reg>>
FetchLine(p) == Step(p, "line", "char") /\ Load(p, klog_line_index)
FetchChar(p) == Step(p, "char", "store") /\ Load(p, CellOf(reg[p], klog_char_index))
StoreChar(p) ==
  /\ Step(p, "store", "next_char")
  /\ klog_buffer' = Write(klog_buffer, reg[p], Head(str[p]))
  /\ str' = [str EXCEPT ![p] = Tail(str[p])]
  /\ UNCHANGED <<klog_line_index, klog_char_index, reg>>

\* next_char().
LoadIndex(p) == Step(p, "next_char", "increment") /\ Load(p, klog_char_index + 1)
StoreIndex(p) ==
  /\ Step(p, "increment", "compare") /\ klog_char_index' = reg[p]
  /\ UNCHANGED <<klog_line_index, klog_buffer, str, reg>>

\* Mutant: > in place of >=.
CompareLate(p) ==
  /\ IF klog_char_index > KLOG_LINE_SIZE THEN Step(p, "compare", "reset")
                                         ELSE Step(p, "compare", "test")
  /\ UNCHANGED <<klog, str, reg>>

\* With what it has stored, or with what it loads again.
Compare(p) ==
  /\ \E index \in {reg[p], klog_char_index} :
       IF index >= KLOG_LINE_SIZE THEN Step(p, "compare", "reset") ELSE Step(p, "compare", "test")
  /\ UNCHANGED <<klog, str, reg>>
ResetIndex(p, from, to) ==
  /\ Step(p, from, to) /\ klog_char_index' = 0
  /\ UNCHANGED <<klog_line_index, klog_buffer, str, reg>>

\* Mutant: the lines do not wrap.
LoadNextLine(p) == Step(p, "next_line", "move") /\ Load(p, klog_line_index + 1)

\* next_line().
LoadLine(p) == Step(p, "next_line", "move") /\ Load(p, (klog_line_index + 1) % KLOG_LINES)
StoreLine(p) ==
  /\ Step(p, "move", "zero") /\ klog_line_index' = reg[p] /\ reg' = [reg EXCEPT ![p] = 0]
  /\ UNCHANGED <<klog_char_index, klog_buffer, str>>
CleanChar(p) ==
  /\ Step(p, "clean", IF reg[p] + 1 < KLOG_LINE_SIZE THEN "clean" ELSE "test")
  /\ klog_buffer' = Write(klog_buffer, CellOf(klog_line_index, reg[p]), Blank)
  /\ reg' = [reg EXCEPT ![p] = @ + 1]
  /\ UNCHANGED <<klog_line_index, klog_char_index, str>>
------------------------------------------------------------------------------
\* No more calls are made.
Done ==
  /\ Len(log) = MaxPrints /\ handler = <<>> /\ \A p \in Printer : at[p] = "idle"
  /\ UNCHANGED vars

Next ==
  \/ HandlerPut \/ Done
  \/ \E t \in Printed : Interrupt(t)
  \/ \E p \in Printer :
       \/ \E t \in Printed : klog_print(p, t)
       \/ Test(p) \/ FetchLine(p) \/ FetchChar(p) \/ StoreChar(p)
       \/ LoadIndex(p) \/ StoreIndex(p) \/ Compare(p) \/ ResetIndex(p, "reset", "next_line")
       \/ LoadLine(p) \/ StoreLine(p) \/ ResetIndex(p, "zero", "clean") \/ CleanChar(p)

Spec == Init /\ [][Next]_vars
------------------------------------------------------------------------------
TypeOK ==
  /\ klog_line_index \in 0..(KLOG_LINES - 1) /\ klog_char_index \in Nat
  /\ klog_buffer \in [Cell -> (Char \ {Newline}) \cup {Blank}]
  /\ str \in [Printer -> Seq(Char)] /\ handler \in Seq(Char) /\ log \in Seq(Seq(Char))
  /\ at \in [Printer -> {"idle", "test", "line", "char", "store", "next_char", "increment",
                         "compare", "reset", "next_line", "move", "zero", "clean"}]
  /\ reg \in [Printer -> Nat] /\ mixed \in BOOLEAN

\* The index leaves its line by one character at most, and only until the process that
\* stored it has compared it: what handlers print meanwhile lands in the next line or
\* just after the buffer (klog.c:78).  It takes that one process prints at a time.
IndexInLine ==
  /\ klog_char_index <= KLOG_LINE_SIZE
  /\ klog_char_index = KLOG_LINE_SIZE => \E p \in Printer : at[p] \in {"compare", "reset"}

\* The texts as on an endless tape, where a newline leads to the next multiple of
\* KLOG_LINE_SIZE: the spot after each character.
Spots(text) ==
  LET spot[i \in 0..Len(text)] ==
        IF i = 0 THEN 0
        ELSE IF text[i] = Newline
             THEN (spot[i - 1] \div KLOG_LINE_SIZE + 1) * KLOG_LINE_SIZE
             ELSE spot[i - 1] + 1
  IN spot

\* The last KLOG_LINES lines of the tape.
Shown(text) ==
  LET spot == Spots(text)
      first == spot[Len(text)] \div KLOG_LINE_SIZE - KLOG_LINES + 1
      Of(cell) == {i \in 1..Len(text) : /\ text[i] # Newline
                                        /\ spot[i - 1] % (KLOG_LINES * KLOG_LINE_SIZE) = cell
                                        /\ spot[i - 1] \div KLOG_LINE_SIZE >= first}
  IN [cell \in Cell |-> IF Of(cell) = {} THEN Blank ELSE text[CHOOSE i \in Of(cell) : TRUE]]

\* As long as no call interrupts another, the buffer shows the last lines of all that
\* was printed, and nothing of the lines before.
ShowsLog ==
  handler = <<>> /\ (\A p \in Printer : at[p] = "idle") /\ ~mixed
    => klog_buffer = Shown(FlattenSeq(log))
==============================================================================
