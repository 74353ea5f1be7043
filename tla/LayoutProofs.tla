------------------------------ MODULE LayoutProofs ------------------------------
(* Stacks and frames do not meet. *)
EXTENDS Layout, TLAPS

\* The page of a stack, counted downwards from RAMTOP.
PageOf(s) ==
  CASE s[1] = "SSI" -> 0
    [] s[1] = "test" -> 1
    [] s[1] = "swapMutex" -> 2
    [] s[1] = "general" -> 3 * s[2]
    [] s[1] = "pageFault" -> 3 * s[2] + 1
    [] s[1] = "SST" -> 3 * s[2] + 2

\* The stacks of the kernel and of the programs, apart.
LEMMA StackCases ==
  ASSUME NEW n \in Nat, NEW s \in Stack(n)
  PROVE \/ s[2] = 0 /\ s = <<s[1], s[2]>> /\ s[1] \in {"SSI", "test", "swapMutex"}
        \/ s[2] \in 1..n /\ s = <<s[1], s[2]>> /\ s[1] \in {"general", "pageFault", "SST"}
BY DEF Stack

\* Every stack starts at its page, of which there are three for each program and three more.
LEMMA StackPage ==
  ASSUME NEW ramtop \in Int, NEW n \in Nat, NEW s \in Stack(n)
  PROVE /\ PageOf(s) \in 0..(3 * n + 2)
        /\ StackPtr(ramtop, s) = ramtop - PageOf(s) * PAGESIZE
<1>1. CASE s[2] = 0 /\ s[1] \in {"SSI", "test", "swapMutex"}
  BY <1>1 DEF StackPtr, RegSp, PAGESIZE, PageOf
<1>2. CASE s[2] \in 1..n /\ s[1] \in {"general", "pageFault", "SST"}
  <2>1. CASE s[1] = "general"
    BY <1>2, <2>1 DEF StackPtr, RegSp, PAGESIZE, PageOf
  <2>2. CASE s[1] = "pageFault"
    BY <1>2, <2>2 DEF StackPtr, RegSp, PAGESIZE, PageOf
  <2>3. CASE s[1] = "SST"
    BY <1>2, <2>3 DEF StackPtr, RegSp, PAGESIZE, PageOf
  <2>4. QED
    BY <1>2, <2>1, <2>2, <2>3
<1>3. QED
  BY <1>1, <1>2, StackCases

\* Each of the SSI, test(), swapMutex() and, for any number of programs, the SSTs and the
\* exception handlers of the support level has a page of its own for its stack: the
\* offsets of test() and initSupportStruct() do not collide (initProc.c).
THEOREM StacksApart ==
  ASSUME NEW ramtop \in Int, NEW n \in Nat, NEW s \in Stack(n), NEW t \in Stack(n), s # t
  PROVE \/ StackPtr(ramtop, s) >= StackPtr(ramtop, t) + PAGESIZE
        \/ StackPtr(ramtop, t) >= StackPtr(ramtop, s) + PAGESIZE
<1>1. PageOf(s) \in Int /\ StackPtr(ramtop, s) = ramtop - PageOf(s) * PAGESIZE
  BY StackPage
<1>2. PageOf(t) \in Int /\ StackPtr(ramtop, t) = ramtop - PageOf(t) * PAGESIZE
  BY StackPage
<1>3. PageOf(s) # PageOf(t)
  <2>1. s[1] # t[1] \/ s[2] # t[2]
    BY StackCases
  <2>2. QED
    BY <2>1, StackCases DEF PageOf
<1>4. ASSUME NEW i \in Int, NEW j \in Int, i # j
      PROVE \/ ramtop - i * PAGESIZE >= (ramtop - j * PAGESIZE) + PAGESIZE
            \/ ramtop - j * PAGESIZE >= (ramtop - i * PAGESIZE) + PAGESIZE
  BY <1>4 DEF PAGESIZE
<1>5. QED
  BY <1>1, <1>2, <1>3, <1>4

\* With 32 frames below the swap pool and 3 pages for each program and for the kernel,
\* no stack reaches into a frame of the swap pool (75 frames of RAM for 8 programs and
\* 16 frames; the machine of the repository has 128).
THEOREM StacksAboveFrames ==
  ASSUME NEW n \in Nat, NEW poolSize \in Nat, NEW ramtop \in Int,
         ramtop >= swapPoolStart + (poolSize + 3 * n + 3) * PAGESIZE,
         NEW s \in Stack(n), NEW f \in 0..(poolSize - 1)
  PROVE StackPtr(ramtop, s) - PAGESIZE >= FrameAddr(f) + PAGESIZE
<1>1. PageOf(s) \in 0..(3 * n + 2) /\ StackPtr(ramtop, s) = ramtop - PageOf(s) * PAGESIZE
  BY StackPage
<1>2. QED
  BY <1>1 DEF FrameAddr, swapPoolStart, PAGESIZE

\* The check of test() does not ensure that: it counts the entries of the swap table,
\* of 12 bytes, in place of the frames.  With 64 frames of RAM it passes, and the page of
\* the last stack is frame 5 of the swap pool (initProc.c:39).
THEOREM RamCheckTooWeak ==
  ASSUME NEW swapSize \in 1..1280
  PROVE LET ramtop == \h20000000 + 64 * PAGESIZE
        IN /\ RamSufficient(ramtop, 8, 16, swapSize)
           /\ FrameAddr(5) = StackPtr(ramtop, <<"SST", 8>>) - PAGESIZE
BY DEF RamSufficient, RegSp, StackPtr, FrameAddr, swapPoolStart, PAGESIZE
==============================================================================
