--------------------------------- MODULE Layout ---------------------------------
(****************************************************************************)
(* The physical memory that is shared out by arithmetic alone: the kernel   *)
(* stacks, from RAMTOP downwards (initialize.c, initProc.c), and the frames *)
(* of the swap pool (vmSupport.c).  LayoutProofs shows that no two meet.    *)
(****************************************************************************)
EXTENDS Integers

PAGESIZE == 4096
swapPoolStart == \h20020000

\* Who has a stack, for programs 1..n.
Stack(n) == {<<"SSI", 0>>, <<"test", 0>>, <<"swapMutex", 0>>}
              \cup ({"general", "pageFault", "SST"} \X (1..n))

\* state.reg_sp of test() after the SST of asid is made; 0 for swapMutex().
RegSp(ramtop, asid) == ramtop - 2 * PAGESIZE - 3 * PAGESIZE * asid

\* Where a stack starts: it grows downwards, in a page of its own.  The stacks of
\* the handlers of asid are set up by initSupportStruct().
StackPtr(ramtop, s) ==
  CASE s[1] = "SSI" -> ramtop
    [] s[1] = "test" -> ramtop - PAGESIZE
    [] s[1] = "swapMutex" -> RegSp(ramtop, 0)
    [] s[1] = "general" -> RegSp(ramtop, s[2] - 1) - PAGESIZE
    [] s[1] = "pageFault" -> RegSp(ramtop, s[2] - 1) - PAGESIZE - PAGESIZE
    [] s[1] = "SST" -> RegSp(ramtop, s[2])

\* What pageFaultExceptionHandler() and flashDev() take for frame f.
FrameAddr(f) == swapPoolStart + f * PAGESIZE

\* The check of test() under DEBUG, given sizeof(swap_t).
RamSufficient(ramtop, n, poolSize, swapSize) ==
  RegSp(ramtop, n) - PAGESIZE >= swapPoolStart + swapSize * poolSize
==============================================================================
