------------------------------- MODULE Pager -------------------------------
(***************************************************************************)
(* The paging of the persistent heap (nvhtm/src/paging.c): a thread that   *)
(* touches a page which is not mapped runs add_page in its SIGSEGV         *)
(* handler; at most memory_heap_mmap pages should be in DRAM, and pages    *)
(* are removed by the faulting thread itself (the synchronous build) or by *)
(* a pager thread (ASYNC_PAGER). Sizes are counted in pages.               *)
(*                                                                         *)
(* A thread is at pc[t]:                                                   *)
(*   idle    running, or about to repeat the access that faulted           *)
(*   fault   in add_page, about to look at the size of the heap            *)
(*   sleep   in pthread_cond_wait(&cv_without_pages)                       *)
(*   evict   removing pages, holds pager_mtx (synchronous build)           *)
(*   lock    about to lock pager_mtx for the bitmap                        *)
(*   add     has set the page's bit, holds pager_mtx                       *)
(*   map     has released pager_mtx, mmap is next                          *)
(*   tell    about to signal the pager (ASYNC_PAGER)                       *)
(* The pager thread is at ppc: test, doze (about to look at the size),     *)
(* sleep, woken (signalled, about to lock mt_memory_used again), evict, rm *)
(* (about to remove victim), sub, write (between the read and the write of *)
(* curr_size_of_heap) or left; it holds mt_memory_used from evict to       *)
(* write. main ends the run while the threads work, then calls             *)
(* paging_finish; mpc is run, signal, join or over.                        *)
(***************************************************************************)
EXTENDS Integers, FiniteSets

CONSTANTS N,            \* worker threads
          Pages,        \* pages of the heap
          Max,          \* memory_heap_mmap
          Sup, Inf,     \* thresholdSup and thresholdInf
          Batch,        \* pages_to_remove
          MaxFaults     \* bound: faults of each thread

ASSUME PagerAssumption == /\ {N, Max, Sup, Inf, Batch} \subseteq Nat \ {0}
                          /\ IsFiniteSet(Pages) /\ Pages \subseteq Nat \ {0}
                          /\ MaxFaults \in Nat

VARIABLES async,        \* whether the build has ASYNC_PAGER
          pages,        \* bitmap: pages whose bit is set
          mapped,       \* pages that are mapped
          size,         \* curr_size_of_heap
          pc, page,     \* place of each thread, the page it faulted on
          left, got,    \* its pages_to_remove; the size it read
          faults,       \* faults of each thread (the bound only)
          ppc, victim,  \* place of the pager, the page it selected
          read,         \* the size it read
          exit, mpc,    \* info.isExit; place of main
          aborted       \* an assertion has ended the process

threadVars == <<pc, page, left, got, faults>>
pagerVars == <<ppc, victim, read>>
heapVars == <<pages, mapped, size>>
mainVars == <<exit, mpc>>
pagingVars == <<async, heapVars, threadVars, pagerVars, mainVars, aborted>>

Threads == 0 .. N - 1
None == 0               \* no page: locals outside their function are reset

PagerInit == /\ async \in BOOLEAN
             /\ pages = {} /\ mapped = {} /\ size = 0
             /\ pc = [t \in Threads |-> "idle"]
             /\ page = [t \in Threads |-> None]
             /\ left = [t \in Threads |-> 0] /\ got = [t \in Threads |-> 0]
             /\ faults = [t \in Threads |-> 0]
             /\ ppc = IF async THEN "test" ELSE "left"
             /\ victim = None /\ read = 0
             /\ exit = FALSE /\ mpc = "run"
             /\ aborted = FALSE

Goto(t, from, to) == /\ pc[t] = from
                     /\ pc' = [pc EXCEPT ![t] = to]

PagerGoto(from, to) == ppc = from /\ ppc' = to

(* The owners of pager_mtx and of mt_memory_used, between steps.           *)
MtxFree == \A t \in Threads : pc[t] \notin {"evict", "add"}
MemFree == ppc \notin {"evict", "rm", "sub", "write"}
-----------------------------------------------------------------------------
(* heap_sigsegv_handler, for an access to a page that is not there.        *)
Fault(t, p) == /\ p \notin mapped
               /\ faults[t] < MaxFaults /\ mpc = "run"
               /\ Goto(t, "idle", "fault")
               /\ page' = [page EXCEPT ![t] = p]
               /\ faults' = [faults EXCEPT ![t] = @ + 1]
               /\ UNCHANGED <<async, heapVars, left, got, pagerVars, mainVars, aborted>>

(* Waits for the pager while there is no space.                            *)
CheckAsync(t) == /\ async /\ MemFree
                 /\ Goto(t, "fault", IF size >= Max THEN "sleep" ELSE "lock")
                 /\ UNCHANGED <<async, heapVars, page, left, got, faults, pagerVars,
                                mainVars, aborted>>

SpuriousWake(t) == /\ Goto(t, "sleep", "fault")
                   /\ UNCHANGED <<async, heapVars, page, left, got, faults, pagerVars,
                                  mainVars, aborted>>

(* Mutant: one page too many is allowed.                                   *)
CheckSyncOneMore(t) == /\ ~ async /\ MtxFree
                       /\ Goto(t, "fault", IF size > Max THEN "evict" ELSE "lock")
                       /\ left' = [left EXCEPT ![t] = IF size > Max THEN Batch ELSE 0]
                       /\ UNCHANGED <<async, heapVars, page, got, faults, pagerVars,
                                      mainVars, aborted>>

(* Mutant: without ASYNC_PAGER too a thread waits for space.               *)
CheckSyncWaits(t) == /\ ~ async /\ MtxFree
                     /\ Goto(t, "fault", IF size >= Max THEN "sleep" ELSE "lock")
                     /\ UNCHANGED <<async, heapVars, page, left, got, faults, pagerVars,
                                    mainVars, aborted>>

(* Mutant: with ASYNC_PAGER too a thread removes pages, beside the pager.  *)
CheckSyncBoth(t) == /\ MtxFree
                    /\ Goto(t, "fault", IF size >= Max THEN "evict" ELSE "lock")
                    /\ left' = [left EXCEPT ![t] = IF size >= Max THEN Batch ELSE 0]
                    /\ UNCHANGED <<async, heapVars, page, got, faults, pagerVars, mainVars,
                                   aborted>>

(* Removes a batch of pages if there is no space.                          *)
CheckSync(t) == /\ ~ async /\ MtxFree
                /\ Goto(t, "fault", IF size >= Max THEN "evict" ELSE "lock")
                /\ left' = [left EXCEPT ![t] = IF size >= Max THEN Batch ELSE 0]
                /\ UNCHANGED <<async, heapVars, page, got, faults, pagerVars, mainVars,
                               aborted>>

(* rm_page: the bit is cleared and the page unmapped under pager_mtx.      *)
Unmap(p) == /\ pages' = pages \ {p}
            /\ mapped' = mapped \ {p}

(* Mutant: a page that is removed keeps its bit.                           *)
EvictKeepsBit(t) == /\ Goto(t, "evict", IF left[t] = 1 THEN "lock" ELSE "evict")
                    /\ \E p \in pages : mapped' = mapped \ {p}
                    /\ size' = size - 1
                    /\ left' = [left EXCEPT ![t] = @ - 1]
                    /\ UNCHANGED <<async, pages, page, got, faults, pagerVars, mainVars,
                                   aborted>>

(* Mutant: the loop ends one page late.                                    *)
EvictOneMore(t) == /\ Goto(t, "evict", IF left[t] = 0 THEN "lock" ELSE "evict")
                   /\ \E p \in pages : Unmap(p)
                   /\ size' = size - 1
                   /\ left' = [left EXCEPT ![t] = @ - 1]
                   /\ UNCHANGED <<async, page, got, faults, pagerVars, mainVars, aborted>>

(* rm_page(select_page_out()), under pager_mtx.                            *)
Evict(t) == /\ Goto(t, "evict", IF left[t] = 1 THEN "lock" ELSE "evict")
            /\ \E p \in pages : Unmap(p)
            /\ size' = size - 1
            /\ left' = [left EXCEPT ![t] = @ - 1]
            /\ UNCHANGED <<async, page, got, faults, pagerVars, mainVars, aborted>>

(* Mutant: the bit is set without pager_mtx.                               *)
ClaimUnlocked(t) == /\ page[t] \notin pages
                    /\ Goto(t, "lock", "add")
                    /\ pages' = pages \cup {page[t]}
                    /\ got' = [got EXCEPT ![t] = size]
                    /\ UNCHANGED <<async, mapped, size, page, left, faults, pagerVars,
                                   mainVars, aborted>>

Claim(t) == /\ MtxFree /\ page[t] \notin pages
            /\ Goto(t, "lock", "add")
            /\ pages' = pages \cup {page[t]}
            /\ got' = [got EXCEPT ![t] = size]
            /\ UNCHANGED <<async, mapped, size, page, left, faults, pagerVars, mainVars,
                           aborted>>

(* Another thread has set the bit: the access is repeated.                 *)
AlreadyMapped(t) == /\ MtxFree /\ page[t] \in pages
                    /\ Goto(t, "lock", "idle")
                    /\ page' = [page EXCEPT ![t] = None]
                    /\ UNCHANGED <<async, heapVars, left, got, faults, pagerVars,
                                   mainVars, aborted>>

(* The other half of curr_size_of_heap += PAGE_SIZE, and the unlock.       *)
Grow(t) == /\ Goto(t, "add", "map")
           /\ size' = got[t] + 1
           /\ got' = [got EXCEPT ![t] = 0]
           /\ UNCHANGED <<async, pages, mapped, page, left, faults, pagerVars, mainVars,
                          aborted>>

(* Mutant: the page is forgotten between the unlock and the mmap.          *)
MapLost(t) == /\ Goto(t, "map", IF async THEN "tell" ELSE "idle")
              /\ page' = [page EXCEPT ![t] = None]
              /\ UNCHANGED <<async, heapVars, left, got, faults, pagerVars, mainVars,
                             aborted>>

Map(t) == /\ Goto(t, "map", IF async THEN "tell" ELSE "idle")
          /\ mapped' = mapped \cup {page[t]}
          /\ page' = [page EXCEPT ![t] = None]
          /\ UNCHANGED <<async, pages, size, left, got, faults, pagerVars, mainVars,
                         aborted>>

(* Mutant: the pager is told only when the heap is beyond its limit.       *)
TellLate(t) == /\ MemFree
               /\ Goto(t, "tell", "idle")
               /\ ppc' = IF size > Max /\ ppc = "sleep" THEN "woken" ELSE ppc
               /\ UNCHANGED <<async, heapVars, page, left, got, faults, victim, read,
                              mainVars, aborted>>

(* pthread_cond_signal(&cv_not_enough_pages), lost unless the pager waits. *)
Tell(t) == /\ MemFree
           /\ Goto(t, "tell", "idle")
           /\ ppc' = IF size >= Sup /\ ppc = "sleep" THEN "woken" ELSE ppc
           /\ UNCHANGED <<async, heapVars, page, left, got, faults, victim, read, mainVars,
                          aborted>>
-----------------------------------------------------------------------------
(* pager_thread_fn                                                         *)
PagerTest == /\ PagerGoto("test", IF exit THEN "left" ELSE "doze")
             /\ UNCHANGED <<async, heapVars, threadVars, victim, read, mainVars, aborted>>

PagerDoze == /\ PagerGoto("doze", IF size < Sup THEN "sleep" ELSE "evict")
             /\ UNCHANGED <<async, heapVars, threadVars, victim, read, mainVars, aborted>>

PagerSpuriousWake == /\ PagerGoto("sleep", "woken")
                     /\ UNCHANGED <<async, heapVars, threadVars, victim, read, mainVars,
                                    aborted>>

(* pthread_cond_wait has locked mt_memory_used again; the size is not      *)
(* tested a second time. Between two steps only the pager holds it.        *)
PagerWoken == /\ PagerGoto("woken", "evict")
              /\ UNCHANGED <<async, heapVars, threadVars, victim, read, mainVars, aborted>>

(* select_page_out reads the bitmap without pager_mtx.                     *)
PagerSelect == /\ size >= Inf
               /\ PagerGoto("evict", "rm")
               /\ victim' \in pages
               /\ UNCHANGED <<async, heapVars, threadVars, read, mainVars, aborted>>

PagerRemove == /\ MtxFree
               /\ PagerGoto("rm", "sub")
               /\ Unmap(victim)
               /\ UNCHANGED <<async, size, threadVars, victim, read, mainVars, aborted>>

(* "TODO: mutex": the size is read and written under no mutex the threads  *)
(* that add to it take.                                                    *)
PagerRead == /\ PagerGoto("sub", "write")
             /\ read' = size
             /\ UNCHANGED <<async, heapVars, threadVars, victim, mainVars, aborted>>

PagerWrite == /\ PagerGoto("write", "evict")
              /\ size' = read - 1
              /\ victim' = None /\ read' = 0
              /\ UNCHANGED <<async, pages, mapped, threadVars, mainVars, aborted>>

(* Enough were removed: one of the waiting threads is woken.               *)
Sleepers == {t \in Threads : pc[t] = "sleep"}

PagerDone == /\ size < Inf
             /\ PagerGoto("evict", "test")
             /\ \/ Sleepers = {} /\ UNCHANGED pc
                \/ \E t \in Sleepers : Goto(t, "sleep", "fault")
             /\ UNCHANGED <<async, heapVars, page, left, got, faults, victim, read, mainVars,
                            aborted>>
-----------------------------------------------------------------------------
(* select_page_out: assert(0 && "there are not pages to remove!").         *)
Selecting == (ppc = "evict" /\ size >= Inf) \/ \E t \in Threads : pc[t] = "evict"

NothingToRemove == /\ Selecting /\ pages = {}
                   /\ aborted' = TRUE
                   /\ UNCHANGED <<async, heapVars, threadVars, pagerVars, mainVars>>

(* main sets isExit when the time of the experiment is over, and again in  *)
(* paging_finish once the threads have ended; there it signals the pager   *)
(* and joins it.                                                           *)
Exit == /\ ~ exit /\ exit' = TRUE
        /\ UNCHANGED <<async, heapVars, threadVars, pagerVars, mpc, aborted>>

FinishExit == /\ exit /\ \A t \in Threads : pc[t] = "idle"
              /\ mpc = "run" /\ mpc' = IF async THEN "signal" ELSE "over"
              /\ UNCHANGED <<async, heapVars, threadVars, pagerVars, exit, aborted>>

FinishSignal == /\ mpc = "signal" /\ mpc' = "join"
                /\ ppc' = IF ppc = "sleep" THEN "woken" ELSE ppc
                /\ UNCHANGED <<async, heapVars, threadVars, victim, read, exit, aborted>>

FinishJoin == /\ ppc = "left"
              /\ mpc = "join" /\ mpc' = "over"
              /\ UNCHANGED <<async, heapVars, threadVars, pagerVars, exit, aborted>>
-----------------------------------------------------------------------------
HandlerStep(t) == \/ CheckAsync(t) \/ CheckSync(t) \/ Evict(t) \/ Claim(t)
                  \/ AlreadyMapped(t) \/ Grow(t) \/ Map(t) \/ Tell(t)

PagerStep == \/ PagerTest \/ PagerDoze \/ PagerWoken \/ PagerSelect \/ PagerRemove
             \/ PagerRead \/ PagerWrite \/ PagerDone

MainStep == Exit \/ FinishExit \/ FinishSignal \/ FinishJoin

PagerNext == /\ ~ aborted
             /\ \/ PagerStep \/ PagerSpuriousWake \/ MainStep \/ NothingToRemove
                \/ \E t \in Threads : \/ HandlerStep(t) \/ SpuriousWake(t)
                                      \/ \E p \in Pages : Fault(t, p)

PagerSpec == PagerInit /\ [][PagerNext]_pagingVars

(* Threads are preemptively scheduled, and each faults finitely often, so  *)
(* that a mutex is not for ever taken by others; nothing is assumed of     *)
(* spurious wake-ups or of the end of the run.                             *)
PagerFairSpec == /\ PagerSpec
                 /\ \A t \in Threads : WF_pagingVars(~ aborted /\ HandlerStep(t))
                 /\ WF_pagingVars(~ aborted /\ (PagerStep \/ NothingToRemove))
-----------------------------------------------------------------------------
Adding == {t \in Threads : pc[t] = "add"}

PagerTypeOK ==
    /\ async \in BOOLEAN
    /\ pages \subseteq Pages
    /\ mapped \subseteq Pages
    /\ size \in Int
    /\ pc \in [Threads -> {"idle", "fault", "sleep", "evict", "lock", "add", "map", "tell"}]
    /\ page \in [Threads -> Pages \cup {None}]
    /\ left \in [Threads -> 0 .. Batch]
    /\ got \in [Threads -> Int]
    /\ faults \in [Threads -> 0 .. MaxFaults]
    /\ ppc \in {"test", "doze", "sleep", "woken", "evict", "rm", "sub", "write", "left"}
    /\ victim \in Pages \cup {None}
    /\ read \in Int
    /\ exit \in BOOLEAN
    /\ mpc \in {"run", "signal", "join", "over"}
    /\ aborted \in BOOLEAN

(* The synchronous build's accounting: curr_size_of_heap counts the bits   *)
(* that are set, except for a page whose bit is set and not counted yet,   *)
(* although add_page and rm_page change the two in different places and    *)
(* orders. (ASYNC_PAGER loses updates.)                                    *)
SizeIsBits == ~ async => size + Cardinality(Adding) = Cardinality(pages)

(* The bitmap, which is all that the eviction and curr_size_of_heap know   *)
(* of the heap, stays near its limit: between the test of the size and the *)
(* bit pager_mtx is released, so each of N threads may add a page after a  *)
(* test that held. It does not bound what is mapped: a page whose bit is   *)
(* cleared between the unlock and the mmap stays mapped without a bit.     *)
BitmapBound == ~ async => Cardinality(pages) <= Max + N - 1

(* A bit that is set tells the truth, or will: the page is mapped or some  *)
(* thread is about to map it, so a thread that returns on "already mapped" *)
(* does not fault for ever. Pages are removed between the two steps.       *)
NoPhantomPage == \A p \in pages \ mapped :
                    \E t \in Threads : page[t] = p /\ pc[t] \in {"add", "map"}

(* rm_page's assertion "bit was not set!": the page that select_page_out   *)
(* found in the bitmap is still there when rm_page has locked pager_mtx.   *)
BitWasSet == ppc = "rm" => victim \in pages

(* select_page_out's assertion "there are not pages to remove!" holds in   *)
(* the synchronous build, if a batch is not larger than the heap.          *)
FindsPage == Batch <= Max /\ ~ async => ~ aborted

(* In the synchronous build every fault handler returns.                   *)
HandlerReturns ==
    \A t \in Threads : (~ async /\ pc[t] # "idle") ~> (pc[t] = "idle" \/ aborted)

(* With ASYNC_PAGER a full heap does not stay full, as long as the pager   *)
(* is not told to leave: the signal of a thread that fills it comes after  *)
(* the pager's test or finds the pager asleep, and is not lost.            *)
SpaceReturns == (async /\ size >= Max) ~> (size < Max \/ exit \/ aborted)
=============================================================================
