------------------------------- MODULE HtmSgl -------------------------------
(***************************************************************************)
(* The retry template every transaction of the library runs under:         *)
(* best-effort hardware transactions (HTM) with a budget of attempts and a *)
(* single global lock (SGL) as the fallback                                *)
(* (deps/htm_alg/include/htm_retry_template.h, deps/htm_alg/src/htm.cpp).  *)
(*                                                                         *)
(* Where a thread stands in HTM_SGL_begin / HTM_SGL_commit is hpc[t]:      *)
(*   out     outside the template                                          *)
(*   top     at the head of the retry loop                                 *)
(*   block   spinning in HTM_block because the lock was taken              *)
(*   start   about to renew its timestamp and execute xbegin               *)
(*   begin   timestamp renewed, xbegin is next                             *)
(*   htm     inside a hardware transaction that has read the lock as free  *)
(*   doomed  a hardware transaction the hardware will abort, because the   *)
(*           lock word in its read set was written                         *)
(*   enter   spinning in HTM_enter_fallback                                *)
(*   locked  owns the lock, has not renewed its timestamp yet              *)
(*   sgl     runs the transaction under the lock                           *)
(***************************************************************************)
EXTENDS Integers

CONSTANTS N,        \* number of worker threads, numbered from 0 as in the code
          Budget,   \* HTM_SGL_INIT_BUDGET: hardware attempts before the lock
          MaxTx     \* bound: transactions each thread begins

ASSUME HtmAssumption == /\ N \in Nat \ {0}
                        /\ Budget \in Nat \ {0}
                        /\ MaxTx \in Nat

VARIABLES hpc,      \* place of each thread in the retry template
          budget,   \* HTM_SGL_vars.budget of each thread
          sgl,      \* HTM_SGL_var[SGL_POS]: the owner, or -1
          begun     \* transactions each thread has begun (the bound only)

htmVars == <<hpc, budget, sgl, begun>>

Threads == 0 .. N - 1
Free == -1

Places == {"out", "top", "block", "start", "begin", "htm", "doomed",
           "enter", "locked", "sgl"}

HtmTypeOK == /\ hpc \in [Threads -> Places]
             /\ budget \in [Threads -> 0 .. Budget]
             /\ sgl \in Threads \cup {Free}
             /\ begun \in [Threads -> 0 .. MaxTx]

HtmInit == /\ hpc = [t \in Threads |-> "out"]
           /\ budget = [t \in Threads |-> 0]
           /\ sgl = Free
           /\ begun = [t \in Threads |-> 0]

Goto(t, from, to) == /\ hpc[t] = from
                     /\ hpc' = [hpc EXCEPT ![t] = to]
-----------------------------------------------------------------------------
(* HTM_SGL_begin: the budget is reset and the loop is entered.             *)
Enter(t) == /\ Goto(t, "out", "top")
            /\ begun[t] < MaxTx
            /\ begun' = [begun EXCEPT ![t] = @ + 1]
            /\ budget' = [budget EXCEPT ![t] = Budget]
            /\ UNCHANGED sgl

(* Mutant: ENTER_HTM_COND tests budget >= 0.                               *)
CheckFreeOffByOne(t) == /\ Goto(t, "top", "start")
                        /\ budget[t] >= 0
                        /\ sgl = Free
                        /\ UNCHANGED <<budget, sgl, begun>>

(* CHECK_SGL_NOTX, with budget left: the lock is free, or the thread blocks. *)
CheckFree(t) == /\ Goto(t, "top", "start")
                /\ budget[t] > 0
                /\ sgl = Free
                /\ UNCHANGED <<budget, sgl, begun>>

CheckTaken(t) == /\ Goto(t, "top", "block")
                 /\ budget[t] > 0
                 /\ sgl # Free
                 /\ UNCHANGED <<budget, sgl, begun>>

(* HTM_block ends when the lock is read as free.                           *)
Unblock(t) == /\ Goto(t, "block", "start")
              /\ sgl = Free
              /\ UNCHANGED <<budget, sgl, begun>>

(* BEFORE_HTM_BEGIN.                                                       *)
Renew(t) == /\ Goto(t, "start", "begin")
            /\ UNCHANGED <<budget, sgl, begun>>

(* Mutant: no CHECK_SGL_HTM.                                               *)
SubscribeUnchecked(t) == /\ Goto(t, "begin", "htm")
                         /\ UNCHANGED <<budget, sgl, begun>>

(* xbegin, then CHECK_SGL_HTM: the lock is read inside the transaction and *)
(* so enters its read set.                                                 *)
Subscribe(t) == /\ Goto(t, "begin", "htm")
                /\ sgl = Free
                /\ UNCHANGED <<budget, sgl, begun>>

(* An abort returns to the head of the loop with one attempt fewer, or     *)
(* with none left when CHECK_PAGE_FAULT blames a page fault.               *)
Retry(t, left) == /\ hpc' = [hpc EXCEPT ![t] = "top"]
                  /\ budget' = [budget EXCEPT ![t] = left]
                  /\ UNCHANGED <<sgl, begun>>

(* CHECK_SGL_HTM finds the lock taken and aborts explicitly.               *)
AbortTaken(t) == /\ hpc[t] = "begin"
                 /\ sgl # Free
                 /\ Retry(t, budget[t] - 1)

(* Conflict, capacity or interrupt; a page fault; or the doomed            *)
(* transaction's abort.                                                    *)
Abort(t) == /\ hpc[t] \in {"htm", "doomed"}
            /\ Retry(t, budget[t] - 1)

AbortFault(t) == /\ hpc[t] \in {"htm", "doomed"}
                 /\ Retry(t, 0)

(* The budget is spent: ENTER_SGL.                                         *)
Fallback(t) == /\ Goto(t, "top", "enter")
               /\ budget[t] = 0
               /\ UNCHANGED <<budget, sgl, begun>>

(* Mutant: a plain store instead of the compare-and-swap.                  *)
AcquireUnchecked(t) == /\ hpc[t] = "enter"
                       /\ sgl' = t
                       /\ hpc' = [u \in Threads |-> IF u = t THEN "locked"
                                           ELSE IF hpc[u] = "htm" THEN "doomed"
                                           ELSE hpc[u]]
                       /\ UNCHANGED <<budget, begun>>

(* The compare-and-swap of HTM_enter_fallback succeeds. Writing the lock   *)
(* word conflicts with every hardware transaction that has read it.        *)
Acquire(t) == /\ hpc[t] = "enter"
              /\ sgl = Free
              /\ sgl' = t
              /\ hpc' = [u \in Threads |-> IF u = t THEN "locked"
                                           ELSE IF hpc[u] = "htm" THEN "doomed"
                                           ELSE hpc[u]]
              /\ UNCHANGED <<budget, begun>>

(* AFTER_SGL_BEGIN.                                                        *)
RenewLocked(t) == /\ Goto(t, "locked", "sgl")
                  /\ UNCHANGED <<budget, sgl, begun>>

(* Mutant: EXIT_SGL forgotten.                                             *)
ReleaseKept(t) == /\ Goto(t, "sgl", "out")
                  /\ UNCHANGED <<budget, sgl, begun>>

(* HTM_SGL_commit: HTM_commit inside a transaction, EXIT_SGL otherwise.    *)
CommitHtm(t) == /\ Goto(t, "htm", "out")
                /\ UNCHANGED <<budget, sgl, begun>>

Release(t) == /\ Goto(t, "sgl", "out")
              /\ sgl' = Free
              /\ UNCHANGED <<budget, begun>>
-----------------------------------------------------------------------------
(* What a thread does next; an abort the program does not cause            *)
(* (AbortFault, and Abort of a healthy transaction) is the hardware's      *)
(* choice and gets no fairness, while a doomed transaction does abort.     *)
HtmStep(t) == \/ CheckFree(t) \/ CheckTaken(t) \/ Unblock(t) \/ Renew(t)
              \/ Subscribe(t) \/ AbortTaken(t) \/ Fallback(t) \/ Acquire(t)
              \/ RenewLocked(t) \/ CommitHtm(t) \/ Release(t)
              \/ (hpc[t] = "doomed" /\ (Abort(t) \/ AbortFault(t)))

HtmNext == \E t \in Threads : \/ Enter(t) \/ CheckFree(t) \/ CheckTaken(t)
                              \/ Unblock(t) \/ Renew(t) \/ Subscribe(t)
                              \/ AbortTaken(t) \/ Abort(t) \/ AbortFault(t)
                              \/ Fallback(t) \/ Acquire(t) \/ RenewLocked(t)
                              \/ CommitHtm(t) \/ Release(t)

HtmSpec == HtmInit /\ [][HtmNext]_htmVars

(* Threads are preemptively scheduled and every spin re-reads its location. *)
HtmFairSpec == HtmSpec /\ \A t \in Threads : WF_htmVars(HtmStep(t))
-----------------------------------------------------------------------------
Owners == {t \in Threads : hpc[t] \in {"locked", "sgl"}}

(* The fallback is mutually exclusive and the lock word names the thread   *)
(* that runs under it: HTM_enter_fallback's compare-and-swap against the   *)
(* plain store of HTM_exit_fallback.                                       *)
SglExclusive == \A t \in Threads : t \in Owners <=> sgl = t

(* Isolation of the fallback: no hardware transaction can still commit     *)
(* once some thread owns the lock, which is what CHECK_SGL_HTM's read of   *)
(* the lock inside the transaction is for. A transaction that began before *)
(* the lock was taken, or while it was held, must be among the doomed.     *)
NoHtmUnderSgl == \A t, u \in Threads : t \in Owners => hpc[u] # "htm"

(* Every transaction that enters the template leaves it committed: the     *)
(* retries are bounded by the budget, HTM_block and HTM_enter_fallback     *)
(* end, and nobody keeps the lock.                                         *)
EveryTxCommits == \A t \in Threads : hpc[t] # "out" ~> hpc[t] = "out"
=============================================================================
