--------------------------- MODULE HtmSgl_proofs ---------------------------
(***************************************************************************)
(* Safety of the retry template for every number of threads and every      *)
(* budget. The three invariants are inductive together with one fact: the  *)
(* places between the budget test and the abort are reached with budget    *)
(* left, so that an abort can take one attempt off.                        *)
(***************************************************************************)
EXTENDS HtmSgl, TLAPS

Attempting == {"block", "start", "begin", "htm", "doomed"}

HtmInv == /\ HtmTypeOK
          /\ \A t \in Threads : hpc[t] \in Attempting => budget[t] > 0
          /\ SglExclusive
          /\ NoHtmUnderSgl

(* The template starts in a state of the invariant.                        *)
LEMMA HtmInitInv == HtmInit => HtmInv
  <1> SUFFICES ASSUME HtmInit PROVE HtmInv
    OBVIOUS
  <1> USE HtmAssumption DEF HtmInit, Threads, Free
  <1>1. HtmTypeOK
    BY DEF HtmTypeOK, Places
  <1>2. \A t \in Threads : hpc[t] = "out" /\ t # sgl
    OBVIOUS
  <1> QED
    BY <1>1, <1>2 DEF HtmInv, SglExclusive, NoHtmUnderSgl, Owners, Attempting

(* A thread that owns the lock before or after a step that moves one       *)
(* thread between places without the lock is the same thread.              *)
LEMMA HtmStepInv == HtmInv /\ [HtmNext]_htmVars => HtmInv'
  <1> SUFFICES ASSUME HtmInv, [HtmNext]_htmVars PROVE HtmInv'
    OBVIOUS
  <1> USE HtmAssumption DEF HtmInv, HtmTypeOK, SglExclusive, NoHtmUnderSgl, Owners,
                            Attempting, Places, Threads, Free
  <1>1. CASE UNCHANGED htmVars
    BY <1>1 DEF htmVars
  <1>2. ASSUME NEW t \in Threads, Enter(t) PROVE HtmInv'
    <2>1. HtmTypeOK'
      BY <1>2 DEF Enter, Goto
    <2>2. /\ hpc[t] = "out" /\ hpc'[t] = "top" /\ budget'[t] = Budget /\ sgl' = sgl
          /\ \A u \in Threads \ {t} : hpc'[u] = hpc[u] /\ budget'[u] = budget[u]
      BY <1>2 DEF Enter, Goto
    <2>3. /\ \A u \in Threads : hpc'[u] \in Attempting => budget'[u] > 0
          /\ SglExclusive' /\ NoHtmUnderSgl'
      BY <2>2
    <2> QED
      BY <2>1, <2>3
  <1>3. ASSUME NEW t \in Threads,
               CheckFree(t) \/ CheckTaken(t) \/ Unblock(t) \/ Renew(t)
        PROVE  HtmInv'
    <2>1. CASE CheckFree(t)
      BY <2>1 DEF CheckFree, Goto
    <2>2. CASE CheckTaken(t)
      BY <2>2 DEF CheckTaken, Goto
    <2>3. CASE Unblock(t)
      BY <2>3 DEF Unblock, Goto
    <2>4. CASE Renew(t)
      BY <2>4 DEF Renew, Goto
    <2> QED
      BY <1>3, <2>1, <2>2, <2>3, <2>4
  <1>4. ASSUME NEW t \in Threads, Subscribe(t) PROVE HtmInv'
    BY <1>4 DEF Subscribe, Goto
  <1>5. ASSUME NEW t \in Threads, NEW left \in 0 .. Budget, Retry(t, left),
               hpc[t] \in Attempting
        PROVE  HtmInv'
    BY <1>5 DEF Retry
  <1>6. ASSUME NEW t \in Threads, AbortTaken(t) \/ Abort(t) \/ AbortFault(t)
        PROVE  HtmInv'
    <2>1. hpc[t] \in Attempting /\ budget[t] - 1 \in 0 .. Budget /\ 0 \in 0 .. Budget
      BY <1>6 DEF AbortTaken, Abort, AbortFault
    <2>2. Retry(t, budget[t] - 1) \/ Retry(t, 0)
      BY <1>6 DEF AbortTaken, Abort, AbortFault
    <2> QED
      BY <1>5, <2>1, <2>2
  <1>7. ASSUME NEW t \in Threads, Fallback(t) PROVE HtmInv'
    BY <1>7 DEF Fallback, Goto
  <1>8. ASSUME NEW t \in Threads, Acquire(t) PROVE HtmInv'
    BY <1>8 DEF Acquire
  <1>9. ASSUME NEW t \in Threads, RenewLocked(t) PROVE HtmInv'
    BY <1>9 DEF RenewLocked, Goto
  <1>10. ASSUME NEW t \in Threads, CommitHtm(t) PROVE HtmInv'
    BY <1>10 DEF CommitHtm, Goto
  <1>11. ASSUME NEW t \in Threads, Release(t) PROVE HtmInv'
    BY <1>11 DEF Release, Goto
  <1> QED
    BY <1>1, <1>2, <1>3, <1>4, <1>6, <1>7, <1>8, <1>9, <1>10, <1>11 DEF HtmNext

(* The lock word and the places of the threads agree in every state.       *)
THEOREM HtmInvariant == HtmSpec => []HtmInv
  BY HtmInitInv, HtmStepInv, PTL DEF HtmSpec

(* HtmTypeOK, of the template's state.                                     *)
THEOREM HtmTypeCorrect == HtmSpec => []HtmTypeOK
  BY HtmInvariant, PTL DEF HtmInv

(* The lock word always names the one thread under the lock.               *)
THEOREM SglIsExclusive == HtmSpec => []SglExclusive
  BY HtmInvariant, PTL DEF HtmInv

(* No hardware transaction can commit while a thread runs under the lock.  *)
THEOREM SglIsolated == HtmSpec => []NoHtmUnderSgl
  BY HtmInvariant, PTL DEF HtmInv
=============================================================================
