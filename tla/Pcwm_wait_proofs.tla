-------------------------- MODULE Pcwm_wait_proofs --------------------------
(***************************************************************************)
(* No threads wait for each other in a circle, through the lock, page-ins  *)
(* under the lock, wait_commit and waitTheMarker, for every number of      *)
(* threads. Four facts carry it on top of the invariant of Pcwm_proofs:    *)
(*                                                                         *)
(*   Inside        a transaction that has not returned is the one its      *)
(*                 thread is committing;                                   *)
(*   NeedsHist     pages reflect committed transactions only;              *)
(*   KeptOut       a thread that waits for the lock, or for the marker,    *)
(*                 has bit 63 set, so no commit waits for it;              *)
(*   LockIsNewest  the thread under the lock took its timestamp after all  *)
(*                 that are committing had taken theirs, so that none of   *)
(*                 them waits for it.                                      *)
(***************************************************************************)
EXTENDS Pcwm_proofs

Committing == Closing \cup Waiting \cup Marking

Inside == \A x \in hist \ acked :
   /\ cpc[x.t] \in Committing
   /\ x.v = rcv[x.t] /\ x.size = size[x.t]

NeedsHist == \A i \in Threads : need[i] \subseteq hist

KeptOut == \A k \in Threads :
              hpc[k] \in {"block", "enter"} \/ cpc[k] = "await" => ts[k].done

LockIsNewest == \A i, k \in Threads :
   hpc[i] = "sgl" /\ k # i /\ cpc[k] \in Committing => rcv[k] < ts[i].v

WaitInv == PcwmInv /\ Inside /\ NeedsHist /\ KeptOut /\ LockIsNewest
-----------------------------------------------------------------------------
(* A transaction is in the history from its commit, and its thread takes   *)
(* no other timestamp before the transaction returns.                      *)
LEMMA InsideStep ==
  ASSUME PcwmTypeOK, PcwmTypeOK', PlacesAgree, Inside, PcwmNext
  PROVE  Inside'
  <1>0. /\ \A x \in hist : x \in Tx /\ x.t \in Threads
        /\ cpc \in [Threads -> Phases]
    BY DEF PcwmTypeOK, Tx
  <1> USE <1>0 DEF Inside, Committing, Closing, Waiting, Marking, threadVars, sharedVars,
                   logVars, htmVars
  <1>1. ASSUME NEW t \in Threads, PEnter(t) PROVE Inside'
    BY <1>1 DEF PEnter, Enter, Goto, Phase
  <1>2. ASSUME NEW t \in Threads, PCheckFree(t) PROVE Inside'
    BY <1>2 DEF PCheckFree, CheckFree, Goto
  <1>3. ASSUME NEW t \in Threads, PCheckTaken(t) PROVE Inside'
    BY <1>3 DEF PCheckTaken, CheckTaken, Goto, ResetTs, Invalid, Word
  <1>4. ASSUME NEW t \in Threads, PUnblock(t) PROVE Inside'
    BY <1>4 DEF PUnblock, Unblock, Goto
  <1>5. ASSUME NEW t \in Threads, PRenew(t) PROVE Inside'
    BY <1>5 DEF PRenew, Renew, Goto, RenewTs, SetTs, Word
  <1>6. ASSUME NEW t \in Threads, PSubscribe(t) PROVE Inside'
    BY <1>6 DEF PSubscribe, Subscribe, Goto
  <1>7. ASSUME NEW t \in Threads, PAborts(t) PROVE Inside'
    <2>1. cpc[t] \in {"body", "stamped"}
      <3>1. hpc[t] # "out"
        BY <1>7 DEF PAborts, AbortTaken, Abort, AbortFault
      <3> QED
        BY <3>1 DEF PlacesAgree
    <2>2. /\ UNCHANGED <<hist, acked, rcv, size>>
          /\ cpc' = [cpc EXCEPT ![t] = "body"]
      BY <1>7 DEF PAborts
    <2> QED
      BY <2>1, <2>2
  <1>8. ASSUME NEW t \in Threads, PFallback(t) PROVE Inside'
    BY <1>8 DEF PFallback, Fallback, Goto, ResetTs, Invalid, Word
  <1>9. ASSUME NEW t \in Threads, PAcquire(t) PROVE Inside'
    BY <1>9 DEF PAcquire, Acquire
  <1>10. ASSUME NEW t \in Threads, PRenewLocked(t) PROVE Inside'
    BY <1>10 DEF PRenewLocked, RenewLocked, Goto, RenewTs, SetTs, Word
  <1>11. ASSUME NEW t \in Threads, Stamp(t) PROVE Inside'
    BY <1>11 DEF Stamp, Phase
  <1>12. ASSUME NEW t \in Threads, PCommit(t) PROVE Inside'
    <2>1. /\ cpc[t] = "stamped" /\ cpc' = [cpc EXCEPT ![t] = "announce"]
          /\ UNCHANGED <<acked, rcv, size>>
          /\ \A x \in hist' : x \in hist \/ x = MyTx(t)
      BY <1>12 DEF PCommit, Phase
    <2>2. MyTx(t).t = t /\ MyTx(t).v = rcv[t] /\ MyTx(t).size = size[t]
      BY DEF MyTx
    <2> HIDE DEF MyTx
    <2> QED
      BY <2>1, <2>2
  <1>13. ASSUME NEW t \in Threads, Announce(t) PROVE Inside'
    BY <1>13 DEF Announce, Phase, SetTs, Word
  <1>14. ASSUME NEW t \in Threads, ReadOnly(t) PROVE Inside'
    <2>1. size[t] = 0 /\ cpc' = [cpc EXCEPT ![t] = "idle"]
          /\ UNCHANGED <<hist, acked, rcv, size>>
      BY <1>14 DEF ReadOnly, Phase
    <2>2. \A x \in hist : x.size # 0
      BY DEF PcwmTypeOK, Tx
    <2> QED
      BY <2>1, <2>2
  <1>15. ASSUME NEW t \in Threads, MarkUpdate(t) PROVE Inside'
    BY <1>15 DEF MarkUpdate, Phase
  <1>16. ASSUME NEW t \in Threads, FlushEntries(t) PROVE Inside'
    BY <1>16 DEF FlushEntries, Phase
  <1>17. ASSUME NEW t \in Threads, WriteMarker(t) PROVE Inside'
    BY <1>17 DEF WriteMarker, Phase
  <1>18. ASSUME NEW t \in Threads, Flush(t) PROVE Inside'
    BY <1>18 DEF Flush, Phase, SetTs, Word
  <1>19. ASSUME NEW t \in Threads, ScanTs(t) PROVE Inside'
    BY <1>19 DEF ScanTs, AfterScan, Phase
  <1>20. ASSUME NEW t \in Threads, ScanUpdate(t) PROVE Inside'
    BY <1>20 DEF ScanUpdate, AfterScan, Phase
  <1>21. ASSUME NEW t \in Threads, NEW k \in Threads, WaitFor(t, k) PROVE Inside'
    BY <1>21 DEF WaitFor
  <1>22. ASSUME NEW t \in Threads, EndWait(t) PROVE Inside'
    BY <1>22 DEF EndWait, Phase
  <1>23. ASSUME NEW t \in Threads, ReadSafe(t) PROVE Inside'
    BY <1>23 DEF ReadSafe, Phase
  <1>24. ASSUME NEW t \in Threads, LoopTest(t) PROVE Inside'
    BY <1>24 DEF LoopTest, Phase
  <1>25. ASSUME NEW t \in Threads, Cas(t) PROVE Inside'
    BY <1>25 DEF Cas, Phase
  <1>26. ASSUME NEW t \in Threads, FlushSafe(t) PROVE Inside'
    BY <1>26 DEF FlushSafe, Phase
  <1>27. ASSUME NEW t \in Threads, Await(t) PROVE Inside'
    BY <1>27 DEF Await, Phase
  <1>28. ASSUME NEW t \in Threads, Publish(t) PROVE Inside'
    <2>1. /\ cpc' = [cpc EXCEPT ![t] = "idle"]
          /\ acked' = acked \cup {MyTx(t)} /\ UNCHANGED <<hist, rcv, size>>
      BY <1>28 DEF Publish, Phase
    <2>2. \A x \in hist : x.t = t /\ x.v = rcv[t] /\ x.size = size[t] => x = MyTx(t)
      BY <1>0 DEF MyTx, Tx
    <2> HIDE DEF MyTx
    <2> QED
      BY <2>1, <2>2
  <1>29. CASE Evict
    BY <1>29 DEF Evict, EvictSafe, EvictMarker
  <1>30. CASE Finished
    BY <1>30 DEF Finished, pcwmVars
  <1> QED
    BY <1>1, <1>2, <1>3, <1>4, <1>5, <1>6, <1>7, <1>8, <1>9, <1>10, <1>11, <1>12,
       <1>13, <1>14, <1>15, <1>16, <1>17, <1>18, <1>19, <1>20, <1>21, <1>22,
       <1>23, <1>24, <1>25, <1>26, <1>27, <1>28, <1>29, <1>30
    DEF PcwmNext, TemplateStep, CommitStep

(* A thread hides its timestamp before it waits for the lock, a commit     *)
(* before it waits for others; it shows one again when it no longer waits. *)
LEMMA KeptOutStep ==
  ASSUME PcwmTypeOK, PcwmTypeOK', PlacesAgree, Marker, KeptOut, PcwmNext
  PROVE  KeptOut'
  <1>0. /\ ts \in [Threads -> [v : 0 .. MaxClock, done : BOOLEAN] \cup {Invalid}]
        /\ cpc \in [Threads -> Phases]
    BY DEF PcwmTypeOK
  <1> USE <1>0 DEF KeptOut, PlacesAgree, threadVars, sharedVars, logVars, htmVars
  <1>1. ASSUME NEW t \in Threads, PEnter(t) PROVE KeptOut'
    BY <1>1 DEF PEnter, Enter, Goto, Phase
  <1>2. ASSUME NEW t \in Threads, PCheckFree(t) PROVE KeptOut'
    BY <1>2 DEF PCheckFree, CheckFree, Goto
  <1>3. ASSUME NEW t \in Threads, PCheckTaken(t) PROVE KeptOut'
    BY <1>3 DEF PCheckTaken, CheckTaken, Goto, ResetTs, Invalid, Word
  <1>4. ASSUME NEW t \in Threads, PUnblock(t) PROVE KeptOut'
    BY <1>4 DEF PUnblock, Unblock, Goto
  <1>5. ASSUME NEW t \in Threads, PRenew(t) PROVE KeptOut'
    BY <1>5 DEF PRenew, Renew, Goto, RenewTs, SetTs, Word
  <1>6. ASSUME NEW t \in Threads, PSubscribe(t) PROVE KeptOut'
    BY <1>6 DEF PSubscribe, Subscribe, Goto
  <1>7. ASSUME NEW t \in Threads, PAborts(t) PROVE KeptOut'
    <2>1. hpc' = [hpc EXCEPT ![t] = "top"] /\ cpc' = [cpc EXCEPT ![t] = "body"]
      BY <1>7 DEF PAborts, AbortTaken, Abort, AbortFault, Retry
    <2> QED
      BY <1>7, <2>1, RenewFrame DEF PcwmTypeOK, HtmTypeOK
  <1>8. ASSUME NEW t \in Threads, PFallback(t) PROVE KeptOut'
    BY <1>8 DEF PFallback, Fallback, Goto, ResetTs, Invalid, Word
  <1>9. ASSUME NEW t \in Threads, PAcquire(t) PROVE KeptOut'
    BY <1>9 DEF PAcquire, Acquire
  <1>10. ASSUME NEW t \in Threads, PRenewLocked(t) PROVE KeptOut'
    BY <1>10 DEF PRenewLocked, RenewLocked, Goto, RenewTs, SetTs, Word
  <1>11. ASSUME NEW t \in Threads, Stamp(t) PROVE KeptOut'
    BY <1>11 DEF Stamp, Phase
  <1>12. ASSUME NEW t \in Threads, PCommit(t) PROVE KeptOut'
    <2>1. /\ hpc' = [hpc EXCEPT ![t] = "out"] /\ UNCHANGED ts
          /\ cpc' = [cpc EXCEPT ![t] = "announce"]
      BY <1>12 DEF PCommit, CommitHtm, Release, Goto, Phase
    <2> QED
      BY <2>1 DEF PcwmTypeOK, HtmTypeOK
  <1>13. ASSUME NEW t \in Threads, Announce(t) PROVE KeptOut'
    BY <1>13 DEF Announce, Phase, SetTs, Word
  <1>14. ASSUME NEW t \in Threads, ReadOnly(t) PROVE KeptOut'
    BY <1>14 DEF ReadOnly, Phase, SetTs, Word
  <1>15. ASSUME NEW t \in Threads, MarkUpdate(t) PROVE KeptOut'
    BY <1>15 DEF MarkUpdate, Phase
  <1>16. ASSUME NEW t \in Threads, FlushEntries(t) PROVE KeptOut'
    BY <1>16 DEF FlushEntries, Phase
  <1>17. ASSUME NEW t \in Threads, WriteMarker(t) PROVE KeptOut'
    BY <1>17 DEF WriteMarker, Phase
  <1>18. ASSUME NEW t \in Threads, Flush(t) PROVE KeptOut'
    BY <1>18 DEF Flush, Phase, SetTs, Word
  <1>19. ASSUME NEW t \in Threads, ScanTs(t) PROVE KeptOut'
    BY <1>19 DEF ScanTs, AfterScan, Phase
  <1>20. ASSUME NEW t \in Threads, ScanUpdate(t) PROVE KeptOut'
    BY <1>20 DEF ScanUpdate, AfterScan, Phase
  <1>21. ASSUME NEW t \in Threads, NEW k \in Threads, WaitFor(t, k) PROVE KeptOut'
    BY <1>21 DEF WaitFor
  <1>22. ASSUME NEW t \in Threads, EndWait(t) PROVE KeptOut'
    BY <1>22 DEF EndWait, Phase, Marker, Waiting
  <1>23. ASSUME NEW t \in Threads, ReadSafe(t) PROVE KeptOut'
    BY <1>23 DEF ReadSafe, Phase, Marker, Waiting
  <1>24. ASSUME NEW t \in Threads, LoopTest(t) PROVE KeptOut'
    BY <1>24 DEF LoopTest, Phase, Marker, Waiting
  <1>25. ASSUME NEW t \in Threads, Cas(t) PROVE KeptOut'
    BY <1>25 DEF Cas, Phase
  <1>26. ASSUME NEW t \in Threads, FlushSafe(t) PROVE KeptOut'
    BY <1>26 DEF FlushSafe, Phase
  <1>27. ASSUME NEW t \in Threads, Await(t) PROVE KeptOut'
    BY <1>27 DEF Await, Phase
  <1>28. ASSUME NEW t \in Threads, Publish(t) PROVE KeptOut'
    BY <1>28 DEF Publish, Phase
  <1>29. CASE Evict
    BY <1>29 DEF Evict, EvictSafe, EvictMarker
  <1>30. CASE Finished
    BY <1>30 DEF Finished, pcwmVars
  <1> QED
    BY <1>1, <1>2, <1>3, <1>4, <1>5, <1>6, <1>7, <1>8, <1>9, <1>10, <1>11, <1>12,
       <1>13, <1>14, <1>15, <1>16, <1>17, <1>18, <1>19, <1>20, <1>21, <1>22,
       <1>23, <1>24, <1>25, <1>26, <1>27, <1>28, <1>29, <1>30
    DEF PcwmNext, TemplateStep, CommitStep

(* Pages are asked for after the transactions they reflect have committed. *)
LEMMA NeedsHistStep ==
  ASSUME PcwmTypeOK, NeedsHist, PcwmNext
  PROVE  NeedsHist'
  <1> USE DEF threadVars, logVars
  <1>1. SUFFICES ASSUME NEW i \in Threads PROVE hist \subseteq hist' /\ need'[i] \subseteq hist
    BY DEF NeedsHist
  <1>2. need \in [Threads -> SUBSET Tx] /\ need[i] \subseteq hist
    BY DEF PcwmTypeOK, NeedsHist
  <1>3. CASE UNCHANGED <<hist, need>>
    BY <1>2, <1>3
  <1>4. ASSUME NEW t \in Threads, TemplateStep(t)
        PROVE  hist \subseteq hist' /\ need'[i] \subseteq hist
    <2>1. CASE PRenewLocked(t)
      BY <1>2, <2>1 DEF PRenewLocked
    <2>2. CASE Stamp(t)
      BY <1>2, <2>2 DEF Stamp
    <2>3. CASE PCommit(t)
      BY <1>2, <2>3 DEF PCommit
    <2>4. CASE UNCHANGED <<hist, need>>
      BY <1>2, <2>4
    <2> QED
      BY <1>4, <2>1, <2>2, <2>3, <2>4
      DEF TemplateStep, PEnter, PCheckFree, PCheckTaken, PUnblock, PRenew, PSubscribe,
          PAborts, PFallback, PAcquire
  <1>5. ASSUME NEW t \in Threads, CommitStep(t) PROVE UNCHANGED <<hist, need>>
    BY <1>5
    DEF CommitStep, Announce, ReadOnly, MarkUpdate, FlushEntries, WriteMarker, Flush,
        ScanTs, ScanUpdate, WaitFor, EndWait, ReadSafe, LoopTest, Cas, FlushSafe, Await,
        Publish
  <1>6. Evict \/ Finished => UNCHANGED <<hist, need>>
    BY DEF Evict, EvictSafe, EvictMarker, Finished, pcwmVars
  <1> QED
    BY <1>3, <1>4, <1>5, <1>6 DEF PcwmNext

(* The thread under the lock takes its timestamp when nobody can commit,   *)
(* and keeps it for as long as it holds the lock.                          *)
LEMMA LockIsNewestStep ==
  ASSUME PcwmTypeOK, PcwmTypeOK', HtmInv, PlacesAgree, Timestamps, LockIsNewest, PcwmNext
  PROVE  LockIsNewest'
  <1>0. /\ ts \in [Threads -> [v : 0 .. MaxClock, done : BOOLEAN] \cup {Invalid}]
        /\ hpc \in [Threads -> Places] /\ cpc \in [Threads -> Phases]
        /\ rcv \in [Threads -> 0 .. MaxClock]
    BY DEF PcwmTypeOK, HtmTypeOK
  <1> USE <1>0 DEF LockIsNewest, PlacesAgree, Committing, Closing, Waiting, Marking,
                   threadVars, sharedVars, logVars, htmVars
  <1>1. ASSUME NEW t \in Threads, PEnter(t) PROVE LockIsNewest'
    BY <1>1 DEF PEnter, Enter, Goto, Phase
  <1>2. ASSUME NEW t \in Threads, PCheckFree(t) PROVE LockIsNewest'
    BY <1>2 DEF PCheckFree, CheckFree, Goto
  <1>3. ASSUME NEW t \in Threads, PCheckTaken(t) PROVE LockIsNewest'
    BY <1>3 DEF PCheckTaken, CheckTaken, Goto, ResetTs, Invalid, Word
  <1>4. ASSUME NEW t \in Threads, PUnblock(t) PROVE LockIsNewest'
    BY <1>4 DEF PUnblock, Unblock, Goto
  <1>5. ASSUME NEW t \in Threads, PRenew(t) PROVE LockIsNewest'
    BY <1>5 DEF PRenew, Renew, Goto, RenewTs, SetTs, Word
  <1>6. ASSUME NEW t \in Threads, PSubscribe(t) PROVE LockIsNewest'
    BY <1>6 DEF PSubscribe, Subscribe, Goto
  <1>7. ASSUME NEW t \in Threads, PAborts(t) PROVE LockIsNewest'
    <2>1. /\ hpc' = [hpc EXCEPT ![t] = "top"] /\ cpc' = [cpc EXCEPT ![t] = "body"]
          /\ UNCHANGED rcv
      BY <1>7 DEF PAborts, AbortTaken, Abort, AbortFault, Retry
    <2>2. \A u \in Threads \ {t} : ts'[u] = ts[u]
      BY <1>7, RenewFrame
    <2> QED
      BY <2>1, <2>2
  <1>8. ASSUME NEW t \in Threads, PFallback(t) PROVE LockIsNewest'
    BY <1>8 DEF PFallback, Fallback, Goto, ResetTs, Invalid, Word
  <1>9. ASSUME NEW t \in Threads, PAcquire(t) PROVE LockIsNewest'
    <2>1. /\ \A u \in Threads : hpc'[u] = "sgl" => hpc[u] = "sgl"
          /\ UNCHANGED <<ts, cpc, rcv>>
      BY <1>9 DEF PAcquire, Acquire
    <2> QED
      BY <2>1
  <1>10. ASSUME NEW t \in Threads, PRenewLocked(t) PROVE LockIsNewest'
    <2>1. /\ ts'[t].v = clock + 1 /\ UNCHANGED rcv
          /\ \A u \in Threads \ {t} : ts'[u] = ts[u]
      BY <1>10, RenewFrame
    <2>2. hpc' = [hpc EXCEPT ![t] = "sgl"] /\ UNCHANGED cpc
      BY <1>10 DEF PRenewLocked, RenewLocked, Goto
    <2>3. clock \in Int /\ \A k \in Threads : rcv[k] \in Int /\ rcv[k] < clock + 1
      BY DEF PcwmTypeOK, Timestamps
    <2> QED
      BY <2>1, <2>2, <2>3
  <1>11. ASSUME NEW t \in Threads, Stamp(t) PROVE LockIsNewest'
    BY <1>11 DEF Stamp, Phase
  <1>12. ASSUME NEW t \in Threads, PCommit(t) PROVE LockIsNewest'
    <2>1. /\ hpc' = [hpc EXCEPT ![t] = "out"] /\ cpc' = [cpc EXCEPT ![t] = "announce"]
          /\ UNCHANGED <<ts, rcv>>
      BY <1>12 DEF PCommit, CommitHtm, Release, Goto, Phase
    <2>2. \A i \in Threads : hpc[i] = "sgl" => i = t
      <3>1. CASE hpc[t] = "htm"
        BY <3>1 DEF HtmInv, NoHtmUnderSgl, Owners
      <3>2. CASE hpc[t] = "sgl"
        BY <3>2 DEF HtmInv, SglExclusive, Owners
      <3> QED
        BY <1>12, <3>1, <3>2 DEF PCommit, CommitHtm, Release, Goto
    <2> QED
      BY <2>1, <2>2
  <1>13. ASSUME NEW t \in Threads, Announce(t) PROVE LockIsNewest'
    BY <1>13 DEF Announce, Phase, SetTs, Word
  <1>14. ASSUME NEW t \in Threads, ReadOnly(t) PROVE LockIsNewest'
    BY <1>14 DEF ReadOnly, Phase, SetTs, Word
  <1>15. ASSUME NEW t \in Threads, MarkUpdate(t) PROVE LockIsNewest'
    BY <1>15 DEF MarkUpdate, Phase
  <1>16. ASSUME NEW t \in Threads, FlushEntries(t) PROVE LockIsNewest'
    BY <1>16 DEF FlushEntries, Phase
  <1>17. ASSUME NEW t \in Threads, WriteMarker(t) PROVE LockIsNewest'
    BY <1>17 DEF WriteMarker, Phase
  <1>18. ASSUME NEW t \in Threads, Flush(t) PROVE LockIsNewest'
    BY <1>18 DEF Flush, Phase, SetTs, Word
  <1>19. ASSUME NEW t \in Threads, ScanTs(t) PROVE LockIsNewest'
    BY <1>19 DEF ScanTs, AfterScan, Phase
  <1>20. ASSUME NEW t \in Threads, ScanUpdate(t) PROVE LockIsNewest'
    BY <1>20 DEF ScanUpdate, AfterScan, Phase
  <1>21. ASSUME NEW t \in Threads, NEW k \in Threads, WaitFor(t, k) PROVE LockIsNewest'
    BY <1>21 DEF WaitFor
  <1>22. ASSUME NEW t \in Threads, EndWait(t) PROVE LockIsNewest'
    BY <1>22 DEF EndWait, Phase
  <1>23. ASSUME NEW t \in Threads, ReadSafe(t) PROVE LockIsNewest'
    BY <1>23 DEF ReadSafe, Phase
  <1>24. ASSUME NEW t \in Threads, LoopTest(t) PROVE LockIsNewest'
    BY <1>24 DEF LoopTest, Phase
  <1>25. ASSUME NEW t \in Threads, Cas(t) PROVE LockIsNewest'
    BY <1>25 DEF Cas, Phase
  <1>26. ASSUME NEW t \in Threads, FlushSafe(t) PROVE LockIsNewest'
    BY <1>26 DEF FlushSafe, Phase
  <1>27. ASSUME NEW t \in Threads, Await(t) PROVE LockIsNewest'
    BY <1>27 DEF Await, Phase
  <1>28. ASSUME NEW t \in Threads, Publish(t) PROVE LockIsNewest'
    BY <1>28 DEF Publish, Phase
  <1>29. CASE Evict
    BY <1>29 DEF Evict, EvictSafe, EvictMarker
  <1>30. CASE Finished
    BY <1>30 DEF Finished, pcwmVars
  <1> QED
    BY <1>1, <1>2, <1>3, <1>4, <1>5, <1>6, <1>7, <1>8, <1>9, <1>10, <1>11, <1>12,
       <1>13, <1>14, <1>15, <1>16, <1>17, <1>18, <1>19, <1>20, <1>21, <1>22,
       <1>23, <1>24, <1>25, <1>26, <1>27, <1>28, <1>29, <1>30
    DEF PcwmNext, TemplateStep, CommitStep

(* In the initial states nothing has committed and nobody waits.           *)
LEMMA WaitInitInv == PcwmInit => WaitInv
  BY PcwmInitInv DEF WaitInv, Inside, NeedsHist, KeptOut, LockIsNewest, PcwmInit, HtmInit

(* A step that changes nothing.                                            *)
LEMMA WaitStutterInv == WaitInv /\ UNCHANGED pcwmVars => WaitInv'
  BY PcwmStutterInv
  DEF WaitInv, Inside, NeedsHist, KeptOut, LockIsNewest, pcwmVars, threadVars, sharedVars, logVars,
      htmVars

(* The invariant of Pcwm_proofs and the four facts hold in every state.    *)
THEOREM WaitInvariant == PcwmSpec => []WaitInv
  <1>1. WaitInv /\ PcwmNext => WaitInv'
    BY PcwmNextInv, InsideStep, KeptOutStep, NeedsHistStep, LockIsNewestStep
    DEF WaitInv, PcwmInv
  <1> QED
    BY <1>1, WaitInitInv, WaitStutterInv, PTL DEF PcwmSpec

(* A thread that a commit waits for waits for nobody itself, and the other *)
(* waits lead to such a commit or to a thread that waits for nobody.       *)
LEMMA InvNoCircle == WaitInv => NoCircularWait
  <1> SUFFICES ASSUME WaitInv, NEW S \in SUBSET Threads, S # {},
                      \A t \in S : \E k \in S : k \in WaitsFor(t)
               PROVE  FALSE
    BY DEF NoCircularWait
  <1>1. \A t \in Threads : /\ ts[t].v \in Int /\ rcv[t] \in Int
                          /\ hpc[t] \in Places /\ cpc[t] \in Phases
    BY PcwmAssumption DEF WaitInv, PcwmInv, PcwmTypeOK, HtmTypeOK, Invalid, Word
  <1>2. \A t \in Threads : cpc[t] \notin {"body", "stamped"} => hpc[t] = "out"
    BY DEF WaitInv, PcwmInv, PlacesAgree
  <1>3. ASSUME NEW t \in S, cpc[t] = "wait" PROVE FALSE
    <2>1. PICK k \in S : k \in waiting[t] /\ Older(t, k)
      BY <1>2, <1>3 DEF WaitsFor
    <2>2. ~ ts[k].done /\ ts[k].v <= rcv[t]
      BY <1>1, <2>1 DEF Older, Larger
    <2>3. ts[t].done /\ k # t
      BY <1>3, <2>2 DEF WaitInv, PcwmInv, Marker, Waiting
    <2>4. hpc[k] # "sgl"
      BY <1>1, <1>3, <2>2, <2>3 DEF WaitInv, LockIsNewest, Committing, Waiting
    <2>5. hpc[k] \notin {"block", "enter"} /\ cpc[k] \notin {"wait", "await"}
      BY <2>2 DEF WaitInv, KeptOut, PcwmInv, Marker, Waiting
    <2> QED
      BY <2>4, <2>5 DEF WaitsFor
  <1>4. ASSUME NEW t \in S, cpc[t] = "await" PROVE FALSE
    <2>1. PICK k \in S : cpc[k] \in Pushing
      BY <1>2, <1>4 DEF WaitsFor
    <2>2. hpc[k] = "out" /\ cpc[k] \notin {"await", "wait"}
      BY <1>2, <1>3, <2>1 DEF Pushing
    <2> QED
      BY <2>2 DEF WaitsFor
  <1>5. ASSUME NEW t \in S, hpc[t] = "sgl" PROVE FALSE
    <2>1. PICK k \in S, x \in need[t] \ acked : x.t = k
      BY <1>2, <1>5, <1>3, <1>4 DEF WaitsFor
    <2>2. cpc[k] \in Committing
      BY <2>1 DEF WaitInv, NeedsHist, Inside
    <2>3. hpc[k] = "out" /\ cpc[k] \notin {"await", "wait"}
      BY <1>2, <1>3, <1>4, <2>2 DEF Committing, Closing, Waiting, Marking
    <2> QED
      BY <2>3 DEF WaitsFor
  <1>6. ASSUME NEW t \in S, hpc[t] \in {"block", "enter"} PROVE FALSE
    <2>1. sgl \in S /\ hpc[sgl] \in {"locked", "sgl"}
      BY <1>3, <1>4, <1>6 DEF WaitsFor, WaitInv, PcwmInv, HtmInv, SglExclusive, Owners
    <2>2. hpc[sgl] = "locked" /\ cpc[sgl] \notin {"await", "wait"}
      BY <1>3, <1>4, <1>5, <2>1
    <2> QED
      BY <2>1, <2>2 DEF WaitsFor
  <1>7. PICK t \in S : TRUE
    OBVIOUS
  <1> QED
    BY <1>3, <1>4, <1>5, <1>6, <1>7 DEF WaitsFor

(* No set of threads wait for each other, however they wait and however    *)
(* long the chain of waits.                                                *)
THEOREM NobodyWaitsInACircle == PcwmSpec => []NoCircularWait
  BY WaitInvariant, InvNoCircle, PTL
=============================================================================
