---------------------------- MODULE Pcwm_proofs ----------------------------
(***************************************************************************)
(* Safety of the SPHT-NL commit protocol for every number of threads, of   *)
(* transactions and of clock values. PrefixRecoverable and                 *)
(* SpanningRecoverable are not inductive. What carries them:               *)
(*                                                                         *)
(*   Timestamps  a thread that may still commit, or whose log is not yet   *)
(*               durable, shows a timestamp without bit 63 that is not     *)
(*               above the one it commits with;                            *)
(*   Waits       a thread past u in wait_commit has seen u flushed or with *)
(*               a larger timestamp, and that stays so;                    *)
(*   Marker      hence P_last_safe_ts is not above any timestamp without   *)
(*               bit 63, and what threads know of it is true;              *)
(*   Logs        a transaction whose longer log is not durable is the one  *)
(*               its thread is closing.                                    *)
(***************************************************************************)
EXTENDS Pcwm, HtmSgl_proofs

Closing == {"announce", "update", "close", "marker", "flush"}
Waiting == {"scan", "isupd", "wait"}
Marking == {"put", "loop", "cas", "safe", "await", "publish"}

(* How the two places of a thread go together.                             *)
PlacesAgree == \A t \in Threads :
              /\ cpc[t] = "body" => hpc[t] # "out"
              /\ cpc[t] = "stamped" => hpc[t] \in {"htm", "doomed", "sgl"}
              /\ cpc[t] \notin {"body", "stamped"} => hpc[t] = "out"
              /\ cpc[t] \in {"close", "marker", "flush"} \cup Waiting \cup Marking
                    => size[t] > 0
              /\ cpc[t] \in {"scan", "isupd"} => scan[t] < N

Timestamps ==
    \A t \in Threads :
       /\ ts[t] # Invalid => ts[t].v <= clock
       /\ rcv[t] <= clock
       /\ hpc[t] \in {"begin", "htm", "doomed", "sgl"} => ~ ts[t].done
       /\ cpc[t] = "stamped" => ts[t].v < rcv[t]
       /\ cpc[t] \in Closing => ~ ts[t].done /\ ts[t].v <= rcv[t]

Cleared(t, u) == ts[u].done \/ Larger(ts[u].v, rcv[t], u, t)

Waits ==
    \A t, u \in Threads : t # u =>
       /\ cpc[t] \in {"scan", "isupd"} /\ u < scan[t] => u \in waiting[t] \/ Cleared(t, u)
       /\ cpc[t] = "isupd" /\ u = scan[t] => Cleared(t, u)
       /\ cpc[t] = "wait" => u \in waiting[t] \/ Cleared(t, u)
       /\ cpc[t] \in {"put", "loop", "cas"} => Cleared(t, u)

Marker ==
    /\ pLastSafe <= lastSafe
    /\ lastSafe <= clock
    /\ \A t \in Threads :
          /\ ~ ts[t].done => lastSafe <= ts[t].v
          /\ flushed[t] <= pLastSafe
          /\ cpc[t] \in {"loop", "cas"} => oldVal[t] <= lastSafe
          /\ cpc[t] = "cas" => oldVal[t] < rcv[t]
          /\ cpc[t] \in Waiting \cup {"put", "loop", "cas"} => ts[t].done
          /\ cpc[t] = "safe" => rcv[t] <= lastSafe
          /\ cpc[t] = "publish" => rcv[t] <= pLastSafe

Logs ==
    /\ acked \subseteq hist /\ marked \subseteq hist
    /\ marked \subseteq entries /\ durable \subseteq marked
    /\ \A t \in Threads :
          /\ cpc[t] \in Closing \cup Waiting \cup Marking /\ size[t] > 0
                => MyTx(t) \in hist
          /\ cpc[t] \in {"marker", "flush"} => MyTx(t) \in entries
          /\ cpc[t] = "flush" => MyTx(t) \in marked
    /\ \A x \in hist :
          /\ x.v <= clock
          /\ x.size = 2 /\ x \notin durable
                => cpc[x.t] \in Closing /\ x.v = rcv[x.t] /\ x.size = size[x.t]
          /\ hpc[x.t] \in {"begin", "htm", "doomed", "sgl"} => x.v < ts[x.t].v

AckedSafe == \A x \in acked : x.size = 2 => x \in durable /\ x.v <= pLastSafe

PcwmInv == /\ PcwmTypeOK
           /\ HtmInv
           /\ PlacesAgree
           /\ Timestamps
           /\ Waits
           /\ Marker
           /\ Logs
           /\ AckedSafe
-----------------------------------------------------------------------------
(* Every step takes a step of the template or leaves it alone.             *)
LEMMA TemplateFrame == PcwmNext => HtmNext \/ UNCHANGED htmVars
  <1>1. ASSUME NEW t \in Threads, TemplateStep(t) PROVE HtmNext \/ UNCHANGED htmVars
    BY <1>1 DEF TemplateStep, PEnter, PCheckFree, PCheckTaken, PUnblock, PRenew,
         PSubscribe, PAborts, PFallback, PAcquire, PRenewLocked, Stamp, PCommit, HtmNext
  <1>2. ASSUME NEW t \in Threads, CommitStep(t) PROVE UNCHANGED htmVars
    BY <1>2 DEF CommitStep, Announce, ReadOnly, MarkUpdate, FlushEntries, WriteMarker,
         Flush, ScanTs, ScanUpdate, WaitFor, EndWait, ReadSafe, LoopTest, Cas, FlushSafe,
         Await, Publish
  <1>3. Evict => UNCHANGED htmVars
    BY DEF Evict, EvictSafe, EvictMarker
  <1>4. Finished => UNCHANGED htmVars
    BY DEF Finished, pcwmVars
  <1> QED
    BY <1>1, <1>2, <1>3, <1>4 DEF PcwmNext

LEMMA TemplateInv == HtmInv /\ PcwmNext => HtmInv'
  BY TemplateFrame, HtmStepInv

(* The state's types, the template's set apart.                            *)
LEMMA InitTypes == PcwmInit => PcwmTypeOK
  <1> SUFFICES ASSUME PcwmInit PROVE PcwmTypeOK
    OBVIOUS
  <1>1. HtmTypeOK
    BY HtmInitInv DEF PcwmInit, HtmInv
  <1> QED
    BY <1>1, HtmAssumption, PcwmAssumption
    DEF PcwmInit, PcwmTypeOK, Word, Phases, Threads

TsTypes == [Threads -> [v : 0 .. MaxClock, done : BOOLEAN] \cup {Invalid}]

LEMMA SetTsType ==
  ASSUME ts \in TsTypes, NEW t \in Threads, NEW v \in 0 .. MaxClock,
         NEW done \in BOOLEAN, SetTs(t, v, done)
  PROVE  ts' \in TsTypes
  BY DEF TsTypes, SetTs, Word

LEMMA RenewTsType ==
  ASSUME clock \in 0 .. MaxClock, ts \in TsTypes, NEW t \in Threads, RenewTs(t)
  PROVE  clock' \in 0 .. MaxClock /\ ts' \in TsTypes
  <1>1. clock + 1 \in 0 .. MaxClock /\ clock' = clock + 1
    BY PcwmAssumption DEF RenewTs
  <1>2. SetTs(t, clock + 1, FALSE)
    BY DEF RenewTs
  <1> QED
    BY <1>1, <1>2, SetTsType

(* Threads are numbered from 0 to N - 1.                                   *)
LEMMA ThreadOrder ==
  \A u, i \in Threads : /\ u < i + 1 => u < i \/ u = i
                        /\ i + 1 = N => u < i + 1
                        /\ ~ (u < 0)
  BY HtmAssumption DEF Threads

LEMMA ThreadNumber == \A n \in 0 .. N : n < N => n \in Threads
  BY HtmAssumption DEF Threads

LEMMA SetTsAt ==
  ASSUME ts \in TsTypes, NEW t \in Threads, NEW v, NEW done, SetTs(t, v, done)
  PROVE  /\ ts'[t] = Word(v, done)
         /\ ts'[t].v = v /\ ts'[t].done = done
         /\ \A u \in Threads \ {t} : ts'[u] = ts[u]
  BY DEF TsTypes, SetTs, Word

LEMMA RenewTsAt ==
  ASSUME clock \in 0 .. MaxClock, ts \in TsTypes, NEW t \in Threads, RenewTs(t)
  PROVE  /\ clock' = clock + 1
         /\ ts'[t].v = clock + 1 /\ ~ ts'[t].done
         /\ \A u \in Threads \ {t} : ts'[u] = ts[u]
  BY SetTsAt DEF RenewTs

(* What the steps that write a timestamp do to the rest of the state.      *)
LEMMA RenewFrame ==
  ASSUME PcwmTypeOK, NEW t \in Threads, PRenew(t) \/ PAborts(t) \/ PRenewLocked(t)
  PROVE  /\ clock' = clock + 1
         /\ ts'[t].v = clock + 1 /\ ~ ts'[t].done
         /\ \A u \in Threads \ {t} : ts'[u] = ts[u]
         /\ UNCHANGED <<rcv, size, scan, waiting, jump, oldVal, success, hist, marked,
                        entries, durable, pLastSafe, acked, flushed, lastSafe>>
  <1>1. RenewTs(t)
    BY DEF PRenew, PAborts, PRenewLocked
  <1>2. UNCHANGED <<rcv, size, scan, waiting, jump, oldVal, success, hist, marked,
                    entries, durable, pLastSafe, acked, flushed, lastSafe>>
    BY DEF PRenew, PAborts, PRenewLocked, threadVars, logVars
  <1>3. clock \in 0 .. MaxClock /\ ts \in TsTypes
    BY DEF PcwmTypeOK, TsTypes
  <1> QED
    BY <1>1, <1>2, <1>3, RenewTsAt

LEMMA StoreFrame ==
  ASSUME PcwmTypeOK, NEW t \in Threads, NEW done, SetTs(t, rcv[t], done)
  PROVE  /\ ts'[t].v = rcv[t] /\ ts'[t].done = done
         /\ \A u \in Threads \ {t} : ts'[u] = ts[u]
  <1>1. ts \in TsTypes
    BY DEF PcwmTypeOK, TsTypes
  <1> QED
    BY <1>1, SetTsAt

LEMMA TemplateTypes ==
  ASSUME PcwmTypeOK, HtmTypeOK', NEW t \in Threads, TemplateStep(t)
  PROVE  PcwmTypeOK'
  <1> USE HtmAssumption, PcwmAssumption DEF PcwmTypeOK, threadVars, sharedVars, logVars
  <1>1. CASE PEnter(t)
    BY <1>1 DEF PEnter, Phase, Phases
  <1>2. CASE PCheckFree(t) \/ PUnblock(t) \/ PSubscribe(t) \/ PAcquire(t)
    BY <1>2 DEF PCheckFree, PUnblock, PSubscribe, PAcquire
  <1>3. CASE PCheckTaken(t) \/ PFallback(t)
    BY <1>3 DEF PCheckTaken, PFallback, ResetTs
  <1>4. CASE PRenew(t)
    <2>1. clock' \in 0 .. MaxClock /\ ts' \in TsTypes
      BY <1>4, RenewTsType DEF PRenew, TsTypes
    <2> QED
      BY <1>4, <2>1 DEF PRenew, TsTypes
  <1>5. CASE PAborts(t)
    <2>1. clock' \in 0 .. MaxClock /\ ts' \in TsTypes
      BY <1>5, RenewTsType DEF PAborts, TsTypes
    <2> QED
      BY <1>5, <2>1 DEF PAborts, TsTypes, Phases
  <1>6. CASE PRenewLocked(t)
    <2>1. clock' \in 0 .. MaxClock /\ ts' \in TsTypes
      BY <1>6, RenewTsType DEF PRenewLocked, TsTypes
    <2> QED
      BY <1>6, <2>1 DEF PRenewLocked, TsTypes
  <1>7. CASE Stamp(t)
    BY <1>7 DEF Stamp, Phase, Phases
  <1>8. CASE PCommit(t)
    BY <1>8 DEF PCommit, Phase, Phases, MyTx, Tx
  <1> QED
    BY <1>1, <1>2, <1>3, <1>4, <1>5, <1>6, <1>7, <1>8 DEF TemplateStep

LEMMA CommitTypes ==
  ASSUME PcwmTypeOK, HtmTypeOK', PlacesAgree, NEW t \in Threads, CommitStep(t)
  PROVE  PcwmTypeOK'
  <1> USE HtmAssumption, PcwmAssumption DEF PcwmTypeOK, threadVars, sharedVars, logVars
  <1>1. CASE Announce(t)
    <2>1. ts' \in TsTypes
      BY <1>1, SetTsType DEF Announce, TsTypes
    <2> QED
      BY <1>1, <2>1 DEF Announce, TsTypes, Phase, Phases
  <1>2. CASE ReadOnly(t)
    <2>1. ts' \in TsTypes
      BY <1>2, SetTsType DEF ReadOnly, TsTypes
    <2> QED
      BY <1>2, <2>1 DEF ReadOnly, TsTypes, Phase, Phases
  <1>3. CASE MarkUpdate(t)
    BY <1>3 DEF MarkUpdate, Phase, Phases
  <1>4. CASE FlushEntries(t)
    BY <1>4 DEF FlushEntries, Phase, Phases, MyTx, Tx, PlacesAgree, Waiting, Marking
  <1>5. CASE WriteMarker(t)
    BY <1>5 DEF WriteMarker, Phase, Phases, MyTx, Tx, PlacesAgree, Waiting, Marking
  <1>6. CASE Flush(t)
    <2>1. ts' \in TsTypes
      BY <1>6, SetTsType DEF Flush, TsTypes
    <2>2. durable' \in SUBSET Tx
      BY <1>6 DEF Flush, MyTx, Tx
    <2>3. cpc' \in [Threads -> Phases] /\ scan' \in [Threads -> 0 .. N]
      BY <1>6 DEF Flush, Phase, Phases
    <2>4. waiting' \in [Threads -> SUBSET Threads] /\ jump' \in [Threads -> BOOLEAN]
      BY <1>6 DEF Flush
    <2> QED
      BY <1>6, <2>1, <2>2, <2>3, <2>4 DEF Flush, TsTypes
  <1>7. CASE ScanTs(t)
    <2>1. cpc[t] = "scan" /\ scan[t] \in 0 .. N - 1
      BY <1>7 DEF ScanTs, PlacesAgree
    <2>2. waiting' \in [Threads -> SUBSET Threads]
      BY <1>7, <2>1 DEF ScanTs, Threads
    <2>3. cpc' \in [Threads -> Phases] /\ scan' \in [Threads -> 0 .. N]
      BY <1>7, <2>1 DEF ScanTs, Phase, Phases, AfterScan
    <2> QED
      BY <1>7, <2>2, <2>3 DEF ScanTs
  <1>8. CASE ScanUpdate(t)
    <2>1. cpc[t] = "isupd" /\ scan[t] \in 0 .. N - 1
      BY <1>8 DEF ScanUpdate, Phase, PlacesAgree
    <2>2. cpc' \in [Threads -> Phases] /\ scan' \in [Threads -> 0 .. N]
      BY <1>8, <2>1 DEF ScanUpdate, Phase, Phases, AfterScan
    <2>3. jump' \in [Threads -> BOOLEAN]
      BY <1>8, <2>1 DEF ScanUpdate, Threads
    <2> QED
      BY <1>8, <2>2, <2>3 DEF ScanUpdate
  <1>9. CASE \E i \in Threads : WaitFor(t, i)
    BY <1>9 DEF WaitFor
  <1>10. CASE EndWait(t)
    BY <1>10 DEF EndWait, Phase, Phases
  <1>11. CASE ReadSafe(t)
    BY <1>11 DEF ReadSafe, Phase, Phases
  <1>12. CASE LoopTest(t)
    BY <1>12 DEF LoopTest, Phase, Phases
  <1>13. CASE Cas(t)
    BY <1>13 DEF Cas, Phase, Phases
  <1>14. CASE FlushSafe(t)
    BY <1>14 DEF FlushSafe, Phase, Phases
  <1>15. CASE Await(t)
    BY <1>15 DEF Await, Phase, Phases
  <1>16. CASE Publish(t)
    BY <1>16 DEF Publish, Phase, Phases, MyTx, Tx, PlacesAgree, Waiting, Marking
  <1> QED
    BY <1>1, <1>2, <1>3, <1>4, <1>5, <1>6, <1>7, <1>8, <1>9, <1>10, <1>11, <1>12,
       <1>13, <1>14, <1>15, <1>16 DEF CommitStep

LEMMA StepTypes ==
  ASSUME PcwmTypeOK, HtmTypeOK', PlacesAgree, PcwmNext
  PROVE  PcwmTypeOK'
  <1>1. CASE Finished
    BY <1>1 DEF Finished, PcwmTypeOK, pcwmVars, threadVars, sharedVars, logVars
  <1>2. CASE Evict
    BY <1>2 DEF Evict, EvictSafe, EvictMarker, PcwmTypeOK, threadVars, sharedVars
  <1> QED
    BY <1>1, <1>2, TemplateTypes, CommitTypes DEF PcwmNext
-----------------------------------------------------------------------------
(* The places of a thread in the template and in the protocol.            *)
LEMMA PlacesStep ==
  ASSUME PcwmTypeOK, HtmTypeOK', PlacesAgree, PcwmNext
  PROVE  PlacesAgree'
  <1> USE HtmAssumption, PcwmAssumption DEF PcwmTypeOK, HtmTypeOK, PlacesAgree,
         Closing, Waiting, Marking, threadVars, sharedVars, logVars, htmVars
  <1>1. ASSUME NEW t \in Threads, PEnter(t) PROVE PlacesAgree'
    <2>1. /\ hpc' = [hpc EXCEPT ![t] = "top"] /\ cpc' = [cpc EXCEPT ![t] = "body"]
          /\ cpc[t] = "idle"
      BY <1>1 DEF PEnter, Enter, Goto, Phase
    <2>2. UNCHANGED <<threadVars, logVars, clock, ts, flushed, lastSafe>>
      BY <1>1 DEF PEnter
    <2> QED
      BY <2>1, <2>2
  <1>2. ASSUME NEW t \in Threads, PCheckFree(t) PROVE PlacesAgree'
    BY <1>2 DEF PCheckFree, CheckFree, Goto
  <1>3. ASSUME NEW t \in Threads, PCheckTaken(t) PROVE PlacesAgree'
    BY <1>3 DEF PCheckTaken, CheckTaken, Goto, ResetTs
  <1>4. ASSUME NEW t \in Threads, PUnblock(t) PROVE PlacesAgree'
    BY <1>4 DEF PUnblock, Unblock, Goto
  <1>5. ASSUME NEW t \in Threads, PRenew(t) PROVE PlacesAgree'
    BY <1>5 DEF PRenew, Renew, Goto, RenewTs, SetTs
  <1>6. ASSUME NEW t \in Threads, PSubscribe(t) PROVE PlacesAgree'
    BY <1>6 DEF PSubscribe, Subscribe, Goto
  <1>7. ASSUME NEW t \in Threads, PAborts(t) PROVE PlacesAgree'
    BY <1>7 DEF PAborts, AbortTaken, Abort, AbortFault, Retry, RenewTs, SetTs
  <1>8. ASSUME NEW t \in Threads, PFallback(t) PROVE PlacesAgree'
    BY <1>8 DEF PFallback, Fallback, Goto, ResetTs
  <1>9. ASSUME NEW t \in Threads, PAcquire(t) PROVE PlacesAgree'
    BY <1>9 DEF PAcquire, Acquire
  <1>10. ASSUME NEW t \in Threads, PRenewLocked(t) PROVE PlacesAgree'
    BY <1>10 DEF PRenewLocked, RenewLocked, Goto, RenewTs, SetTs
  <1>11. ASSUME NEW t \in Threads, Stamp(t) PROVE PlacesAgree'
    BY <1>11 DEF Stamp, Phase
  <1>12. ASSUME NEW t \in Threads, PCommit(t) PROVE PlacesAgree'
    BY <1>12 DEF PCommit, CommitHtm, Release, Goto, Phase
  <1>13. ASSUME NEW t \in Threads, Announce(t) PROVE PlacesAgree'
    BY <1>13 DEF Announce, Phase, SetTs
  <1>14. ASSUME NEW t \in Threads, ReadOnly(t) PROVE PlacesAgree'
    BY <1>14 DEF ReadOnly, Phase, SetTs
  <1>15. ASSUME NEW t \in Threads, MarkUpdate(t) PROVE PlacesAgree'
    BY <1>15 DEF MarkUpdate, Phase
  <1>16. ASSUME NEW t \in Threads, FlushEntries(t) PROVE PlacesAgree'
    BY <1>16 DEF FlushEntries, Phase
  <1>17. ASSUME NEW t \in Threads, WriteMarker(t) PROVE PlacesAgree'
    BY <1>17 DEF WriteMarker, Phase
  <1>18. ASSUME NEW t \in Threads, Flush(t) PROVE PlacesAgree'
    BY <1>18 DEF Flush, Phase, SetTs
  <1>19. ASSUME NEW t \in Threads, ScanTs(t) PROVE PlacesAgree'
    <2>1. cpc[t] = "scan" /\ scan[t] \in 0 .. N - 1 /\ scan \in [Threads -> 0 .. N]
      BY <1>19 DEF ScanTs
    <2>2. /\ cpc' = [cpc EXCEPT ![t] = cpc'[t]]
          /\ cpc'[t] \in {"scan", "isupd", "wait"}
          /\ cpc'[t] # "wait" => scan'[t] < N
      <3>1. CASE Phase(t, "scan", "isupd") /\ scan' = scan
        BY <2>1, <3>1 DEF Phase
      <3>2. CASE /\ Phase(t, "scan", AfterScan(scan[t]))
                 /\ scan' = [scan EXCEPT ![t] = scan[t] + 1]
        <4>1. AfterScan(scan[t]) \in {"scan", "wait"}
              /\ (AfterScan(scan[t]) # "wait" => scan[t] + 1 < N)
          BY <2>1 DEF AfterScan
        <4>2. /\ cpc' = [cpc EXCEPT ![t] = AfterScan(scan[t])]
              /\ cpc'[t] = AfterScan(scan[t]) /\ scan'[t] = scan[t] + 1
          BY <2>1, <3>2 DEF Phase
        <4> HIDE DEF PcwmTypeOK, HtmTypeOK, PlacesAgree
        <4> QED
          BY <4>1, <4>2
      <3> QED
        BY <1>19, <3>1, <3>2 DEF ScanTs
    <2>3. \A u \in Threads \ {t} : cpc'[u] = cpc[u] /\ scan'[u] = scan[u]
      BY <1>19 DEF ScanTs, Phase
    <2>4. UNCHANGED <<hpc, size>>
      BY <1>19 DEF ScanTs
    <2> QED
      BY <2>1, <2>2, <2>3, <2>4
  <1>20. ASSUME NEW t \in Threads, ScanUpdate(t) PROVE PlacesAgree'
    BY <1>20 DEF ScanUpdate, Phase, AfterScan
  <1>21. ASSUME NEW t \in Threads, NEW i \in Threads, WaitFor(t, i) PROVE PlacesAgree'
    BY <1>21 DEF WaitFor
  <1>22. ASSUME NEW t \in Threads, EndWait(t) PROVE PlacesAgree'
    BY <1>22 DEF EndWait, Phase
  <1>23. ASSUME NEW t \in Threads, ReadSafe(t) PROVE PlacesAgree'
    BY <1>23 DEF ReadSafe, Phase
  <1>24. ASSUME NEW t \in Threads, LoopTest(t) PROVE PlacesAgree'
    BY <1>24 DEF LoopTest, Phase
  <1>25. ASSUME NEW t \in Threads, Cas(t) PROVE PlacesAgree'
    BY <1>25 DEF Cas, Phase
  <1>26. ASSUME NEW t \in Threads, FlushSafe(t) PROVE PlacesAgree'
    BY <1>26 DEF FlushSafe, Phase
  <1>27. ASSUME NEW t \in Threads, Await(t) PROVE PlacesAgree'
    BY <1>27 DEF Await, Phase
  <1>28. ASSUME NEW t \in Threads, Publish(t) PROVE PlacesAgree'
    BY <1>28 DEF Publish, Phase
  <1>29. CASE Evict
    BY <1>29 DEF Evict, EvictSafe, EvictMarker, htmVars
  <1>30. CASE Finished
    BY <1>30 DEF Finished, pcwmVars, htmVars
  <1> QED
    BY <1>1, <1>2, <1>3, <1>4, <1>5, <1>6, <1>7, <1>8, <1>9, <1>10, <1>11, <1>12,
       <1>13, <1>14, <1>15, <1>16, <1>17, <1>18, <1>19, <1>20, <1>21, <1>22,
       <1>23, <1>24, <1>25, <1>26, <1>27, <1>28, <1>29, <1>30
    DEF PcwmNext, TemplateStep, CommitStep

(* No step hides a thread that has yet to commit or to close its log.      *)
LEMMA TimestampsStep ==
  ASSUME PcwmTypeOK, PcwmTypeOK', HtmTypeOK', HtmInv, PlacesAgree, Timestamps, PcwmNext
  PROVE  Timestamps'
  <1> USE HtmAssumption, PcwmAssumption DEF PcwmTypeOK, HtmTypeOK, PlacesAgree,
         Timestamps, Closing, Waiting, Marking, threadVars, sharedVars, logVars,
         htmVars, Word, Invalid
  <1>1. ASSUME NEW t \in Threads, PEnter(t) PROVE Timestamps'
    <2>1. /\ hpc' = [hpc EXCEPT ![t] = "top"] /\ cpc' = [cpc EXCEPT ![t] = "body"]
          /\ cpc[t] = "idle"
      BY <1>1 DEF PEnter, Enter, Goto, Phase
    <2>2. UNCHANGED <<threadVars, logVars, clock, ts, flushed, lastSafe>>
      BY <1>1 DEF PEnter
    <2> QED
      BY <2>1, <2>2
  <1>2. ASSUME NEW t \in Threads, PCheckFree(t) PROVE Timestamps'
    BY <1>2 DEF PCheckFree, CheckFree, Goto
  <1>3. ASSUME NEW t \in Threads, PCheckTaken(t) PROVE Timestamps'
    BY <1>3 DEF PCheckTaken, CheckTaken, Goto, ResetTs
  <1>4. ASSUME NEW t \in Threads, PUnblock(t) PROVE Timestamps'
    BY <1>4 DEF PUnblock, Unblock, Goto
  <1>5. ASSUME NEW t \in Threads, PRenew(t) PROVE Timestamps'
    <2>1. /\ clock' = clock + 1
          /\ ts'[t].v = clock + 1 /\ ~ ts'[t].done
          /\ \A u \in Threads \ {t} : ts'[u] = ts[u]
      BY <1>5, RenewTsAt DEF PRenew, TsTypes
    <2>2. /\ hpc' = [hpc EXCEPT ![t] = "begin"]
          /\ UNCHANGED cpc /\ cpc[t] = "body"
      BY <1>5 DEF PRenew, Renew, Goto
    <2>3. UNCHANGED <<rcv, size, scan, waiting, jump, oldVal, success, logVars, flushed,
                      lastSafe>>
      BY <1>5 DEF PRenew
    <2> QED
      BY <2>1, <2>2, <2>3
  <1>6. ASSUME NEW t \in Threads, PSubscribe(t) PROVE Timestamps'
    BY <1>6 DEF PSubscribe, Subscribe, Goto
  <1>7. ASSUME NEW t \in Threads, PAborts(t) PROVE Timestamps'
    <2>1. /\ clock' = clock + 1
          /\ ts'[t].v = clock + 1 /\ ~ ts'[t].done
          /\ \A u \in Threads \ {t} : ts'[u] = ts[u]
      BY <1>7, RenewTsAt DEF PAborts, TsTypes
    <2>2. /\ hpc' = [hpc EXCEPT ![t] = "top"]
          /\ cpc[t] \in {"body", "stamped"} /\ cpc' = [cpc EXCEPT ![t] = "body"]
      BY <1>7 DEF PAborts, AbortTaken, Abort, AbortFault, Retry
    <2>3. UNCHANGED <<rcv, size, scan, waiting, jump, oldVal, success, logVars, flushed,
                      lastSafe>>
      BY <1>7 DEF PAborts
    <2> QED
      BY <2>1, <2>2, <2>3
  <1>8. ASSUME NEW t \in Threads, PFallback(t) PROVE Timestamps'
    BY <1>8 DEF PFallback, Fallback, Goto, ResetTs
  <1>9. ASSUME NEW t \in Threads, PAcquire(t) PROVE Timestamps'
    BY <1>9 DEF PAcquire, Acquire
  <1>10. ASSUME NEW t \in Threads, PRenewLocked(t) PROVE Timestamps'
    <2>1. /\ clock' = clock + 1
          /\ ts'[t].v = clock + 1 /\ ~ ts'[t].done
          /\ \A u \in Threads \ {t} : ts'[u] = ts[u]
      BY <1>10, RenewTsAt DEF PRenewLocked, TsTypes
    <2>2. /\ hpc' = [hpc EXCEPT ![t] = "sgl"]
          /\ UNCHANGED cpc /\ cpc[t] = "body"
      BY <1>10 DEF PRenewLocked, RenewLocked, Goto
    <2>3. UNCHANGED <<rcv, size, scan, waiting, jump, oldVal, success, logVars, flushed,
                      lastSafe>>
      BY <1>10 DEF PRenewLocked
    <2> QED
      BY <2>1, <2>2, <2>3
  <1>11. ASSUME NEW t \in Threads, Stamp(t) PROVE Timestamps'
    BY <1>11 DEF Stamp, Phase
  <1>12. ASSUME NEW t \in Threads, PCommit(t) PROVE Timestamps'
    BY <1>12 DEF PCommit, CommitHtm, Release, Goto, Phase
  <1>13. ASSUME NEW t \in Threads, Announce(t) PROVE Timestamps'
    <2>1. /\ ts'[t].v = rcv[t] /\ ts'[t].done = FALSE
          /\ \A u \in Threads \ {t} : ts'[u] = ts[u]
      BY <1>13, SetTsAt DEF Announce, TsTypes
    <2>2. cpc[t] = "announce" /\ cpc' = [cpc EXCEPT ![t] = "update"]
      BY <1>13 DEF Announce, Phase
    <2>3. UNCHANGED <<htmVars, threadVars, logVars, clock, isUpdate, flushed, lastSafe>>
      BY <1>13 DEF Announce
    <2> QED
      BY <2>1, <2>2, <2>3
  <1>14. ASSUME NEW t \in Threads, ReadOnly(t) PROVE Timestamps'
    <2>1. /\ ts'[t].v = rcv[t] /\ ts'[t].done = TRUE
          /\ \A u \in Threads \ {t} : ts'[u] = ts[u]
      BY <1>14, SetTsAt DEF ReadOnly, TsTypes
    <2>2. cpc[t] = "update" /\ cpc' = [cpc EXCEPT ![t] = "idle"]
      BY <1>14 DEF ReadOnly, Phase
    <2>3. UNCHANGED <<htmVars, threadVars, logVars, clock, isUpdate, flushed, lastSafe>>
      BY <1>14 DEF ReadOnly
    <2> QED
      BY <2>1, <2>2, <2>3
  <1>15. ASSUME NEW t \in Threads, MarkUpdate(t) PROVE Timestamps'
    BY <1>15 DEF MarkUpdate, Phase
  <1>16. ASSUME NEW t \in Threads, FlushEntries(t) PROVE Timestamps'
    BY <1>16 DEF FlushEntries, Phase
  <1>17. ASSUME NEW t \in Threads, WriteMarker(t) PROVE Timestamps'
    BY <1>17 DEF WriteMarker, Phase
  <1>18. ASSUME NEW t \in Threads, Flush(t) PROVE Timestamps'
    <2>1. /\ ts'[t].v = rcv[t] /\ ts'[t].done = TRUE
          /\ \A u \in Threads \ {t} : ts'[u] = ts[u]
      <3>1. ts \in TsTypes
        BY DEF TsTypes
      <3>2. SetTs(t, rcv[t], TRUE)
        BY <1>18 DEF Flush
      <3> QED
        BY <3>1, <3>2, SetTsAt
    <2>2. cpc[t] = "flush" /\ cpc' = [cpc EXCEPT ![t] = "scan"]
      BY <1>18 DEF Flush, Phase
    <2>3. UNCHANGED <<htmVars, rcv, size, clock>>
      BY <1>18 DEF Flush
    <2> QED
      BY <2>1, <2>2, <2>3
  <1>19. ASSUME NEW t \in Threads, ScanTs(t) PROVE Timestamps'
    BY <1>19 DEF ScanTs, Phase, AfterScan
  <1>20. ASSUME NEW t \in Threads, ScanUpdate(t) PROVE Timestamps'
    BY <1>20 DEF ScanUpdate, Phase, AfterScan
  <1>21. ASSUME NEW t \in Threads, NEW i \in Threads, WaitFor(t, i) PROVE Timestamps'
    BY <1>21 DEF WaitFor
  <1>22. ASSUME NEW t \in Threads, EndWait(t) PROVE Timestamps'
    BY <1>22 DEF EndWait, Phase
  <1>23. ASSUME NEW t \in Threads, ReadSafe(t) PROVE Timestamps'
    BY <1>23 DEF ReadSafe, Phase
  <1>24. ASSUME NEW t \in Threads, LoopTest(t) PROVE Timestamps'
    BY <1>24 DEF LoopTest, Phase
  <1>25. ASSUME NEW t \in Threads, Cas(t) PROVE Timestamps'
    BY <1>25 DEF Cas, Phase
  <1>26. ASSUME NEW t \in Threads, FlushSafe(t) PROVE Timestamps'
    BY <1>26 DEF FlushSafe, Phase
  <1>27. ASSUME NEW t \in Threads, Await(t) PROVE Timestamps'
    BY <1>27 DEF Await, Phase
  <1>28. ASSUME NEW t \in Threads, Publish(t) PROVE Timestamps'
    BY <1>28 DEF Publish, Phase
  <1>29. CASE Evict
    BY <1>29 DEF Evict, EvictSafe, EvictMarker, htmVars
  <1>30. CASE Finished
    BY <1>30 DEF Finished, pcwmVars, htmVars
  <1> QED
    BY <1>1, <1>2, <1>3, <1>4, <1>5, <1>6, <1>7, <1>8, <1>9, <1>10, <1>11, <1>12,
       <1>13, <1>14, <1>15, <1>16, <1>17, <1>18, <1>19, <1>20, <1>21, <1>22,
       <1>23, <1>24, <1>25, <1>26, <1>27, <1>28, <1>29, <1>30
    DEF PcwmNext, TemplateStep, CommitStep

(* A thread seen as flushed or newer is so for good.                       *)
LEMMA ClearedStep ==
  ASSUME PcwmTypeOK, PcwmTypeOK', PlacesAgree, Timestamps, NEW w \in Threads, NEW u \in Threads,
         w # u, cpc[w] \in Waiting \cup Marking, Cleared(w, u), PcwmNext
  PROVE  Cleared(w, u)'
  <1> USE HtmAssumption, PcwmAssumption DEF PcwmTypeOK, HtmTypeOK, PlacesAgree,
         Closing, Waiting, Marking, threadVars, sharedVars, logVars, htmVars,
         Word, Invalid, Timestamps, Cleared, Larger
  <1>1. ASSUME NEW t \in Threads, PEnter(t) PROVE Cleared(w, u)'
    <2>1. /\ hpc' = [hpc EXCEPT ![t] = "top"] /\ cpc' = [cpc EXCEPT ![t] = "body"]
          /\ cpc[t] = "idle"
      BY <1>1 DEF PEnter, Enter, Goto, Phase
    <2>2. UNCHANGED <<threadVars, logVars, clock, ts, flushed, lastSafe>>
      BY <1>1 DEF PEnter
    <2> QED
      BY <2>1, <2>2
  <1>2. ASSUME NEW t \in Threads, PCheckFree(t) PROVE Cleared(w, u)'
    BY <1>2 DEF PCheckFree, CheckFree, Goto
  <1>3. ASSUME NEW t \in Threads, PCheckTaken(t) PROVE Cleared(w, u)'
    BY <1>3 DEF PCheckTaken, CheckTaken, Goto, ResetTs
  <1>4. ASSUME NEW t \in Threads, PUnblock(t) PROVE Cleared(w, u)'
    BY <1>4 DEF PUnblock, Unblock, Goto
  <1>5. ASSUME NEW t \in Threads, PRenew(t) PROVE Cleared(w, u)'
    <2>1. /\ hpc' = [hpc EXCEPT ![t] = "begin"]
          /\ UNCHANGED cpc /\ cpc[t] = "body"
      BY <1>5 DEF PRenew, Renew, Goto
    <2>2. /\ clock' = clock + 1
          /\ ts'[t].v = clock + 1 /\ ~ ts'[t].done
          /\ \A o \in Threads \ {t} : ts'[o] = ts[o]
          /\ UNCHANGED <<rcv, size, scan, waiting, jump, oldVal, success, hist, marked,
                         entries, durable, pLastSafe, acked, flushed, lastSafe>>
      BY <1>5, RenewFrame
    <2> QED
      BY <2>1, <2>2
  <1>6. ASSUME NEW t \in Threads, PSubscribe(t) PROVE Cleared(w, u)'
    BY <1>6 DEF PSubscribe, Subscribe, Goto
  <1>7. ASSUME NEW t \in Threads, PAborts(t) PROVE Cleared(w, u)'
    <2>1. /\ hpc' = [hpc EXCEPT ![t] = "top"]
          /\ cpc[t] \in {"body", "stamped"} /\ cpc' = [cpc EXCEPT ![t] = "body"]
      BY <1>7 DEF PAborts, AbortTaken, Abort, AbortFault, Retry
    <2>2. /\ clock' = clock + 1
          /\ ts'[t].v = clock + 1 /\ ~ ts'[t].done
          /\ \A o \in Threads \ {t} : ts'[o] = ts[o]
          /\ UNCHANGED <<rcv, size, scan, waiting, jump, oldVal, success, hist, marked,
                         entries, durable, pLastSafe, acked, flushed, lastSafe>>
      BY <1>7, RenewFrame
    <2> QED
      BY <2>1, <2>2
  <1>8. ASSUME NEW t \in Threads, PFallback(t) PROVE Cleared(w, u)'
    BY <1>8 DEF PFallback, Fallback, Goto, ResetTs
  <1>9. ASSUME NEW t \in Threads, PAcquire(t) PROVE Cleared(w, u)'
    BY <1>9 DEF PAcquire, Acquire
  <1>10. ASSUME NEW t \in Threads, PRenewLocked(t) PROVE Cleared(w, u)'
    <2>1. /\ hpc' = [hpc EXCEPT ![t] = "sgl"]
          /\ UNCHANGED cpc /\ cpc[t] = "body"
      BY <1>10 DEF PRenewLocked, RenewLocked, Goto
    <2>2. /\ clock' = clock + 1
          /\ ts'[t].v = clock + 1 /\ ~ ts'[t].done
          /\ \A o \in Threads \ {t} : ts'[o] = ts[o]
          /\ UNCHANGED <<rcv, size, scan, waiting, jump, oldVal, success, hist, marked,
                         entries, durable, pLastSafe, acked, flushed, lastSafe>>
      BY <1>10, RenewFrame
    <2> QED
      BY <2>1, <2>2
  <1>11. ASSUME NEW t \in Threads, Stamp(t) PROVE Cleared(w, u)'
    BY <1>11 DEF Stamp, Phase
  <1>12. ASSUME NEW t \in Threads, PCommit(t) PROVE Cleared(w, u)'
    BY <1>12 DEF PCommit, CommitHtm, Release, Goto, Phase
  <1>13. ASSUME NEW t \in Threads, Announce(t) PROVE Cleared(w, u)'
    <2>1. SetTs(t, rcv[t], FALSE)
      BY <1>13 DEF Announce
    <2>2. /\ cpc[t] = "announce" /\ cpc' = [cpc EXCEPT ![t] = "update"]
          /\ UNCHANGED <<hpc, rcv, size, need, oldVal, success, clock, flushed, lastSafe,
                         hist, marked, entries, pLastSafe, acked>>
          /\ UNCHANGED <<scan, waiting, durable>>
      BY <1>13 DEF Announce, Phase
    <2>3. /\ ts'[t].v = rcv[t] /\ ts'[t].done = FALSE
          /\ \A v \in Threads \ {t} : ts'[v] = ts[v]
      BY <2>1, StoreFrame
    <2>4. /\ ~ ts[t].done /\ ts[t].v <= rcv[t]
          /\ ts[t].v \in Int /\ \A v \in Threads : rcv[v] \in Int
      BY <2>2
    <2> QED
      BY <2>2, <2>3, <2>4
  <1>14. ASSUME NEW t \in Threads, ReadOnly(t) PROVE Cleared(w, u)'
    <2>1. SetTs(t, rcv[t], TRUE)
      BY <1>14 DEF ReadOnly
    <2>2. /\ cpc[t] = "update" /\ cpc' = [cpc EXCEPT ![t] = "idle"]
          /\ UNCHANGED <<hpc, rcv, size, need, oldVal, success, clock, flushed, lastSafe,
                         hist, marked, entries, pLastSafe, acked>>
          /\ UNCHANGED <<scan, waiting, durable>>
          /\ size[t] = 0
      BY <1>14 DEF ReadOnly, Phase
    <2>3. /\ ts'[t].v = rcv[t] /\ ts'[t].done = TRUE
          /\ \A v \in Threads \ {t} : ts'[v] = ts[v]
      BY <2>1, StoreFrame
    <2> QED
      BY <2>2, <2>3
  <1>15. ASSUME NEW t \in Threads, MarkUpdate(t) PROVE Cleared(w, u)'
    BY <1>15 DEF MarkUpdate, Phase
  <1>16. ASSUME NEW t \in Threads, FlushEntries(t) PROVE Cleared(w, u)'
    BY <1>16 DEF FlushEntries, Phase
  <1>17. ASSUME NEW t \in Threads, WriteMarker(t) PROVE Cleared(w, u)'
    BY <1>17 DEF WriteMarker, Phase
  <1>18. ASSUME NEW t \in Threads, Flush(t) PROVE Cleared(w, u)'
    <2>1. SetTs(t, rcv[t], TRUE)
      BY <1>18 DEF Flush
    <2>2. /\ cpc[t] = "flush" /\ cpc' = [cpc EXCEPT ![t] = "scan"]
          /\ UNCHANGED <<hpc, rcv, size, need, oldVal, success, clock, flushed, lastSafe,
                         hist, marked, entries, pLastSafe, acked>>
          /\ scan'[t] = 0
          /\ \A o \in Threads \ {t} : scan'[o] = scan[o] /\ waiting'[o] = waiting[o]
          /\ durable \subseteq durable'
          /\ size[t] = 2 => MyTx(t) \in durable'
      BY <1>18 DEF Flush, Phase
    <2>3. /\ ts'[t].v = rcv[t] /\ ts'[t].done = TRUE
          /\ \A v \in Threads \ {t} : ts'[v] = ts[v]
      BY <2>1, StoreFrame
    <2> QED
      BY <2>2, <2>3
  <1>19. ASSUME NEW t \in Threads, ScanTs(t) PROVE Cleared(w, u)'
    BY <1>19 DEF ScanTs, Phase, AfterScan
  <1>20. ASSUME NEW t \in Threads, ScanUpdate(t) PROVE Cleared(w, u)'
    BY <1>20 DEF ScanUpdate, Phase, AfterScan
  <1>21. ASSUME NEW t \in Threads, NEW i \in Threads, WaitFor(t, i) PROVE Cleared(w, u)'
    BY <1>21 DEF WaitFor
  <1>22. ASSUME NEW t \in Threads, EndWait(t) PROVE Cleared(w, u)'
    BY <1>22 DEF EndWait, Phase
  <1>23. ASSUME NEW t \in Threads, ReadSafe(t) PROVE Cleared(w, u)'
    BY <1>23 DEF ReadSafe, Phase
  <1>24. ASSUME NEW t \in Threads, LoopTest(t) PROVE Cleared(w, u)'
    BY <1>24 DEF LoopTest, Phase
  <1>25. ASSUME NEW t \in Threads, Cas(t) PROVE Cleared(w, u)'
    BY <1>25 DEF Cas, Phase
  <1>26. ASSUME NEW t \in Threads, FlushSafe(t) PROVE Cleared(w, u)'
    BY <1>26 DEF FlushSafe, Phase
  <1>27. ASSUME NEW t \in Threads, Await(t) PROVE Cleared(w, u)'
    BY <1>27 DEF Await, Phase
  <1>28. ASSUME NEW t \in Threads, Publish(t) PROVE Cleared(w, u)'
    BY <1>28 DEF Publish, Phase
  <1>29. CASE Evict
    BY <1>29 DEF Evict, EvictSafe, EvictMarker, htmVars
  <1>30. CASE Finished
    BY <1>30 DEF Finished, pcwmVars, htmVars
  <1> QED
    BY <1>1, <1>2, <1>3, <1>4, <1>5, <1>6, <1>7, <1>8, <1>9, <1>10, <1>11, <1>12,
       <1>13, <1>14, <1>15, <1>16, <1>17, <1>18, <1>19, <1>20, <1>21, <1>22,
       <1>23, <1>24, <1>25, <1>26, <1>27, <1>28, <1>29, <1>30
    DEF PcwmNext, TemplateStep, CommitStep

(* What a waiting thread knows of the others follows its scan.             *)
LEMMA WaitsMove ==
  ASSUME PcwmTypeOK, PcwmTypeOK', HtmInv, PlacesAgree, Waits,
         \A w, u \in Threads :
            w # u /\ cpc[w] \in Waiting \cup Marking /\ Cleared(w, u) => Cleared(w, u)', PcwmNext
  PROVE  Waits'
  <1> USE HtmAssumption, PcwmAssumption DEF PcwmTypeOK, HtmTypeOK, PlacesAgree,
         Closing, Waiting, Marking, threadVars, sharedVars, logVars, htmVars,
         Waits
  <1>1. ASSUME NEW t \in Threads, PEnter(t) PROVE Waits'
    <2>1. /\ hpc' = [hpc EXCEPT ![t] = "top"] /\ cpc' = [cpc EXCEPT ![t] = "body"]
          /\ cpc[t] = "idle"
      BY <1>1 DEF PEnter, Enter, Goto, Phase
    <2>2. UNCHANGED <<threadVars, logVars, clock, ts, flushed, lastSafe>>
      BY <1>1 DEF PEnter
    <2> QED
      BY <2>1, <2>2
  <1>2. ASSUME NEW t \in Threads, PCheckFree(t) PROVE Waits'
    BY <1>2 DEF PCheckFree, CheckFree, Goto
  <1>3. ASSUME NEW t \in Threads, PCheckTaken(t) PROVE Waits'
    BY <1>3 DEF PCheckTaken, CheckTaken, Goto, ResetTs
  <1>4. ASSUME NEW t \in Threads, PUnblock(t) PROVE Waits'
    BY <1>4 DEF PUnblock, Unblock, Goto
  <1>5. ASSUME NEW t \in Threads, PRenew(t) PROVE Waits'
    <2>1. /\ hpc' = [hpc EXCEPT ![t] = "begin"]
          /\ UNCHANGED cpc /\ cpc[t] = "body"
      BY <1>5 DEF PRenew, Renew, Goto
    <2>2. /\ clock' = clock + 1
          /\ ts'[t].v = clock + 1 /\ ~ ts'[t].done
          /\ \A u \in Threads \ {t} : ts'[u] = ts[u]
          /\ UNCHANGED <<rcv, size, scan, waiting, jump, oldVal, success, hist, marked,
                         entries, durable, pLastSafe, acked, flushed, lastSafe>>
      BY <1>5, RenewFrame
    <2> QED
      BY <2>1, <2>2
  <1>6. ASSUME NEW t \in Threads, PSubscribe(t) PROVE Waits'
    BY <1>6 DEF PSubscribe, Subscribe, Goto
  <1>7. ASSUME NEW t \in Threads, PAborts(t) PROVE Waits'
    <2>1. /\ hpc' = [hpc EXCEPT ![t] = "top"]
          /\ cpc[t] \in {"body", "stamped"} /\ cpc' = [cpc EXCEPT ![t] = "body"]
      BY <1>7 DEF PAborts, AbortTaken, Abort, AbortFault, Retry
    <2>2. /\ clock' = clock + 1
          /\ ts'[t].v = clock + 1 /\ ~ ts'[t].done
          /\ \A u \in Threads \ {t} : ts'[u] = ts[u]
          /\ UNCHANGED <<rcv, size, scan, waiting, jump, oldVal, success, hist, marked,
                         entries, durable, pLastSafe, acked, flushed, lastSafe>>
      BY <1>7, RenewFrame
    <2> QED
      BY <2>1, <2>2
  <1>8. ASSUME NEW t \in Threads, PFallback(t) PROVE Waits'
    BY <1>8 DEF PFallback, Fallback, Goto, ResetTs
  <1>9. ASSUME NEW t \in Threads, PAcquire(t) PROVE Waits'
    BY <1>9 DEF PAcquire, Acquire
  <1>10. ASSUME NEW t \in Threads, PRenewLocked(t) PROVE Waits'
    <2>1. /\ hpc' = [hpc EXCEPT ![t] = "sgl"]
          /\ UNCHANGED cpc /\ cpc[t] = "body"
      BY <1>10 DEF PRenewLocked, RenewLocked, Goto
    <2>2. /\ clock' = clock + 1
          /\ ts'[t].v = clock + 1 /\ ~ ts'[t].done
          /\ \A u \in Threads \ {t} : ts'[u] = ts[u]
          /\ UNCHANGED <<rcv, size, scan, waiting, jump, oldVal, success, hist, marked,
                         entries, durable, pLastSafe, acked, flushed, lastSafe>>
      BY <1>10, RenewFrame
    <2> QED
      BY <2>1, <2>2
  <1>11. ASSUME NEW t \in Threads, Stamp(t) PROVE Waits'
    BY <1>11 DEF Stamp, Phase
  <1>12. ASSUME NEW t \in Threads, PCommit(t) PROVE Waits'
    BY <1>12 DEF PCommit, CommitHtm, Release, Goto, Phase
  <1>13. ASSUME NEW t \in Threads, Announce(t) PROVE Waits'
    <2>1. SetTs(t, rcv[t], FALSE)
      BY <1>13 DEF Announce
    <2>2. /\ cpc[t] = "announce" /\ cpc' = [cpc EXCEPT ![t] = "update"]
          /\ UNCHANGED <<hpc, rcv, size, need, oldVal, success, clock, flushed, lastSafe,
                         hist, marked, entries, pLastSafe, acked>>
          /\ UNCHANGED <<scan, waiting, durable>>
      BY <1>13 DEF Announce, Phase
    <2>3. /\ ts'[t].v = rcv[t] /\ ts'[t].done = FALSE
          /\ \A v \in Threads \ {t} : ts'[v] = ts[v]
      BY <2>1, StoreFrame
    <2> QED
      BY <2>2, <2>3
  <1>14. ASSUME NEW t \in Threads, ReadOnly(t) PROVE Waits'
    <2>1. SetTs(t, rcv[t], TRUE)
      BY <1>14 DEF ReadOnly
    <2>2. /\ cpc[t] = "update" /\ cpc' = [cpc EXCEPT ![t] = "idle"]
          /\ UNCHANGED <<hpc, rcv, size, need, oldVal, success, clock, flushed, lastSafe,
                         hist, marked, entries, pLastSafe, acked>>
          /\ UNCHANGED <<scan, waiting, durable>>
          /\ size[t] = 0
      BY <1>14 DEF ReadOnly, Phase
    <2>3. /\ ts'[t].v = rcv[t] /\ ts'[t].done = TRUE
          /\ \A v \in Threads \ {t} : ts'[v] = ts[v]
      BY <2>1, StoreFrame
    <2> QED
      BY <2>2, <2>3
  <1>15. ASSUME NEW t \in Threads, MarkUpdate(t) PROVE Waits'
    BY <1>15 DEF MarkUpdate, Phase
  <1>16. ASSUME NEW t \in Threads, FlushEntries(t) PROVE Waits'
    BY <1>16 DEF FlushEntries, Phase
  <1>17. ASSUME NEW t \in Threads, WriteMarker(t) PROVE Waits'
    BY <1>17 DEF WriteMarker, Phase
  <1>18. ASSUME NEW t \in Threads, Flush(t) PROVE Waits'
    <2>1. SetTs(t, rcv[t], TRUE)
      BY <1>18 DEF Flush
    <2>2. /\ cpc[t] = "flush" /\ cpc' = [cpc EXCEPT ![t] = "scan"]
          /\ UNCHANGED <<hpc, rcv, size, need, oldVal, success, clock, flushed, lastSafe,
                         hist, marked, entries, pLastSafe, acked>>
          /\ scan'[t] = 0
          /\ \A o \in Threads \ {t} : scan'[o] = scan[o] /\ waiting'[o] = waiting[o]
          /\ durable \subseteq durable'
          /\ size[t] = 2 => MyTx(t) \in durable'
      BY <1>18 DEF Flush, Phase
    <2>3. /\ ts'[t].v = rcv[t] /\ ts'[t].done = TRUE
          /\ \A v \in Threads \ {t} : ts'[v] = ts[v]
      BY <2>1, StoreFrame
    <2> QED
      BY <2>2, <2>3, ThreadOrder
  <1>19. ASSUME NEW t \in Threads, ScanTs(t) PROVE Waits'
    <2> DEFINE i == scan[t]
    <2>0. cpc[t] = "scan" /\ i \in 0 .. N /\ i < N
      BY <1>19 DEF ScanTs
    <2>1. i \in Threads
      BY <2>0, ThreadNumber
    <2>2. \A s \in Threads \ {t} : /\ cpc'[s] = cpc[s] /\ scan'[s] = scan[s]
                                   /\ waiting'[s] = waiting[s]
      BY <1>19 DEF ScanTs, Phase
    <2>3. /\ waiting[t] \subseteq waiting'[t]
          /\ i # t /\ Older(t, i) => i \in waiting'[t]
      BY <1>19 DEF ScanTs
    <2>4. CASE i # t /\ Larger(ts[i].v, rcv[t], i, t)
      <3>1. cpc'[t] = "isupd" /\ scan'[t] = i /\ Cleared(t, i)
        BY <1>19, <2>4 DEF ScanTs, Phase, Cleared
      <3>2. Cleared(t, i)'
        BY <2>0, <2>1, <2>4, <3>1
      <3>3. \A u \in Threads \ {t} : u < i => u \in waiting'[t] \/ Cleared(t, u)'
        BY <2>0, <2>1, <2>3
      <3> QED
        BY <2>0, <2>1, <2>2, <3>1, <3>2, <3>3
    <2>5. CASE ~ (i # t /\ Larger(ts[i].v, rcv[t], i, t))
      <3>1. i # t => i \in waiting'[t] \/ Cleared(t, i)
        BY <2>3, <2>5 DEF Older, Cleared
      <3>2. /\ scan'[t] = i + 1 /\ cpc'[t] \in {"scan", "wait"}
            /\ cpc'[t] = "wait" => i + 1 = N
        BY <1>19, <2>5 DEF ScanTs, Phase, AfterScan
      <3>3. \A u \in Threads \ {t} : u < i => u \in waiting'[t] \/ Cleared(t, u)'
        BY <2>0, <2>1, <2>3
      <3>4. \A u \in Threads \ {t} : u < i + 1 => u \in waiting'[t] \/ Cleared(t, u)'
        BY <2>0, <2>1, <3>1, <3>3, ThreadOrder
      <3> QED
        BY <2>0, <2>1, <2>2, <3>2, <3>4, ThreadOrder
    <2> QED
      BY <2>4, <2>5
  <1>20. ASSUME NEW t \in Threads, ScanUpdate(t) PROVE Waits'
    <2> DEFINE i == scan[t]
    <2>0. cpc[t] = "isupd" /\ i \in 0 .. N /\ i < N
      BY <1>20 DEF ScanUpdate, Phase
    <2>1. i \in Threads
      BY <2>0, ThreadNumber
    <2>2. /\ \A s \in Threads \ {t} : cpc'[s] = cpc[s] /\ scan'[s] = scan[s]
          /\ waiting' = waiting
          /\ scan'[t] = i + 1 /\ cpc'[t] \in {"scan", "wait"}
          /\ cpc'[t] = "wait" => i + 1 = N
      BY <1>20 DEF ScanUpdate, Phase, AfterScan
    <2>3. \A u \in Threads \ {t} : u < i \/ u = i => u \in waiting'[t] \/ Cleared(t, u)'
      BY <2>0, <2>1, <2>2
    <2> QED
      BY <2>0, <2>1, <2>2, <2>3, ThreadOrder
  <1>21. ASSUME NEW t \in Threads, NEW i \in Threads, WaitFor(t, i) PROVE Waits'
    <2>1. /\ cpc[t] = "wait" /\ UNCHANGED <<cpc, scan>>
          /\ i # t => Cleared(t, i)
          /\ waiting'[t] = waiting[t] \ {i}
          /\ \A s \in Threads \ {t} : waiting'[s] = waiting[s]
      BY <1>21 DEF WaitFor, Older, Cleared
    <2> QED
      BY <2>1
  <1>22. ASSUME NEW t \in Threads, EndWait(t) PROVE Waits'
    BY <1>22 DEF EndWait, Phase
  <1>23. ASSUME NEW t \in Threads, ReadSafe(t) PROVE Waits'
    BY <1>23 DEF ReadSafe, Phase
  <1>24. ASSUME NEW t \in Threads, LoopTest(t) PROVE Waits'
    BY <1>24 DEF LoopTest, Phase
  <1>25. ASSUME NEW t \in Threads, Cas(t) PROVE Waits'
    BY <1>25 DEF Cas, Phase
  <1>26. ASSUME NEW t \in Threads, FlushSafe(t) PROVE Waits'
    BY <1>26 DEF FlushSafe, Phase
  <1>27. ASSUME NEW t \in Threads, Await(t) PROVE Waits'
    BY <1>27 DEF Await, Phase
  <1>28. ASSUME NEW t \in Threads, Publish(t) PROVE Waits'
    BY <1>28 DEF Publish, Phase
  <1>29. CASE Evict
    BY <1>29 DEF Evict, EvictSafe, EvictMarker, htmVars
  <1>30. CASE Finished
    BY <1>30 DEF Finished, pcwmVars, htmVars
  <1> QED
    BY <1>1, <1>2, <1>3, <1>4, <1>5, <1>6, <1>7, <1>8, <1>9, <1>10, <1>11, <1>12,
       <1>13, <1>14, <1>15, <1>16, <1>17, <1>18, <1>19, <1>20, <1>21, <1>22,
       <1>23, <1>24, <1>25, <1>26, <1>27, <1>28, <1>29, <1>30
    DEF PcwmNext, TemplateStep, CommitStep

LEMMA WaitsStep ==
  ASSUME PcwmTypeOK, PcwmTypeOK', HtmInv, PlacesAgree, Timestamps, Waits, PcwmNext
  PROVE  Waits'
  BY ClearedStep, WaitsMove

(* P_last_safe_ts, its persistent copy and what threads know of them.      *)
LEMMA MarkerStep ==
  ASSUME PcwmTypeOK, PcwmTypeOK', HtmInv, PlacesAgree, Timestamps, Waits, Marker, PcwmNext
  PROVE  Marker'
  <1> USE HtmAssumption, PcwmAssumption DEF PcwmTypeOK, HtmTypeOK, PlacesAgree,
         Closing, Waiting, Marking, threadVars, sharedVars, logVars, htmVars,
         Word, Invalid, Timestamps, Marker
  <1>1. ASSUME NEW t \in Threads, PEnter(t) PROVE Marker'
    <2>1. /\ hpc' = [hpc EXCEPT ![t] = "top"] /\ cpc' = [cpc EXCEPT ![t] = "body"]
          /\ cpc[t] = "idle"
      BY <1>1 DEF PEnter, Enter, Goto, Phase
    <2>2. UNCHANGED <<threadVars, logVars, clock, ts, flushed, lastSafe>>
      BY <1>1 DEF PEnter
    <2>3. \A s \in Threads \ {t} : cpc'[s] = cpc[s]
      BY <2>1
    <2>4. cpc'[t] = "body"
      BY <2>1
    <2> HIDE DEF PcwmTypeOK, HtmTypeOK, PlacesAgree, Timestamps
    <2> QED
      BY <2>2, <2>3, <2>4
  <1>2. ASSUME NEW t \in Threads, PCheckFree(t) PROVE Marker'
    BY <1>2 DEF PCheckFree, CheckFree, Goto
  <1>3. ASSUME NEW t \in Threads, PCheckTaken(t) PROVE Marker'
    BY <1>3 DEF PCheckTaken, CheckTaken, Goto, ResetTs
  <1>4. ASSUME NEW t \in Threads, PUnblock(t) PROVE Marker'
    BY <1>4 DEF PUnblock, Unblock, Goto
  <1>5. ASSUME NEW t \in Threads, PRenew(t) PROVE Marker'
    <2>1. /\ hpc' = [hpc EXCEPT ![t] = "begin"]
          /\ UNCHANGED cpc /\ cpc[t] = "body"
      BY <1>5 DEF PRenew, Renew, Goto
    <2>2. /\ clock' = clock + 1
          /\ ts'[t].v = clock + 1 /\ ~ ts'[t].done
          /\ \A u \in Threads \ {t} : ts'[u] = ts[u]
          /\ UNCHANGED <<rcv, size, scan, waiting, jump, oldVal, success, hist, marked,
                         entries, durable, pLastSafe, acked, flushed, lastSafe>>
      BY <1>5, RenewFrame
    <2>3. clock \in Int /\ lastSafe \in Int
      OBVIOUS
    <2> HIDE DEF PcwmTypeOK, HtmTypeOK, PlacesAgree, Timestamps
    <2> QED
      BY <2>1, <2>2, <2>3
  <1>6. ASSUME NEW t \in Threads, PSubscribe(t) PROVE Marker'
    BY <1>6 DEF PSubscribe, Subscribe, Goto
  <1>7. ASSUME NEW t \in Threads, PAborts(t) PROVE Marker'
    <2>1. /\ hpc' = [hpc EXCEPT ![t] = "top"]
          /\ cpc[t] \in {"body", "stamped"} /\ cpc' = [cpc EXCEPT ![t] = "body"]
      BY <1>7 DEF PAborts, AbortTaken, Abort, AbortFault, Retry
    <2>2. /\ clock' = clock + 1
          /\ ts'[t].v = clock + 1 /\ ~ ts'[t].done
          /\ \A u \in Threads \ {t} : ts'[u] = ts[u]
          /\ UNCHANGED <<rcv, size, scan, waiting, jump, oldVal, success, hist, marked,
                         entries, durable, pLastSafe, acked, flushed, lastSafe>>
      BY <1>7, RenewFrame
    <2>3. clock \in Int /\ lastSafe \in Int
      OBVIOUS
    <2> HIDE DEF PcwmTypeOK, HtmTypeOK, PlacesAgree, Timestamps
    <2> QED
      BY <2>1, <2>2, <2>3
  <1>8. ASSUME NEW t \in Threads, PFallback(t) PROVE Marker'
    BY <1>8 DEF PFallback, Fallback, Goto, ResetTs
  <1>9. ASSUME NEW t \in Threads, PAcquire(t) PROVE Marker'
    BY <1>9 DEF PAcquire, Acquire
  <1>10. ASSUME NEW t \in Threads, PRenewLocked(t) PROVE Marker'
    <2>1. /\ hpc' = [hpc EXCEPT ![t] = "sgl"]
          /\ UNCHANGED cpc /\ cpc[t] = "body"
      BY <1>10 DEF PRenewLocked, RenewLocked, Goto
    <2>2. /\ clock' = clock + 1
          /\ ts'[t].v = clock + 1 /\ ~ ts'[t].done
          /\ \A u \in Threads \ {t} : ts'[u] = ts[u]
          /\ UNCHANGED <<rcv, size, scan, waiting, jump, oldVal, success, hist, marked,
                         entries, durable, pLastSafe, acked, flushed, lastSafe>>
      BY <1>10, RenewFrame
    <2>3. clock \in Int /\ lastSafe \in Int
      OBVIOUS
    <2> HIDE DEF PcwmTypeOK, HtmTypeOK, PlacesAgree, Timestamps
    <2> QED
      BY <2>1, <2>2, <2>3
  <1>11. ASSUME NEW t \in Threads, Stamp(t) PROVE Marker'
    BY <1>11 DEF Stamp, Phase
  <1>12. ASSUME NEW t \in Threads, PCommit(t) PROVE Marker'
    BY <1>12 DEF PCommit, CommitHtm, Release, Goto, Phase
  <1>13. ASSUME NEW t \in Threads, Announce(t) PROVE Marker'
    <2>1. SetTs(t, rcv[t], FALSE)
      BY <1>13 DEF Announce
    <2>2. /\ cpc[t] = "announce" /\ cpc' = [cpc EXCEPT ![t] = "update"]
          /\ UNCHANGED <<hpc, rcv, size, need, oldVal, success, clock, flushed, lastSafe,
                         hist, marked, entries, pLastSafe, acked>>
          /\ UNCHANGED <<scan, waiting, durable>>
      BY <1>13 DEF Announce, Phase
    <2>3. /\ ts'[t].v = rcv[t] /\ ts'[t].done = FALSE
          /\ \A v \in Threads \ {t} : ts'[v] = ts[v]
      BY <2>1, StoreFrame
    <2>4. /\ ~ ts[t].done /\ ts[t].v <= rcv[t]
          /\ ts[t].v \in Int /\ \A v \in Threads : rcv[v] \in Int
      BY <2>2
    <2> QED
      BY <2>2, <2>3, <2>4
  <1>14. ASSUME NEW t \in Threads, ReadOnly(t) PROVE Marker'
    <2>1. SetTs(t, rcv[t], TRUE)
      BY <1>14 DEF ReadOnly
    <2>2. /\ cpc[t] = "update" /\ cpc' = [cpc EXCEPT ![t] = "idle"]
          /\ UNCHANGED <<hpc, rcv, size, need, oldVal, success, clock, flushed, lastSafe,
                         hist, marked, entries, pLastSafe, acked>>
          /\ UNCHANGED <<scan, waiting, durable>>
          /\ size[t] = 0
      BY <1>14 DEF ReadOnly, Phase
    <2>3. /\ ts'[t].v = rcv[t] /\ ts'[t].done = TRUE
          /\ \A v \in Threads \ {t} : ts'[v] = ts[v]
      BY <2>1, StoreFrame
    <2> QED
      BY <2>2, <2>3
  <1>15. ASSUME NEW t \in Threads, MarkUpdate(t) PROVE Marker'
    BY <1>15 DEF MarkUpdate, Phase
  <1>16. ASSUME NEW t \in Threads, FlushEntries(t) PROVE Marker'
    BY <1>16 DEF FlushEntries, Phase
  <1>17. ASSUME NEW t \in Threads, WriteMarker(t) PROVE Marker'
    BY <1>17 DEF WriteMarker, Phase
  <1>18. ASSUME NEW t \in Threads, Flush(t) PROVE Marker'
    <2>1. SetTs(t, rcv[t], TRUE)
      BY <1>18 DEF Flush
    <2>2. /\ cpc[t] = "flush" /\ cpc' = [cpc EXCEPT ![t] = "scan"]
          /\ UNCHANGED <<hpc, rcv, size, need, oldVal, success, clock, flushed, lastSafe,
                         hist, marked, entries, pLastSafe, acked>>
          /\ scan'[t] = 0
          /\ \A o \in Threads \ {t} : scan'[o] = scan[o] /\ waiting'[o] = waiting[o]
          /\ durable \subseteq durable'
          /\ size[t] = 2 => MyTx(t) \in durable'
      BY <1>18 DEF Flush, Phase
    <2>3. /\ ts'[t].v = rcv[t] /\ ts'[t].done = TRUE
          /\ \A v \in Threads \ {t} : ts'[v] = ts[v]
      BY <2>1, StoreFrame
    <2> QED
      BY <2>2, <2>3
  <1>19. ASSUME NEW t \in Threads, ScanTs(t) PROVE Marker'
    BY <1>19 DEF ScanTs, Phase, AfterScan
  <1>20. ASSUME NEW t \in Threads, ScanUpdate(t) PROVE Marker'
    BY <1>20 DEF ScanUpdate, Phase, AfterScan
  <1>21. ASSUME NEW t \in Threads, NEW i \in Threads, WaitFor(t, i) PROVE Marker'
    BY <1>21 DEF WaitFor
  <1>22. ASSUME NEW t \in Threads, EndWait(t) PROVE Marker'
    BY <1>22 DEF EndWait, Phase
  <1>23. ASSUME NEW t \in Threads, ReadSafe(t) PROVE Marker'
    BY <1>23 DEF ReadSafe, Phase
  <1>24. ASSUME NEW t \in Threads, LoopTest(t) PROVE Marker'
    BY <1>24 DEF LoopTest, Phase
  <1>25. ASSUME NEW t \in Threads, Cas(t) PROVE Marker'
    <2>1. /\ cpc[t] = "cas" /\ cpc' = [cpc EXCEPT ![t] = "loop"]
          /\ UNCHANGED <<ts, rcv, clock, flushed, pLastSafe>>
          /\ oldVal' = [oldVal EXCEPT ![t] = lastSafe]
          /\ lastSafe' = IF lastSafe = oldVal[t] THEN rcv[t] ELSE lastSafe
      BY <1>25 DEF Cas, Phase
    <2>2. lastSafe \in Int /\ rcv[t] \in Int /\ oldVal[t] \in Int /\ pLastSafe \in Int
      OBVIOUS
    <2>3. lastSafe <= lastSafe' /\ lastSafe' \in Int
      BY <2>1, <2>2
    <2>4. ASSUME NEW u \in Threads, ~ ts[u].done PROVE lastSafe' <= ts[u].v
      <3>1. u # t /\ Cleared(t, u)
        BY <2>1, <2>4 DEF Waits
      <3>2. ts[u].v >= rcv[t]
        BY <2>4, <3>1 DEF Cleared, Larger
      <3> QED
        BY <2>1, <2>2, <2>4, <3>2
    <2>5. lastSafe' <= clock
      BY <2>1, <2>2 DEF Timestamps
    <2>6. \A u \in Threads : oldVal'[u] \in Int /\ oldVal[u] \in Int /\ rcv[u] \in Int
      BY <2>2, <2>1
    <2> QED
      BY <2>1, <2>2, <2>3, <2>4, <2>5, <2>6
  <1>26. ASSUME NEW t \in Threads, FlushSafe(t) PROVE Marker'
    BY <1>26 DEF FlushSafe, Phase
  <1>27. ASSUME NEW t \in Threads, Await(t) PROVE Marker'
    BY <1>27 DEF Await, Phase
  <1>28. ASSUME NEW t \in Threads, Publish(t) PROVE Marker'
    BY <1>28 DEF Publish, Phase
  <1>29. CASE Evict
    BY <1>29 DEF Evict, EvictSafe, EvictMarker, htmVars
  <1>30. CASE Finished
    BY <1>30 DEF Finished, pcwmVars, htmVars
  <1> QED
    BY <1>1, <1>2, <1>3, <1>4, <1>5, <1>6, <1>7, <1>8, <1>9, <1>10, <1>11, <1>12,
       <1>13, <1>14, <1>15, <1>16, <1>17, <1>18, <1>19, <1>20, <1>21, <1>22,
       <1>23, <1>24, <1>25, <1>26, <1>27, <1>28, <1>29, <1>30
    DEF PcwmNext, TemplateStep, CommitStep

(* The logs: a longer log that is not durable is being closed.             *)
LEMMA LogsStep ==
  ASSUME PcwmTypeOK, PcwmTypeOK', HtmInv, PlacesAgree, Timestamps, Logs, PcwmNext
  PROVE  Logs'
  <1> USE HtmAssumption, PcwmAssumption DEF PcwmTypeOK, HtmTypeOK, PlacesAgree,
         Closing, Waiting, Marking, threadVars, sharedVars, logVars, htmVars,
         Word, Invalid, Timestamps, Logs, MyTx
  <1>1. ASSUME NEW t \in Threads, PEnter(t) PROVE Logs'
    <2>1. /\ hpc' = [hpc EXCEPT ![t] = "top"] /\ cpc' = [cpc EXCEPT ![t] = "body"]
          /\ cpc[t] = "idle"
      BY <1>1 DEF PEnter, Enter, Goto, Phase
    <2>2. UNCHANGED <<threadVars, logVars, clock, ts, flushed, lastSafe>>
      BY <1>1 DEF PEnter
    <2>5. cpc'[t] = "body" /\ (\A s \in Threads \ {t} : cpc'[s] = cpc[s])
      BY <2>1
    <2>7. \A x \in hist : x \in Tx /\ x.t \in Threads /\ x.v \in Int
      BY DEF Tx
    <2>8. clock \in Int /\ (\A s \in Threads : rcv[s] \in Int)
      OBVIOUS
    <2> HIDE DEF PcwmTypeOK, HtmTypeOK, PlacesAgree, Timestamps
    <2> QED
      BY <2>1, <2>2, <2>5, <2>7, <2>8
  <1>2. ASSUME NEW t \in Threads, PCheckFree(t) PROVE Logs'
    BY <1>2 DEF PCheckFree, CheckFree, Goto
  <1>3. ASSUME NEW t \in Threads, PCheckTaken(t) PROVE Logs'
    BY <1>3 DEF PCheckTaken, CheckTaken, Goto, ResetTs
  <1>4. ASSUME NEW t \in Threads, PUnblock(t) PROVE Logs'
    BY <1>4 DEF PUnblock, Unblock, Goto
  <1>5. ASSUME NEW t \in Threads, PRenew(t) PROVE Logs'
    <2>1. /\ hpc' = [hpc EXCEPT ![t] = "begin"]
          /\ UNCHANGED cpc /\ cpc[t] = "body"
      BY <1>5 DEF PRenew, Renew, Goto
    <2>2. /\ clock' = clock + 1
          /\ ts'[t].v = clock + 1 /\ ~ ts'[t].done
          /\ \A u \in Threads \ {t} : ts'[u] = ts[u]
          /\ UNCHANGED <<rcv, size, scan, waiting, jump, oldVal, success, hist, marked,
                         entries, durable, pLastSafe, acked, flushed, lastSafe>>
      BY <1>5, RenewFrame
    <2>7. \A x \in hist : x \in Tx /\ x.t \in Threads /\ x.v \in Int
      BY DEF Tx
    <2>8. clock \in Int /\ (\A s \in Threads : rcv[s] \in Int)
      OBVIOUS
    <2> HIDE DEF PcwmTypeOK, HtmTypeOK, PlacesAgree, Timestamps
    <2> QED
      BY <2>1, <2>2, <2>7, <2>8
  <1>6. ASSUME NEW t \in Threads, PSubscribe(t) PROVE Logs'
    BY <1>6 DEF PSubscribe, Subscribe, Goto
  <1>7. ASSUME NEW t \in Threads, PAborts(t) PROVE Logs'
    <2>1. /\ hpc' = [hpc EXCEPT ![t] = "top"]
          /\ cpc[t] \in {"body", "stamped"} /\ cpc' = [cpc EXCEPT ![t] = "body"]
      BY <1>7 DEF PAborts, AbortTaken, Abort, AbortFault, Retry
    <2>2. /\ clock' = clock + 1
          /\ ts'[t].v = clock + 1 /\ ~ ts'[t].done
          /\ \A u \in Threads \ {t} : ts'[u] = ts[u]
          /\ UNCHANGED <<rcv, size, scan, waiting, jump, oldVal, success, hist, marked,
                         entries, durable, pLastSafe, acked, flushed, lastSafe>>
      BY <1>7, RenewFrame
    <2>7. \A x \in hist : x \in Tx /\ x.t \in Threads /\ x.v \in Int
      BY DEF Tx
    <2>8. clock \in Int /\ (\A s \in Threads : rcv[s] \in Int)
      OBVIOUS
    <2> HIDE DEF PcwmTypeOK, HtmTypeOK, PlacesAgree, Timestamps
    <2> QED
      BY <2>1, <2>2, <2>7, <2>8
  <1>8. ASSUME NEW t \in Threads, PFallback(t) PROVE Logs'
    BY <1>8 DEF PFallback, Fallback, Goto, ResetTs
  <1>9. ASSUME NEW t \in Threads, PAcquire(t) PROVE Logs'
    <2>1. UNCHANGED <<cpc, clock, ts, rcv, size, hist, marked, entries, durable, acked>>
      BY <1>9 DEF PAcquire
    <2>2. \A u \in Threads : hpc'[u] \in {"begin", "htm", "doomed", "sgl"}
                                => hpc[u] \in {"begin", "htm", "doomed", "sgl"}
      BY <1>9 DEF PAcquire, Acquire
    <2>7. \A x \in hist : x \in Tx /\ x.t \in Threads /\ x.v \in Int
      BY DEF Tx
    <2>8. clock \in Int /\ (\A s \in Threads : rcv[s] \in Int)
      OBVIOUS
    <2> HIDE DEF PcwmTypeOK, HtmTypeOK, PlacesAgree, Timestamps
    <2> QED
      BY <2>1, <2>2, <2>7, <2>8
  <1>10. ASSUME NEW t \in Threads, PRenewLocked(t) PROVE Logs'
    <2>1. /\ hpc' = [hpc EXCEPT ![t] = "sgl"]
          /\ UNCHANGED cpc /\ cpc[t] = "body"
      BY <1>10 DEF PRenewLocked, RenewLocked, Goto
    <2>2. /\ clock' = clock + 1
          /\ ts'[t].v = clock + 1 /\ ~ ts'[t].done
          /\ \A u \in Threads \ {t} : ts'[u] = ts[u]
          /\ UNCHANGED <<rcv, size, scan, waiting, jump, oldVal, success, hist, marked,
                         entries, durable, pLastSafe, acked, flushed, lastSafe>>
      BY <1>10, RenewFrame
    <2>7. \A x \in hist : x \in Tx /\ x.t \in Threads /\ x.v \in Int
      BY DEF Tx
    <2>8. clock \in Int /\ (\A s \in Threads : rcv[s] \in Int)
      OBVIOUS
    <2> HIDE DEF PcwmTypeOK, HtmTypeOK, PlacesAgree, Timestamps
    <2> QED
      BY <2>1, <2>2, <2>7, <2>8
  <1>11. ASSUME NEW t \in Threads, Stamp(t) PROVE Logs'
    <2>1. /\ cpc[t] = "body" /\ cpc'[t] = "stamped" /\ clock <= clock'
          /\ clock \in Int /\ clock' \in Int
          /\ UNCHANGED <<hpc, ts, hist, marked, entries, durable, acked>>
      BY <1>11 DEF Stamp, Phase
    <2>2. \A s \in Threads \ {t} : /\ cpc'[s] = cpc[s]
                                   /\ rcv'[s] = rcv[s] /\ size'[s] = size[s]
      BY <1>11 DEF Stamp, Phase
    <2>7. \A x \in hist : x \in Tx /\ x.t \in Threads /\ x.v \in Int
      BY DEF Tx
    <2>8. clock \in Int /\ (\A s \in Threads : rcv[s] \in Int)
      OBVIOUS
    <2> HIDE DEF PcwmTypeOK, HtmTypeOK, PlacesAgree, Timestamps
    <2> QED
      BY <2>1, <2>2, <2>7, <2>8
  <1>12. ASSUME NEW t \in Threads, PCommit(t) PROVE Logs'
    <2>1. /\ cpc[t] = "stamped" /\ cpc' = [cpc EXCEPT ![t] = "announce"]
          /\ hpc' = [hpc EXCEPT ![t] = "out"]
          /\ UNCHANGED <<clock, ts, rcv, size, marked, entries, durable, acked>>
      BY <1>12 DEF PCommit, CommitHtm, Release, Goto, Phase
    <2>2. /\ hist \subseteq hist' /\ hist' \subseteq hist \cup {MyTx(t)}
          /\ size[t] > 0 => MyTx(t) \in hist'
      BY <1>12 DEF PCommit
    <2>3. /\ MyTx(t).t = t /\ MyTx(t).v = rcv[t] /\ MyTx(t).size = size[t]
          /\ rcv[t] <= clock
      OBVIOUS
    <2>5. /\ cpc'[t] = "announce" /\ (\A s \in Threads \ {t} : cpc'[s] = cpc[s])
          /\ hpc'[t] = "out" /\ (\A s \in Threads \ {t} : hpc'[s] = hpc[s])
      BY <2>1
    <2>6. \A s \in Threads : MyTx(s)' = MyTx(s)
      BY <2>1
    <2> HIDE DEF MyTx
    <2>7. \A x \in hist : x \in Tx /\ x.t \in Threads /\ x.v \in Int
      BY DEF Tx
    <2>8. clock \in Int /\ (\A s \in Threads : rcv[s] \in Int)
      OBVIOUS
    <2> HIDE DEF PcwmTypeOK, HtmTypeOK, PlacesAgree, Timestamps
    <2> QED
      BY <2>1, <2>2, <2>3, <2>5, <2>6, <2>7, <2>8
  <1>13. ASSUME NEW t \in Threads, Announce(t) PROVE Logs'
    <2>1. SetTs(t, rcv[t], FALSE)
      BY <1>13 DEF Announce
    <2>2. /\ cpc[t] = "announce" /\ cpc' = [cpc EXCEPT ![t] = "update"]
          /\ UNCHANGED <<hpc, rcv, size, need, oldVal, success, clock, flushed, lastSafe,
                         hist, marked, entries, pLastSafe, acked>>
          /\ UNCHANGED <<scan, waiting, durable>>
      BY <1>13 DEF Announce, Phase
    <2>3. /\ ts'[t].v = rcv[t] /\ ts'[t].done = FALSE
          /\ \A v \in Threads \ {t} : ts'[v] = ts[v]
      BY <2>1, StoreFrame
    <2>4. /\ ~ ts[t].done /\ ts[t].v <= rcv[t]
          /\ ts[t].v \in Int /\ \A v \in Threads : rcv[v] \in Int
      BY <2>2
    <2>7. \A x \in hist : x \in Tx /\ x.t \in Threads /\ x.v \in Int
      BY DEF Tx
    <2>8. clock \in Int /\ (\A s \in Threads : rcv[s] \in Int)
      OBVIOUS
    <2> HIDE DEF PcwmTypeOK, HtmTypeOK, PlacesAgree, Timestamps
    <2> QED
      BY <2>2, <2>3, <2>4, <2>7, <2>8
  <1>14. ASSUME NEW t \in Threads, ReadOnly(t) PROVE Logs'
    <2>1. SetTs(t, rcv[t], TRUE)
      BY <1>14 DEF ReadOnly
    <2>2. /\ cpc[t] = "update" /\ cpc' = [cpc EXCEPT ![t] = "idle"]
          /\ UNCHANGED <<hpc, rcv, size, need, oldVal, success, clock, flushed, lastSafe,
                         hist, marked, entries, pLastSafe, acked>>
          /\ UNCHANGED <<scan, waiting, durable>>
          /\ size[t] = 0
          /\ hpc[t] = "out"
      BY <1>14 DEF ReadOnly, Phase
    <2>3. /\ ts'[t].v = rcv[t] /\ ts'[t].done = TRUE
          /\ \A v \in Threads \ {t} : ts'[v] = ts[v]
      BY <2>1, StoreFrame
    <2>7. \A x \in hist : x \in Tx /\ x.t \in Threads /\ x.v \in Int
      BY DEF Tx
    <2>8. clock \in Int /\ (\A s \in Threads : rcv[s] \in Int)
      OBVIOUS
    <2> HIDE DEF PcwmTypeOK, HtmTypeOK, PlacesAgree, Timestamps
    <2> QED
      BY <2>2, <2>3, <2>7, <2>8
  <1>15. ASSUME NEW t \in Threads, MarkUpdate(t) PROVE Logs'
    BY <1>15 DEF MarkUpdate, Phase
  <1>16. ASSUME NEW t \in Threads, FlushEntries(t) PROVE Logs'
    BY <1>16 DEF FlushEntries, Phase
  <1>17. ASSUME NEW t \in Threads, WriteMarker(t) PROVE Logs'
    BY <1>17 DEF WriteMarker, Phase
  <1>18. ASSUME NEW t \in Threads, Flush(t) PROVE Logs'
    <2>1. SetTs(t, rcv[t], TRUE)
      BY <1>18 DEF Flush
    <2>2. /\ cpc[t] = "flush" /\ cpc' = [cpc EXCEPT ![t] = "scan"]
          /\ UNCHANGED <<hpc, rcv, size, need, oldVal, success, clock, flushed, lastSafe,
                         hist, marked, entries, pLastSafe, acked>>
          /\ durable \subseteq durable' /\ durable' \subseteq durable \cup {MyTx(t)}
          /\ size[t] = 2 => MyTx(t) \in durable'
          /\ hpc[t] = "out"
      BY <1>18 DEF Flush, Phase
    <2>3. /\ ts'[t].v = rcv[t] /\ ts'[t].done = TRUE
          /\ \A v \in Threads \ {t} : ts'[v] = ts[v]
      BY <2>1, StoreFrame
    <2>4. \A x \in Tx : x.t = t /\ x.v = rcv[t] /\ x.size = size[t] => x = MyTx(t)
      BY DEF Tx
    <2>5. cpc'[t] = "scan" /\ (\A s \in Threads \ {t} : cpc'[s] = cpc[s])
      BY <2>2
    <2>6. \A s \in Threads : MyTx(s)' = MyTx(s)
      BY <2>2
    <2> HIDE DEF MyTx
    <2>7. \A x \in hist : x \in Tx /\ x.t \in Threads /\ x.v \in Int
      BY DEF Tx
    <2>8. clock \in Int /\ (\A s \in Threads : rcv[s] \in Int)
      OBVIOUS
    <2> HIDE DEF PcwmTypeOK, HtmTypeOK, PlacesAgree, Timestamps
    <2> QED
      BY <2>2, <2>3, <2>4, <2>5, <2>6, <2>7, <2>8
  <1>19. ASSUME NEW t \in Threads, ScanTs(t) PROVE Logs'
    <2>1. cpc[t] = "scan" /\ scan[t] \in 0 .. N - 1 /\ scan \in [Threads -> 0 .. N]
      BY <1>19 DEF ScanTs
    <2>2. /\ cpc' = [cpc EXCEPT ![t] = cpc'[t]]
          /\ cpc'[t] \in {"scan", "isupd", "wait"}
          /\ cpc'[t] # "wait" => scan'[t] < N
      BY <1>19, <2>1 DEF ScanTs, Phase, AfterScan
    <2>3. \A u \in Threads \ {t} : cpc'[u] = cpc[u] /\ scan'[u] = scan[u]
      BY <1>19 DEF ScanTs, Phase
    <2>4. UNCHANGED <<hpc, size>>
      BY <1>19 DEF ScanTs
    <2>5. UNCHANGED <<clock, ts, rcv, hist, marked, entries, durable, acked>>
      BY <1>19 DEF ScanTs
    <2>6. /\ cpc[t] = "scan" /\ cpc'[t] \in {"scan", "isupd", "wait"}
          /\ \A s \in Threads \ {t} : cpc'[s] = cpc[s]
      BY <2>1, <2>2, <2>3
    <2>7. \A x \in hist : x \in Tx /\ x.t \in Threads /\ x.v \in Int
      BY DEF Tx
    <2>8. clock \in Int /\ (\A s \in Threads : rcv[s] \in Int)
      OBVIOUS
    <2> HIDE DEF PcwmTypeOK, HtmTypeOK, PlacesAgree, Timestamps
    <2> QED
      BY <2>4, <2>5, <2>6, <2>7, <2>8
  <1>20. ASSUME NEW t \in Threads, ScanUpdate(t) PROVE Logs'
    BY <1>20 DEF ScanUpdate, Phase, AfterScan
  <1>21. ASSUME NEW t \in Threads, NEW i \in Threads, WaitFor(t, i) PROVE Logs'
    BY <1>21 DEF WaitFor
  <1>22. ASSUME NEW t \in Threads, EndWait(t) PROVE Logs'
    BY <1>22 DEF EndWait, Phase
  <1>23. ASSUME NEW t \in Threads, ReadSafe(t) PROVE Logs'
    BY <1>23 DEF ReadSafe, Phase
  <1>24. ASSUME NEW t \in Threads, LoopTest(t) PROVE Logs'
    BY <1>24 DEF LoopTest, Phase
  <1>25. ASSUME NEW t \in Threads, Cas(t) PROVE Logs'
    BY <1>25 DEF Cas, Phase
  <1>26. ASSUME NEW t \in Threads, FlushSafe(t) PROVE Logs'
    BY <1>26 DEF FlushSafe, Phase
  <1>27. ASSUME NEW t \in Threads, Await(t) PROVE Logs'
    BY <1>27 DEF Await, Phase
  <1>28. ASSUME NEW t \in Threads, Publish(t) PROVE Logs'
    BY <1>28 DEF Publish, Phase
  <1>29. CASE Evict
    BY <1>29 DEF Evict, EvictSafe, EvictMarker, htmVars
  <1>30. CASE Finished
    BY <1>30 DEF Finished, pcwmVars, htmVars
  <1> QED
    BY <1>1, <1>2, <1>3, <1>4, <1>5, <1>6, <1>7, <1>8, <1>9, <1>10, <1>11, <1>12,
       <1>13, <1>14, <1>15, <1>16, <1>17, <1>18, <1>19, <1>20, <1>21, <1>22,
       <1>23, <1>24, <1>25, <1>26, <1>27, <1>28, <1>29, <1>30
    DEF PcwmNext, TemplateStep, CommitStep

(* What was acknowledged stays recoverable.                                *)
LEMMA AckedStep ==
  ASSUME PcwmTypeOK, PcwmTypeOK', PlacesAgree, Marker, Logs, AckedSafe, PcwmNext
  PROVE  AckedSafe'
  <1> USE HtmAssumption, PcwmAssumption DEF PcwmTypeOK, HtmTypeOK, PlacesAgree,
         Closing, Waiting, Marking, threadVars, sharedVars, logVars, htmVars,
         Word, Invalid, Marker, Logs, AckedSafe, MyTx
  <1>1. ASSUME NEW t \in Threads, PEnter(t) PROVE AckedSafe'
    BY <1>1 DEF PEnter, Enter, Goto
  <1>2. ASSUME NEW t \in Threads, PCheckFree(t) PROVE AckedSafe'
    BY <1>2 DEF PCheckFree, CheckFree, Goto
  <1>3. ASSUME NEW t \in Threads, PCheckTaken(t) PROVE AckedSafe'
    BY <1>3 DEF PCheckTaken, CheckTaken, Goto, ResetTs
  <1>4. ASSUME NEW t \in Threads, PUnblock(t) PROVE AckedSafe'
    BY <1>4 DEF PUnblock, Unblock, Goto
  <1>5. ASSUME NEW t \in Threads, PRenew(t) PROVE AckedSafe'
    BY <1>5 DEF PRenew, Renew, Goto, RenewTs, SetTs
  <1>6. ASSUME NEW t \in Threads, PSubscribe(t) PROVE AckedSafe'
    BY <1>6 DEF PSubscribe, Subscribe, Goto
  <1>7. ASSUME NEW t \in Threads, PAborts(t) PROVE AckedSafe'
    BY <1>7 DEF PAborts, AbortTaken, Abort, AbortFault, Retry, RenewTs, SetTs
  <1>8. ASSUME NEW t \in Threads, PFallback(t) PROVE AckedSafe'
    BY <1>8 DEF PFallback, Fallback, Goto, ResetTs
  <1>9. ASSUME NEW t \in Threads, PAcquire(t) PROVE AckedSafe'
    BY <1>9 DEF PAcquire, Acquire
  <1>10. ASSUME NEW t \in Threads, PRenewLocked(t) PROVE AckedSafe'
    BY <1>10 DEF PRenewLocked, RenewLocked, Goto, RenewTs, SetTs
  <1>11. ASSUME NEW t \in Threads, Stamp(t) PROVE AckedSafe'
    BY <1>11 DEF Stamp, Phase
  <1>12. ASSUME NEW t \in Threads, PCommit(t) PROVE AckedSafe'
    BY <1>12 DEF PCommit, CommitHtm, Release, Goto, Phase
  <1>13. ASSUME NEW t \in Threads, Announce(t) PROVE AckedSafe'
    BY <1>13 DEF Announce, Phase, SetTs
  <1>14. ASSUME NEW t \in Threads, ReadOnly(t) PROVE AckedSafe'
    BY <1>14 DEF ReadOnly, Phase, SetTs
  <1>15. ASSUME NEW t \in Threads, MarkUpdate(t) PROVE AckedSafe'
    BY <1>15 DEF MarkUpdate, Phase
  <1>16. ASSUME NEW t \in Threads, FlushEntries(t) PROVE AckedSafe'
    BY <1>16 DEF FlushEntries, Phase
  <1>17. ASSUME NEW t \in Threads, WriteMarker(t) PROVE AckedSafe'
    BY <1>17 DEF WriteMarker, Phase
  <1>18. ASSUME NEW t \in Threads, Flush(t) PROVE AckedSafe'
    BY <1>18 DEF Flush, Phase, SetTs
  <1>19. ASSUME NEW t \in Threads, ScanTs(t) PROVE AckedSafe'
    BY <1>19 DEF ScanTs, Phase, AfterScan
  <1>20. ASSUME NEW t \in Threads, ScanUpdate(t) PROVE AckedSafe'
    BY <1>20 DEF ScanUpdate, Phase, AfterScan
  <1>21. ASSUME NEW t \in Threads, NEW i \in Threads, WaitFor(t, i) PROVE AckedSafe'
    BY <1>21 DEF WaitFor
  <1>22. ASSUME NEW t \in Threads, EndWait(t) PROVE AckedSafe'
    BY <1>22 DEF EndWait, Phase
  <1>23. ASSUME NEW t \in Threads, ReadSafe(t) PROVE AckedSafe'
    BY <1>23 DEF ReadSafe, Phase
  <1>24. ASSUME NEW t \in Threads, LoopTest(t) PROVE AckedSafe'
    BY <1>24 DEF LoopTest, Phase
  <1>25. ASSUME NEW t \in Threads, Cas(t) PROVE AckedSafe'
    BY <1>25 DEF Cas, Phase
  <1>26. ASSUME NEW t \in Threads, FlushSafe(t) PROVE AckedSafe'
    <2>1. UNCHANGED <<durable, acked>> /\ pLastSafe <= pLastSafe'
      BY <1>26 DEF FlushSafe
    <2>2. /\ \A x \in acked : x.v \in Int
          /\ pLastSafe \in Int /\ pLastSafe' \in Int
      BY DEF Tx
    <2> HIDE DEF PcwmTypeOK, Marker, Logs, PlacesAgree
    <2> QED
      BY <2>1, <2>2
  <1>27. ASSUME NEW t \in Threads, Await(t) PROVE AckedSafe'
    BY <1>27 DEF Await, Phase
  <1>28. ASSUME NEW t \in Threads, Publish(t) PROVE AckedSafe'
    <2>1. /\ acked' = acked \cup {MyTx(t)} /\ cpc[t] = "publish"
          /\ UNCHANGED <<hist, durable, pLastSafe>>
      BY <1>28 DEF Publish, Phase
    <2>2. /\ MyTx(t) \in hist /\ rcv[t] <= pLastSafe
          /\ MyTx(t).v = rcv[t] /\ MyTx(t).t = t /\ cpc[t] \notin Closing
      BY <2>1
    <2>3. MyTx(t).size = 2 => MyTx(t) \in durable
      <3> HIDE DEF PcwmTypeOK, Marker, PlacesAgree, Closing, MyTx
      <3> QED
        BY <2>2
    <2>4. \A x \in acked' : x \in acked \/ x = MyTx(t)
      BY <2>1
    <2> HIDE DEF PcwmTypeOK, Marker, Logs, PlacesAgree, MyTx
    <2>5. \A x \in acked' : x.size = 2 => x \in durable /\ x.v <= pLastSafe
      BY <2>2, <2>3, <2>4
    <2> QED
      BY <2>1, <2>5
  <1>29. CASE Evict
    <2>1. /\ acked' = acked /\ durable \subseteq durable'
          /\ pLastSafe <= pLastSafe'
      BY <1>29 DEF Evict, EvictSafe, EvictMarker
    <2>2. /\ \A x \in acked : x.v \in Int
          /\ pLastSafe \in Int /\ pLastSafe' \in Int
      BY DEF Tx
    <2> HIDE DEF PcwmTypeOK, Marker, Logs, PlacesAgree
    <2> QED
      BY <2>1, <2>2
  <1>30. CASE Finished
    BY <1>30 DEF Finished, pcwmVars, htmVars
  <1> QED
    BY <1>1, <1>2, <1>3, <1>4, <1>5, <1>6, <1>7, <1>8, <1>9, <1>10, <1>11, <1>12,
       <1>13, <1>14, <1>15, <1>16, <1>17, <1>18, <1>19, <1>20, <1>21, <1>22,
       <1>23, <1>24, <1>25, <1>26, <1>27, <1>28, <1>29, <1>30
    DEF PcwmNext, TemplateStep, CommitStep

-----------------------------------------------------------------------------
LEMMA PcwmInitInv == PcwmInit => PcwmInv
  <1> SUFFICES ASSUME PcwmInit PROVE PcwmInv
    OBVIOUS
  <1>1. PcwmTypeOK /\ HtmInv
    BY InitTypes, HtmInitInv DEF PcwmInit
  <1>2. PlacesAgree
    BY DEF PcwmInit, HtmInit, PlacesAgree, Closing, Waiting, Marking
  <1>3. Timestamps
    BY DEF PcwmInit, HtmInit, Timestamps, Closing, Word
  <1>4. Waits
    BY DEF PcwmInit, Waits
  <1>5. Marker
    BY DEF PcwmInit, Marker, Waiting, Word
  <1>6. Logs /\ AckedSafe
    BY DEF PcwmInit, Logs, AckedSafe, Closing, Waiting, Marking
  <1> QED
    BY <1>1, <1>2, <1>3, <1>4, <1>5, <1>6 DEF PcwmInv

LEMMA PcwmNextInv == PcwmInv /\ PcwmNext => PcwmInv'
  <1> SUFFICES ASSUME PcwmInv, PcwmNext PROVE PcwmInv'
    OBVIOUS
  <1>1. HtmInv' /\ HtmTypeOK'
    BY TemplateInv DEF PcwmInv, HtmInv
  <1>2. PcwmTypeOK'
    BY <1>1, StepTypes DEF PcwmInv
  <1>3. PlacesAgree'
    BY <1>1, PlacesStep DEF PcwmInv
  <1>4. Timestamps'
    BY <1>1, <1>2, TimestampsStep DEF PcwmInv
  <1>5. Waits'
    BY <1>2, WaitsStep DEF PcwmInv
  <1>6. Marker'
    BY <1>2, MarkerStep DEF PcwmInv
  <1>7. Logs'
    BY <1>2, LogsStep DEF PcwmInv
  <1>8. AckedSafe'
    BY <1>2, AckedStep DEF PcwmInv
  <1> QED
    BY <1>1, <1>2, <1>3, <1>4, <1>5, <1>6, <1>7, <1>8 DEF PcwmInv

LEMMA PcwmStutterInv == PcwmInv /\ UNCHANGED pcwmVars => PcwmInv'
  <1> SUFFICES ASSUME PcwmInv, UNCHANGED pcwmVars PROVE PcwmInv'
    OBVIOUS
  <1> USE DEF PcwmInv, pcwmVars, htmVars, threadVars, sharedVars, logVars
  <1>1. PcwmTypeOK'
    BY DEF PcwmTypeOK, HtmTypeOK
  <1>2. HtmInv'
    BY HtmStepInv
  <1>3. PlacesAgree'
    BY DEF PlacesAgree
  <1>4. Timestamps'
    BY DEF Timestamps
  <1>5. Waits'
    BY DEF Waits, Cleared
  <1>6. Marker'
    BY DEF Marker
  <1>7. Logs'
    BY DEF Logs, MyTx
  <1>8. AckedSafe'
    BY DEF AckedSafe
  <1> QED
    BY <1>1, <1>2, <1>3, <1>4, <1>5, <1>6, <1>7, <1>8

(* The inductive invariant of the protocol: what a thread shows of its     *)
(* timestamp and has seen of the others', and how the marker and the logs  *)
(* in persistent memory follow from it.                                    *)
THEOREM PcwmInvariant == PcwmSpec => []PcwmInv
  <1>1. PcwmInv /\ [PcwmNext]_pcwmVars => PcwmInv'
    BY PcwmNextInv, PcwmStutterInv
  <1> QED
    BY <1>1, PcwmInitInv, PTL DEF PcwmSpec

(* PcwmTypeOK, of the whole state.                                         *)
THEOREM PcwmTypeCorrect == PcwmSpec => []PcwmTypeOK
  BY PcwmInvariant, PTL DEF PcwmInv

(* No durable marker stands for a log whose entries are not durable.       *)
THEOREM LogsAreWhole == PcwmSpec => []NoTornLog
  <1>1. PcwmInv => NoTornLog
    BY DEF PcwmInv, Logs, NoTornLog
  <1> QED
    BY <1>1, PcwmInvariant, PTL

(* A transaction that is not durable keeps P_last_safe_ts, and so what     *)
(* recovery reproduces, at or below its own timestamp.                     *)
LEMMA InvPrefix == PcwmInv => PrefixRecoverable
  <1> SUFFICES ASSUME PcwmInv, NEW x \in Recoverable, NEW y \in Spanning(hist), y.v < x.v
               PROVE  y \in Recoverable
    BY DEF PrefixRecoverable
  <1>1. /\ x \in Tx /\ x.v \in Int /\ x.v <= pLastSafe
        /\ y \in hist /\ y.size = 2 /\ y.t \in Threads /\ y.v \in Int
        /\ pLastSafe \in Int /\ lastSafe \in Int /\ pLastSafe <= lastSafe
    BY DEF PcwmInv, PcwmTypeOK, Recoverable, Spanning, Tx, Marker
  <1>2. CASE y \in durable
    BY <1>1, <1>2 DEF Recoverable
  <1>3. CASE y \notin durable
    <2>1. cpc[y.t] \in Closing /\ y.v = rcv[y.t]
      BY <1>1, <1>3 DEF PcwmInv, Logs
    <2>2. ~ ts[y.t].done /\ ts[y.t].v <= y.v
      BY <1>1, <2>1 DEF PcwmInv, Timestamps
    <2>3. lastSafe <= ts[y.t].v /\ ts[y.t].v \in Int
      BY <1>1, <2>2 DEF PcwmInv, Marker, PcwmTypeOK, Invalid, Word
    <2> QED
      BY <1>1, <2>2, <2>3
  <1> QED
    BY <1>2, <1>3

(* Recovery never reproduces a transaction and loses an older one with a   *)
(* longer log.                                                             *)
THEOREM RecoversPrefix == PcwmSpec => []PrefixRecoverable
  BY InvPrefix, PcwmInvariant, PTL

(* A transaction with a longer log that returned survives a crash.         *)
THEOREM AckedSurvives == PcwmSpec => []SpanningRecoverable
  <1>1. PcwmInv => SpanningRecoverable
    BY DEF PcwmInv, AckedSafe, SpanningRecoverable, Spanning, Recoverable
  <1> QED
    BY <1>1, PcwmInvariant, PTL

(* The compare-and-swap only ever replaces an older timestamp.             *)
LEMMA MarkerStepMonotone ==
  ASSUME PcwmTypeOK, Marker, PcwmNext
  PROVE  lastSafe' >= lastSafe /\ pLastSafe' >= pLastSafe
  <1> USE HtmAssumption, PcwmAssumption DEF PcwmTypeOK, Marker, threadVars,
         sharedVars, logVars
  <1>1. ASSUME NEW t \in Threads, PEnter(t) PROVE lastSafe' >= lastSafe /\ pLastSafe' >= pLastSafe
    BY <1>1 DEF PEnter, Enter, Goto
  <1>2. ASSUME NEW t \in Threads, PCheckFree(t) PROVE lastSafe' >= lastSafe /\ pLastSafe' >= pLastSafe
    BY <1>2 DEF PCheckFree, CheckFree, Goto
  <1>3. ASSUME NEW t \in Threads, PCheckTaken(t) PROVE lastSafe' >= lastSafe /\ pLastSafe' >= pLastSafe
    BY <1>3 DEF PCheckTaken, CheckTaken, Goto, ResetTs
  <1>4. ASSUME NEW t \in Threads, PUnblock(t) PROVE lastSafe' >= lastSafe /\ pLastSafe' >= pLastSafe
    BY <1>4 DEF PUnblock, Unblock, Goto
  <1>5. ASSUME NEW t \in Threads, PRenew(t) PROVE lastSafe' >= lastSafe /\ pLastSafe' >= pLastSafe
    BY <1>5 DEF PRenew, Renew, Goto, RenewTs, SetTs
  <1>6. ASSUME NEW t \in Threads, PSubscribe(t) PROVE lastSafe' >= lastSafe /\ pLastSafe' >= pLastSafe
    BY <1>6 DEF PSubscribe, Subscribe, Goto
  <1>7. ASSUME NEW t \in Threads, PAborts(t) PROVE lastSafe' >= lastSafe /\ pLastSafe' >= pLastSafe
    BY <1>7 DEF PAborts, AbortTaken, Abort, AbortFault, Retry, RenewTs, SetTs
  <1>8. ASSUME NEW t \in Threads, PFallback(t) PROVE lastSafe' >= lastSafe /\ pLastSafe' >= pLastSafe
    BY <1>8 DEF PFallback, Fallback, Goto, ResetTs
  <1>9. ASSUME NEW t \in Threads, PAcquire(t) PROVE lastSafe' >= lastSafe /\ pLastSafe' >= pLastSafe
    BY <1>9 DEF PAcquire, Acquire
  <1>10. ASSUME NEW t \in Threads, PRenewLocked(t) PROVE lastSafe' >= lastSafe /\ pLastSafe' >= pLastSafe
    BY <1>10 DEF PRenewLocked, RenewLocked, Goto, RenewTs, SetTs
  <1>11. ASSUME NEW t \in Threads, Stamp(t) PROVE lastSafe' >= lastSafe /\ pLastSafe' >= pLastSafe
    BY <1>11 DEF Stamp, Phase
  <1>12. ASSUME NEW t \in Threads, PCommit(t) PROVE lastSafe' >= lastSafe /\ pLastSafe' >= pLastSafe
    BY <1>12 DEF PCommit, CommitHtm, Release, Goto, Phase
  <1>13. ASSUME NEW t \in Threads, Announce(t) PROVE lastSafe' >= lastSafe /\ pLastSafe' >= pLastSafe
    BY <1>13 DEF Announce, Phase, SetTs
  <1>14. ASSUME NEW t \in Threads, ReadOnly(t) PROVE lastSafe' >= lastSafe /\ pLastSafe' >= pLastSafe
    BY <1>14 DEF ReadOnly, Phase, SetTs
  <1>15. ASSUME NEW t \in Threads, MarkUpdate(t) PROVE lastSafe' >= lastSafe /\ pLastSafe' >= pLastSafe
    BY <1>15 DEF MarkUpdate, Phase
  <1>16. ASSUME NEW t \in Threads, FlushEntries(t) PROVE lastSafe' >= lastSafe /\ pLastSafe' >= pLastSafe
    BY <1>16 DEF FlushEntries, Phase
  <1>17. ASSUME NEW t \in Threads, WriteMarker(t) PROVE lastSafe' >= lastSafe /\ pLastSafe' >= pLastSafe
    BY <1>17 DEF WriteMarker, Phase
  <1>18. ASSUME NEW t \in Threads, Flush(t) PROVE lastSafe' >= lastSafe /\ pLastSafe' >= pLastSafe
    BY <1>18 DEF Flush, Phase, SetTs
  <1>19. ASSUME NEW t \in Threads, ScanTs(t) PROVE lastSafe' >= lastSafe /\ pLastSafe' >= pLastSafe
    BY <1>19 DEF ScanTs, Phase, AfterScan
  <1>20. ASSUME NEW t \in Threads, ScanUpdate(t) PROVE lastSafe' >= lastSafe /\ pLastSafe' >= pLastSafe
    BY <1>20 DEF ScanUpdate, Phase, AfterScan
  <1>21. ASSUME NEW t \in Threads, NEW i \in Threads, WaitFor(t, i) PROVE lastSafe' >= lastSafe /\ pLastSafe' >= pLastSafe
    BY <1>21 DEF WaitFor
  <1>22. ASSUME NEW t \in Threads, EndWait(t) PROVE lastSafe' >= lastSafe /\ pLastSafe' >= pLastSafe
    BY <1>22 DEF EndWait, Phase
  <1>23. ASSUME NEW t \in Threads, ReadSafe(t) PROVE lastSafe' >= lastSafe /\ pLastSafe' >= pLastSafe
    BY <1>23 DEF ReadSafe, Phase
  <1>24. ASSUME NEW t \in Threads, LoopTest(t) PROVE lastSafe' >= lastSafe /\ pLastSafe' >= pLastSafe
    BY <1>24 DEF LoopTest, Phase
  <1>25. ASSUME NEW t \in Threads, Cas(t) PROVE lastSafe' >= lastSafe /\ pLastSafe' >= pLastSafe
    <2>1. /\ cpc[t] = "cas" /\ pLastSafe' = pLastSafe
          /\ lastSafe' = IF lastSafe = oldVal[t] THEN rcv[t] ELSE lastSafe
      BY <1>25 DEF Cas, Phase
    <2> QED
      BY <2>1
  <1>26. ASSUME NEW t \in Threads, FlushSafe(t) PROVE lastSafe' >= lastSafe /\ pLastSafe' >= pLastSafe
    BY <1>26 DEF FlushSafe, Phase
  <1>27. ASSUME NEW t \in Threads, Await(t) PROVE lastSafe' >= lastSafe /\ pLastSafe' >= pLastSafe
    BY <1>27 DEF Await, Phase
  <1>28. ASSUME NEW t \in Threads, Publish(t) PROVE lastSafe' >= lastSafe /\ pLastSafe' >= pLastSafe
    BY <1>28 DEF Publish, Phase
  <1>29. CASE Evict
    BY <1>29 DEF Evict, EvictSafe, EvictMarker, htmVars
  <1>30. CASE Finished
    BY <1>30 DEF Finished, pcwmVars, htmVars
  <1> QED
    BY <1>1, <1>2, <1>3, <1>4, <1>5, <1>6, <1>7, <1>8, <1>9, <1>10, <1>11, <1>12,
       <1>13, <1>14, <1>15, <1>16, <1>17, <1>18, <1>19, <1>20, <1>21, <1>22,
       <1>23, <1>24, <1>25, <1>26, <1>27, <1>28, <1>29, <1>30
    DEF PcwmNext, TemplateStep, CommitStep

(* P_last_safe_ts and its persistent copy never move back.                 *)
THEOREM MarkerNeverMovesBack == PcwmSpec => MarkerMonotone
  <1>1. PcwmInv /\ [PcwmNext]_pcwmVars
           => [lastSafe' >= lastSafe /\ pLastSafe' >= pLastSafe]_pcwmVars
    BY MarkerStepMonotone DEF PcwmInv
  <1> QED
    BY <1>1, PcwmInvariant, PTL DEF PcwmSpec, MarkerMonotone
-----------------------------------------------------------------------------
(* The refinement of DurableHistory. Only a commit adds to the history and *)
(* only a return acknowledges; every other step may only add to what is    *)
(* durable.                                                                *)
StableGrows == /\ UNCHANGED <<hist, acked>>
               /\ durable \subseteq durable'

LEMMA StepStable ==
  PcwmNext => \/ StableGrows
              \/ \E t \in Threads : PCommit(t) \/ Publish(t)
  <1> USE DEF StableGrows, threadVars, sharedVars, logVars
  <1>1. ASSUME NEW t \in Threads, TemplateStep(t) PROVE StableGrows \/ PCommit(t)
    BY <1>1 DEF TemplateStep, PEnter, PCheckFree, PCheckTaken, PUnblock, PRenew,
         PSubscribe, PAborts, PFallback, PAcquire, PRenewLocked, Stamp
  <1>2. ASSUME NEW t \in Threads, CommitStep(t) PROVE StableGrows \/ Publish(t)
    BY <1>2 DEF CommitStep, Announce, ReadOnly, MarkUpdate, FlushEntries, WriteMarker,
         Flush, ScanTs, ScanUpdate, WaitFor, EndWait, ReadSafe, LoopTest, Cas, FlushSafe,
         Await
  <1>3. Evict => StableGrows
    BY DEF Evict, EvictSafe, EvictMarker
  <1>4. Finished => StableGrows
    BY DEF Finished, pcwmVars
  <1> QED
    BY <1>1, <1>2, <1>3, <1>4 DEF PcwmNext

(* Where the protocol stands in the abstract specification.                *)
HStutter == UNCHANGED <<Spanning(hist), Spanning(Recoverable), Spanning(acked)>>

LEMMA GrowStabilises ==
  ASSUME PcwmInv, PcwmInv', PcwmNext, StableGrows
  PROVE  History!Stabilise
  <1>1. pLastSafe \in Int /\ pLastSafe' \in Int /\ pLastSafe <= pLastSafe'
    <2>1. pLastSafe' >= pLastSafe
      BY MarkerStepMonotone DEF PcwmInv
    <2> QED
      BY <2>1 DEF PcwmInv, PcwmTypeOK
  <1>2. \A x \in Tx : x.v \in Int
    BY DEF Tx
  <1>3. durable \subseteq Tx /\ durable' \subseteq hist'
    BY DEF PcwmInv, PcwmTypeOK, Logs
  <1>4. Spanning(Recoverable) \subseteq Spanning(Recoverable)'
    BY <1>1, <1>2, <1>3 DEF Spanning, Recoverable, StableGrows
  <1>5. Spanning(Recoverable)' \in SUBSET Spanning(hist)
    BY <1>3 DEF Spanning, Recoverable, StableGrows
  <1>6. PrefixRecoverable'
    BY InvPrefix, PTL
  <1>7. History!Prefix(Spanning(Recoverable)', Spanning(hist))
    BY <1>6 DEF History!Prefix, PrefixRecoverable, Spanning, StableGrows
  <1>8. UNCHANGED <<Spanning(hist), Spanning(acked)>>
    BY DEF StableGrows, Spanning
  <1> QED
    BY <1>4, <1>5, <1>7, <1>8 DEF History!Stabilise

(* A commit carries a timestamp above P_last_safe_ts.                      *)
LEMMA CommitIsAbstract ==
  ASSUME PcwmInv, NEW t \in Threads, PCommit(t)
  PROVE  HStutter \/ \E x \in Spanning(Tx) : History!CommitTx(x)
  <1> DEFINE x == MyTx(t)
  <1>1. UNCHANGED Spanning(Recoverable) /\ UNCHANGED Spanning(acked)
    BY DEF PCommit, Spanning, Recoverable
  <1>2. size[t] \in 0 .. 2 /\ rcv[t] \in 0 .. MaxClock
    BY DEF PcwmInv, PcwmTypeOK
  <1>3. CASE size[t] # 2
    <2>1. Spanning(hist') = Spanning(hist)
      BY <1>3 DEF PCommit, MyTx, Spanning
    <2> QED
      BY <1>1, <2>1 DEF HStutter, Spanning
  <1>4. CASE size[t] = 2
    <2>1. x \in Spanning(Tx) /\ x.t = t /\ x.v = rcv[t]
      BY <1>2, <1>4 DEF MyTx, Tx, Spanning
    <2>2. Spanning(hist)' = Spanning(hist) \cup {x}
      BY <1>4, <2>1 DEF PCommit, Spanning
    <2>3. cpc[t] = "stamped" /\ hpc[t] \in {"htm", "sgl"}
      BY DEF PCommit, Phase, CommitHtm, Release, Goto
    <2>4. ~ ts[t].done /\ ts[t].v < rcv[t]
      BY <2>3 DEF PcwmInv, Timestamps
    <2>5. /\ pLastSafe \in Int /\ lastSafe \in Int
          /\ pLastSafe <= lastSafe /\ lastSafe <= ts[t].v
      BY <2>4 DEF PcwmInv, PcwmTypeOK, Marker
    <2>6. ts[t].v \in Int
      <3>1. ts[t] # Invalid
        BY <2>4 DEF Invalid, Word
      <3> QED
        BY <3>1 DEF PcwmInv, PcwmTypeOK
    <2>7. x \notin Spanning(hist)
      <3> SUFFICES ASSUME x \in hist PROVE FALSE
        BY DEF Spanning
      <3>1. x.v < ts[t].v
        BY <2>1, <2>3 DEF PcwmInv, Logs
      <3> QED
        BY <3>1, <2>1, <2>4, <2>6, <1>2
    <2>8. \A y \in Spanning(Recoverable) : y.v <= x.v
      <3> SUFFICES ASSUME NEW y \in Spanning(Recoverable) PROVE y.v <= x.v
        OBVIOUS
      <3>1. y \in Tx /\ y.v <= pLastSafe
        BY DEF Spanning, Recoverable, PcwmInv, PcwmTypeOK
      <3>2. y.v \in Int
        BY <3>1 DEF Tx
      <3> QED
        BY <3>1, <3>2, <2>1, <2>4, <2>5, <2>6, <1>2
    <2> QED
      BY <1>1, <2>1, <2>2, <2>7, <2>8 DEF History!CommitTx
  <1> QED
    BY <1>3, <1>4

(* A return finds its transaction recoverable.                             *)
LEMMA PublishIsAbstract ==
  ASSUME PcwmInv, NEW t \in Threads, Publish(t)
  PROVE  HStutter \/ \E x \in Spanning(Tx) : History!Ack(x)
  <1> DEFINE x == MyTx(t)
  <1>1. UNCHANGED <<Spanning(hist), Spanning(Recoverable)>>
    BY DEF Publish, Spanning, Recoverable, sharedVars
  <1>2. size[t] \in 0 .. 2 /\ rcv[t] \in 0 .. MaxClock /\ cpc[t] = "publish"
    BY DEF PcwmInv, PcwmTypeOK, Publish, Phase
  <1>3. CASE size[t] # 2
    <2>1. Spanning(acked') = Spanning(acked)
      BY <1>3 DEF Publish, MyTx, Spanning
    <2> QED
      BY <1>1, <2>1 DEF HStutter, Spanning
  <1>4. CASE size[t] = 2
    <2>1. x \in Spanning(Tx) /\ x.t = t /\ x.v = rcv[t] /\ x.size = 2
      BY <1>2, <1>4 DEF MyTx, Tx, Spanning
    <2>2. x \in hist /\ x.v <= pLastSafe
      BY <1>2, <1>4, <2>1 DEF PcwmInv, Logs, Marker, Marking
    <2>3. x \in durable
      BY <1>2, <2>1, <2>2 DEF PcwmInv, Logs, Closing
    <2>4. x \in Spanning(Recoverable)
      BY <2>1, <2>2, <2>3 DEF Spanning, Recoverable
    <2>5. Spanning(acked)' = Spanning(acked) \cup {x}
      BY <2>1 DEF Publish, Spanning
    <2> QED
      BY <1>1, <2>1, <2>4, <2>5 DEF History!Ack
  <1> QED
    BY <1>3, <1>4

(* The protocol implements the durable history for transactions with a     *)
(* longer log: each becomes recoverable after every older one and before   *)
(* it returns, in whatever order the threads find their turn to write      *)
(* P_last_safe_ts.                                                         *)
THEOREM ImplementsDurableHistory == PcwmSpec => DurablePrefix
  <1>1. PcwmInit => History!HistoryInit
    BY DEF PcwmInit, History!HistoryInit, Spanning, Recoverable
  <1>2. PcwmInv /\ PcwmInv' /\ [PcwmNext]_pcwmVars
           => [History!HistoryNext]_(History!historyVars)
    <2> SUFFICES ASSUME PcwmInv, PcwmInv', [PcwmNext]_pcwmVars
                 PROVE  History!HistoryNext \/ HStutter
      BY DEF History!historyVars, HStutter
    <2>1. CASE UNCHANGED pcwmVars
      BY <2>1 DEF pcwmVars, logVars, HStutter, Spanning, Recoverable
    <2>2. CASE PcwmNext /\ StableGrows
      BY <2>2, GrowStabilises DEF History!HistoryNext
    <2>3. ASSUME NEW t \in Threads, PCommit(t) PROVE History!HistoryNext \/ HStutter
      BY <2>3, CommitIsAbstract DEF History!HistoryNext
    <2>4. ASSUME NEW t \in Threads, Publish(t) PROVE History!HistoryNext \/ HStutter
      BY <2>4, PublishIsAbstract DEF History!HistoryNext
    <2> QED
      BY <2>1, <2>2, <2>3, <2>4, StepStable
  <1> QED
    BY <1>1, <1>2, PcwmInvariant, PTL DEF PcwmSpec, DurablePrefix, History!HistorySpec
=============================================================================
