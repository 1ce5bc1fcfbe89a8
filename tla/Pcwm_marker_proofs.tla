------------------------- MODULE Pcwm_marker_proofs -------------------------
(***************************************************************************)
(* A commit that leaves the marker P_last_safe_ts to others has somebody   *)
(* who will write and flush it, for every number of threads. On top of the *)
(* invariant of Pcwm_proofs:                                               *)
(*                                                                         *)
(*   Promises    for a commit that jumps, or waits for the marker, some    *)
(*               thread is ahead: about to write the marker, or a newer    *)
(*               update transaction that has not decided to jump. (Newer   *)
(*               by timestamp and number, so that no circle of commits can *)
(*               leave the marker to each other);                          *)
(*   LastWriter  the thread that wrote P_last_safe_ts last has flushed it, *)
(*               or is about to;                                           *)
(*   Updates     isUpdate vouches for the timestamp beside it until its    *)
(*               thread begins another transaction;                        *)
(*   Overtakers  the thread whose isUpdate is about to be read still has a *)
(*               larger timestamp.                                         *)
(***************************************************************************)
EXTENDS Pcwm_proofs

Ahead(k, t) == \/ /\ cpc[k] \in {"put", "loop", "cas", "safe"}
                  /\ rcv[k] >= rcv[t]
               \/ /\ cpc[k] \in {"close", "marker", "flush"} \cup Waiting
                  /\ cpc[k] \in Waiting => ~ jump[k]
                  /\ Larger(rcv[k], rcv[t], k, t)

Promised(t) == Marked(t) \/ \E k \in Threads : Ahead(k, t)

Promises == \A t \in Threads :
   cpc[t] = "await" \/ (cpc[t] \in Waiting /\ jump[t]) => Promised(t)

LastWriter == \/ \E i \in Threads : flushed[i] >= lastSafe
              \/ \E w \in Threads : /\ cpc[w] \in {"loop", "safe"}
                                    /\ cpc[w] = "loop" => success[w]
                                    /\ rcv[w] = lastSafe

Updates == \A j \in Threads :
   /\ cpc[j] = "update" => ts[j].v = rcv[j]
   /\ isUpdate[j] => /\ cpc[j] \in Pushing \cup {"await", "publish", "idle"}
                     /\ ts[j].v = rcv[j]
                     /\ cpc[j] \in {"publish", "idle"} => Marked(j)

Overtakers == \A t \in Threads : cpc[t] = "isupd" =>
   scan[t] # t /\ Larger(ts[scan[t]].v, rcv[t], scan[t], t)

FlushedOwn == \A t \in Threads : flushed[t] <= rcv[t]

MarkInv == PcwmInv /\ Promises /\ LastWriter /\ Updates /\ Overtakers /\ FlushedOwn
-----------------------------------------------------------------------------
(* What a step of t in the retry template does to the state of the commit  *)
(* protocol.                                                               *)
OthersKeep(t) == \A u \in Threads \ {t} :
   /\ cpc'[u] = cpc[u] /\ rcv'[u] = rcv[u] /\ ts'[u] = ts[u] /\ scan'[u] = scan[u]
   /\ isUpdate'[u] = isUpdate[u] /\ flushed'[u] = flushed[u]
   /\ jump'[u] = jump[u] /\ success'[u] = success[u]

Prepares(t) ==
   /\ OthersKeep(t)
   /\ UNCHANGED <<flushed, lastSafe, success, jump, scan>>
   /\ cpc[t] \in {"idle", "body", "stamped"}
   /\ cpc'[t] \in {"body", "stamped", "announce"}
   /\ rcv'[t] >= rcv[t]
   /\ isUpdate'[t] => cpc[t] # "idle" /\ isUpdate[t]
   /\ ts'[t].v >= ts[t].v \/ ts'[t].v > clock

LEMMA Ranges ==
  ASSUME PcwmTypeOK
  PROVE  /\ clock \in Nat /\ lastSafe \in Nat
         /\ \A t \in Threads : /\ t \in Nat /\ ts[t].v \in Nat /\ rcv[t] \in Nat
                               /\ flushed[t] \in Nat /\ cpc[t] \in Phases
  <1>1. MaxClock \in Nat /\ \A t \in Threads : t \in Nat
    BY PcwmAssumption, HtmAssumption DEF Threads
  <1>2. \A t \in Threads : ts[t].v \in 0 .. MaxClock + 1
    BY <1>1 DEF PcwmTypeOK, Invalid, Word
  <1>3. /\ clock \in 0 .. MaxClock /\ lastSafe \in 0 .. MaxClock
        /\ \A t \in Threads : /\ rcv[t] \in 0 .. MaxClock /\ flushed[t] \in 0 .. MaxClock
                              /\ cpc[t] \in Phases
    BY DEF PcwmTypeOK
  <1> QED
    BY <1>1, <1>2, <1>3

LEMMA TemplatePrepares ==
  ASSUME PcwmTypeOK, PcwmTypeOK', PlacesAgree, Timestamps,
         NEW t \in Threads, TemplateStep(t)
  PROVE  Prepares(t)
  <1>0. /\ ts \in [Threads -> [v : 0 .. MaxClock, done : BOOLEAN] \cup {Invalid}]
        /\ cpc \in [Threads -> Phases] /\ rcv \in [Threads -> 0 .. MaxClock]
        /\ isUpdate \in [Threads -> BOOLEAN] /\ clock \in 0 .. MaxClock
        /\ hpc \in [Threads -> Places]
    BY DEF PcwmTypeOK, HtmTypeOK
  <1>1. \A u \in Threads : ts[u].v \in 0 .. MaxClock + 1
    BY <1>0, PcwmAssumption DEF Invalid, Word
  <1> USE <1>0, <1>1, PcwmAssumption
          DEF Prepares, OthersKeep, PlacesAgree, threadVars, sharedVars, logVars
  <1>2. CASE PEnter(t)
    BY <1>2 DEF PEnter, Enter, Goto, Phase
  <1>3. CASE PCheckFree(t) \/ PUnblock(t) \/ PSubscribe(t)
    BY <1>3 DEF PCheckFree, PUnblock, PSubscribe, CheckFree, Unblock, Subscribe, Goto
  <1>4. CASE PCheckTaken(t) \/ PFallback(t)
    BY <1>4 DEF PCheckTaken, PFallback, CheckTaken, Fallback, Goto, ResetTs, Invalid, Word
  <1>5. CASE PRenew(t) \/ PAborts(t) \/ PRenewLocked(t)
    <2>1. /\ ts'[t].v = clock + 1 /\ \A u \in Threads \ {t} : ts'[u] = ts[u]
          /\ UNCHANGED <<rcv, scan, jump, success, flushed, lastSafe>>
      BY <1>5, RenewFrame
    <2>2. /\ cpc[t] \in {"body", "stamped"} /\ UNCHANGED isUpdate
          /\ cpc' = cpc \/ cpc' = [cpc EXCEPT ![t] = "body"]
      BY <1>5 DEF PRenew, PAborts, PRenewLocked, Renew, RenewLocked, AbortTaken, Abort,
                  AbortFault, Goto
    <2> QED
      BY <2>1, <2>2
  <1>6. CASE PAcquire(t)
    BY <1>6 DEF PAcquire, Acquire
  <1>7. CASE Stamp(t)
    BY <1>7 DEF Stamp, Phase, Timestamps
  <1>8. CASE PCommit(t)
    BY <1>8 DEF PCommit, Phase
  <1> QED
    BY <1>2, <1>3, <1>4, <1>5, <1>6, <1>7, <1>8 DEF TemplateStep

(* What every step of t in the commit protocol leaves alone.               *)
LEMMA CommitKeeps ==
  ASSUME PcwmTypeOK, NEW t \in Threads, CommitStep(t)
  PROVE  OthersKeep(t) /\ UNCHANGED rcv
  <1>0. /\ ts \in [Threads -> [v : 0 .. MaxClock, done : BOOLEAN] \cup {Invalid}]
        /\ cpc \in [Threads -> Phases] /\ isUpdate \in [Threads -> BOOLEAN]
        /\ flushed \in [Threads -> 0 .. MaxClock] /\ scan \in [Threads -> 0 .. N]
        /\ jump \in [Threads -> BOOLEAN] /\ success \in [Threads -> BOOLEAN]
    BY DEF PcwmTypeOK
  <1> USE <1>0 DEF OthersKeep, threadVars, sharedVars, logVars, Phase
  <1>1. CASE Announce(t) \/ ReadOnly(t) \/ Flush(t)
    BY <1>1 DEF Announce, ReadOnly, Flush, SetTs, Word
  <1>2. CASE MarkUpdate(t) \/ FlushEntries(t) \/ WriteMarker(t) \/ EndWait(t)
             \/ Await(t) \/ Publish(t)
    BY <1>2 DEF MarkUpdate, FlushEntries, WriteMarker, EndWait, Await, Publish
  <1>3. CASE ScanTs(t) \/ ScanUpdate(t) \/ \E k \in Threads : WaitFor(t, k)
    BY <1>3 DEF ScanTs, ScanUpdate, WaitFor
  <1>4. CASE ReadSafe(t) \/ LoopTest(t) \/ Cas(t) \/ FlushSafe(t)
    BY <1>4 DEF ReadSafe, LoopTest, Cas, FlushSafe
  <1> QED
    BY <1>1, <1>2, <1>3, <1>4 DEF CommitStep

(* The steps that are neither a thread's: the cache's, and the end.        *)
LEMMA OtherSteps ==
  Evict \/ Finished => UNCHANGED <<cpc, rcv, ts, scan, isUpdate, flushed, jump, success,
                                   lastSafe>>
  BY DEF Evict, EvictSafe, EvictMarker, Finished, pcwmVars, threadVars, sharedVars

(* A marker that was flushed once stays flushed: a thread flushes larger   *)
(* and larger ones.                                                        *)
LEMMA FlushedStep ==
  ASSUME PcwmInv, PcwmTypeOK', FlushedOwn, PcwmNext
  PROVE  FlushedOwn' /\ \A i \in Threads : flushed'[i] >= flushed[i]
  <1>1. PcwmTypeOK /\ PlacesAgree /\ Timestamps
    BY DEF PcwmInv
  <1>2. \A i \in Threads : /\ rcv[i] \in Nat /\ rcv'[i] \in Nat
                           /\ flushed[i] \in Nat /\ flushed'[i] \in Nat
    BY <1>1, Ranges, PcwmAssumption DEF PcwmTypeOK
  <1>3. ASSUME NEW t \in Threads, TemplateStep(t)
        PROVE  FlushedOwn' /\ \A i \in Threads : flushed'[i] >= flushed[i]
    BY <1>1, <1>2, <1>3, TemplatePrepares DEF Prepares, OthersKeep, FlushedOwn
  <1>4. ASSUME NEW t \in Threads, CommitStep(t)
        PROVE  FlushedOwn' /\ \A i \in Threads : flushed'[i] >= flushed[i]
    <2>1. \A u \in Threads \ {t} : flushed'[u] = flushed[u]
      BY <1>1, <1>4, CommitKeeps DEF OthersKeep
    <2>2. UNCHANGED rcv
      BY <1>1, <1>4, CommitKeeps
    <2>3. flushed'[t] \in {flushed[t], rcv[t]}
      BY <1>1, <1>4
      DEF CommitStep, Announce, ReadOnly, MarkUpdate, FlushEntries, WriteMarker, Flush,
          ScanTs, ScanUpdate, WaitFor, EndWait, ReadSafe, LoopTest, Cas, FlushSafe, Await,
          Publish, sharedVars, PcwmTypeOK
    <2> QED
      BY <1>2, <2>1, <2>2, <2>3 DEF FlushedOwn
  <1>5. CASE Evict \/ Finished
    BY <1>2, <1>5, OtherSteps DEF FlushedOwn
  <1> QED
    BY <1>3, <1>4, <1>5 DEF PcwmNext

(* The last writer of the marker keeps its place until it has flushed it   *)
(* or somebody else has written it.                                        *)
LEMMA LastWriterStep ==
  ASSUME PcwmInv, PcwmTypeOK', FlushedOwn, LastWriter, PcwmNext
  PROVE  LastWriter'
  <1>1. PcwmTypeOK /\ PlacesAgree /\ Timestamps
    BY DEF PcwmInv
  <1>2. /\ lastSafe \in Nat
        /\ \A i \in Threads : rcv[i] \in Nat /\ flushed[i] \in Nat /\ flushed'[i] \in Nat
    BY <1>1, Ranges, PcwmAssumption DEF PcwmTypeOK
  <1>3. \A i \in Threads : flushed'[i] >= flushed[i]
    BY FlushedStep
  <1>4. CASE lastSafe' = lastSafe /\ \E i \in Threads : flushed[i] >= lastSafe
    BY <1>2, <1>3, <1>4 DEF LastWriter
  <1>5. ASSUME lastSafe' = lastSafe,
               NEW w \in Threads, cpc[w] \in {"loop", "safe"},
               cpc[w] = "loop" => success[w], rcv[w] = lastSafe,
               cpc'[w] = cpc[w], success'[w] = success[w], rcv'[w] = rcv[w]
        PROVE  LastWriter'
    BY <1>5 DEF LastWriter
  <1>6. ASSUME NEW t \in Threads, TemplateStep(t) PROVE LastWriter'
    <2>1. Prepares(t)
      BY <1>1, <1>6, TemplatePrepares
    <2> QED
      BY <1>4, <1>5, <2>1 DEF Prepares, OthersKeep, LastWriter
  <1>7. ASSUME NEW t \in Threads, CommitStep(t) PROVE LastWriter'
    <2>1. OthersKeep(t) /\ UNCHANGED rcv
      BY <1>1, <1>7, CommitKeeps
    <2>2. CASE Cas(t) /\ lastSafe = oldVal[t]
      <3>1. lastSafe' = rcv[t] /\ cpc'[t] = "loop" /\ success'[t]
        BY <1>1, <2>2 DEF Cas, Phase, PcwmTypeOK
      <3> QED
        BY <2>1, <3>1 DEF LastWriter
    <2>3. CASE LoopTest(t) /\ success[t] /\ rcv[t] = lastSafe
      <3>1. lastSafe' = lastSafe /\ cpc'[t] = "safe"
        BY <1>1, <1>2, <2>3 DEF LoopTest, Phase, sharedVars, PcwmTypeOK
      <3> QED
        BY <2>1, <2>3, <3>1 DEF LastWriter
    <2>4. CASE FlushSafe(t) /\ rcv[t] = lastSafe
      <3>1. lastSafe' = lastSafe /\ flushed'[t] = rcv[t]
        BY <1>1, <2>4 DEF FlushSafe, PcwmTypeOK
      <3> QED
        BY <1>2, <2>4, <3>1 DEF LastWriter
    <2>5. CASE ~ (Cas(t) /\ lastSafe = oldVal[t])
      <3>1. lastSafe' = lastSafe
        BY <1>7, <2>5
        DEF CommitStep, Announce, ReadOnly, MarkUpdate, FlushEntries, WriteMarker, Flush,
            ScanTs, ScanUpdate, WaitFor, EndWait, ReadSafe, LoopTest, Cas, FlushSafe,
            Await, Publish, sharedVars
      <3>2. CASE \E i \in Threads : flushed[i] >= lastSafe
        BY <1>4, <3>1, <3>2
      <3>3. ASSUME NEW w \in Threads, cpc[w] \in {"loop", "safe"},
                   cpc[w] = "loop" => success[w], rcv[w] = lastSafe
            PROVE  LastWriter'
        <4>1. CASE w # t
          BY <1>5, <2>1, <3>1, <3>3, <4>1 DEF OthersKeep
        <4>2. CASE w = t
          <5>1. LoopTest(t) \/ FlushSafe(t)
            BY <1>7, <3>3, <4>2
            DEF CommitStep, Announce, ReadOnly, MarkUpdate, FlushEntries, WriteMarker,
                Flush, ScanTs, ScanUpdate, WaitFor, EndWait, ReadSafe, LoopTest, Cas,
                FlushSafe, Await, Publish, Phase
          <5>2. LoopTest(t) => success[t]
            BY <3>3, <4>2 DEF LoopTest, Phase
          <5> QED
            BY <2>3, <2>4, <3>3, <4>2, <5>1, <5>2
        <4> QED
          BY <4>1, <4>2
      <3> QED
        BY <3>2, <3>3 DEF LastWriter
    <2> QED
      BY <2>2, <2>5
  <1>8. CASE Evict \/ Finished
    BY <1>4, <1>5, <1>8, OtherSteps DEF LastWriter
  <1> QED
    BY <1>6, <1>7, <1>8 DEF PcwmNext

(* A marker of thread j that was flushed stays flushed.                    *)
LEMMA MarkedStep ==
  ASSUME PcwmInv, PcwmTypeOK', FlushedOwn, PcwmNext,
         NEW j \in Threads, rcv'[j] <= rcv[j], Marked(j)
  PROVE  Marked(j)'
  <1>1. \A i \in Threads : /\ rcv[i] \in Nat /\ rcv'[i] \in Nat
                           /\ flushed[i] \in Nat /\ flushed'[i] \in Nat
    BY Ranges, PcwmAssumption DEF PcwmTypeOK, PcwmInv
  <1> QED
    BY <1>1, FlushedStep DEF Marked

(* isUpdate is cleared before the thread takes another timestamp.          *)
LEMMA UpdatesStep ==
  ASSUME PcwmInv, PcwmTypeOK', FlushedOwn, Updates, PcwmNext
  PROVE  Updates'
  <1>1. PcwmTypeOK /\ PlacesAgree /\ Timestamps
    BY DEF PcwmInv
  <1>2. \A i \in Threads : rcv[i] \in Nat
    BY <1>1, Ranges
  <1>3. ASSUME NEW j \in Threads, cpc'[j] = cpc[j], rcv'[j] = rcv[j], ts'[j] = ts[j],
               isUpdate'[j] = isUpdate[j]
        PROVE  /\ cpc'[j] = "update" => ts'[j].v = rcv'[j]
               /\ isUpdate'[j] => /\ cpc'[j] \in Pushing \cup {"await", "publish", "idle"}
                                  /\ ts'[j].v = rcv'[j]
                                  /\ cpc'[j] \in {"publish", "idle"} => Marked(j)'
    BY <1>2, <1>3, MarkedStep DEF Updates
  <1>4. ASSUME NEW t \in Threads, TemplateStep(t) PROVE Updates'
    <2>1. Prepares(t)
      BY <1>1, <1>4, TemplatePrepares
    <2>2. ~ isUpdate'[t] /\ cpc'[t] # "update"
      BY <2>1 DEF Prepares, Updates, Pushing
    <2> QED
      BY <1>3, <2>1, <2>2 DEF Prepares, OthersKeep, Updates
  <1>5. ASSUME NEW t \in Threads, CommitStep(t) PROVE Updates'
    <2>1. OthersKeep(t) /\ UNCHANGED rcv
      BY <1>1, <1>5, CommitKeeps
    <2>2. SUFFICES /\ cpc'[t] = "update" => ts'[t].v = rcv[t]
                   /\ isUpdate'[t] =>
                        /\ cpc'[t] \in Pushing \cup {"await", "publish", "idle"}
                        /\ ts'[t].v = rcv[t]
                        /\ cpc'[t] \in {"publish", "idle"} => Marked(t)'
      BY <1>3, <2>1 DEF OthersKeep, Updates
    <2>3. /\ ts \in [Threads -> [v : 0 .. MaxClock, done : BOOLEAN] \cup {Invalid}]
          /\ cpc \in [Threads -> Phases] /\ isUpdate \in [Threads -> BOOLEAN]
          /\ flushed \in [Threads -> 0 .. MaxClock]
      BY <1>1 DEF PcwmTypeOK
    <2>4. Marked(t) => Marked(t)'
      BY <1>2, <2>1, MarkedStep
    <2> USE DEF Updates, Pushing, Phase, threadVars, sharedVars, logVars
    <2>5. CASE Announce(t)
      BY <2>3, <2>5 DEF Announce, SetTs, Word
    <2>6. CASE ReadOnly(t)
      BY <2>3, <2>6 DEF ReadOnly
    <2>7. CASE MarkUpdate(t)
      BY <2>3, <2>7 DEF MarkUpdate
    <2>8. CASE FlushEntries(t) \/ WriteMarker(t) \/ EndWait(t)
      BY <2>3, <2>8 DEF FlushEntries, WriteMarker, EndWait
    <2>9. CASE Flush(t)
      BY <2>3, <2>9 DEF Flush, SetTs, Word
    <2>10. CASE ScanTs(t) \/ ScanUpdate(t) \/ \E k \in Threads : WaitFor(t, k)
      BY <2>3, <2>10 DEF ScanTs, ScanUpdate, WaitFor, AfterScan
    <2>11. CASE ReadSafe(t) \/ LoopTest(t) \/ Cas(t)
      BY <2>3, <2>11 DEF ReadSafe, LoopTest, Cas
    <2>12. CASE FlushSafe(t)
      <3>1. Marked(t)'
        BY <1>2, <2>1, <2>3, <2>12 DEF FlushSafe, Marked
      <3> QED
        BY <2>3, <2>12, <3>1 DEF FlushSafe
    <2>13. CASE Await(t)
      <3>1. Marked(t)
        BY <2>13 DEF Await, Marked
      <3> QED
        BY <2>3, <2>4, <2>13, <3>1 DEF Await
    <2>14. CASE Publish(t)
      BY <2>3, <2>4, <2>14 DEF Publish
    <2> QED
      BY <1>5, <2>5, <2>6, <2>7, <2>8, <2>9, <2>10, <2>11, <2>12, <2>13, <2>14
      DEF CommitStep
  <1>6. CASE Evict \/ Finished
    BY <1>3, <1>6, OtherSteps DEF Updates
  <1> QED
    BY <1>4, <1>5, <1>6 DEF PcwmNext

(* A thread that was seen with a larger timestamp never takes a smaller    *)
(* one.                                                                    *)
LEMMA OvertakersStep ==
  ASSUME PcwmInv, PcwmTypeOK', Overtakers, PcwmNext
  PROVE  Overtakers'
  <1>1. PcwmTypeOK /\ PlacesAgree /\ Timestamps
    BY DEF PcwmInv
  <1>2. /\ clock \in Nat
        /\ \A i \in Threads : /\ i \in Nat /\ rcv[i] \in Nat /\ rcv[i] <= clock
                              /\ ts[i].v \in Nat
    BY <1>1, Ranges DEF Timestamps
  <1>3. \A i \in Threads : ts'[i].v \in Nat
    BY PcwmAssumption DEF PcwmTypeOK, Invalid, Word
  <1>4. ASSUME NEW t \in Threads, cpc[t] = "isupd", cpc'[t] = "isupd", rcv'[t] = rcv[t],
               scan'[t] = scan[t],
               \A u \in Threads : ts'[u].v >= ts[u].v \/ ts'[u].v > clock
        PROVE  scan'[t] # t /\ Larger(ts'[scan'[t]].v, rcv'[t], scan'[t], t)
    <2>1. scan[t] \in Threads /\ scan[t] # t /\ Larger(ts[scan[t]].v, rcv[t], scan[t], t)
      BY <1>1, <1>4, ThreadNumber DEF Overtakers, PlacesAgree, PcwmTypeOK
    <2> QED
      BY <1>2, <1>3, <1>4, <2>1 DEF Larger
  <1>5. ASSUME NEW t \in Threads, TemplateStep(t) PROVE Overtakers'
    <2>1. Prepares(t)
      BY <1>1, <1>5, TemplatePrepares
    <2>2. \A u \in Threads : ts'[u].v >= ts[u].v \/ ts'[u].v > clock
      BY <1>2, <2>1 DEF Prepares, OthersKeep
    <2> QED
      BY <1>4, <2>1, <2>2 DEF Prepares, OthersKeep, Overtakers
  <1>6. ASSUME NEW t \in Threads, CommitStep(t) PROVE Overtakers'
    <2>1. OthersKeep(t)
      BY <1>1, <1>6, CommitKeeps
    <2>2. /\ ts \in [Threads -> [v : 0 .. MaxClock, done : BOOLEAN] \cup {Invalid}]
          /\ cpc \in [Threads -> Phases] /\ scan \in [Threads -> 0 .. N]
          /\ rcv \in [Threads -> 0 .. MaxClock]
      BY <1>1 DEF PcwmTypeOK
    <2>3. ts'[t].v >= ts[t].v
      <3>1. CASE Announce(t) \/ ReadOnly(t) \/ Flush(t)
        BY <1>1, <2>2, <3>1
        DEF Announce, ReadOnly, Flush, Phase, SetTs, Word, Timestamps, Closing
      <3>2. CASE ts' = ts
        BY <1>2, <3>2
      <3> QED
        BY <1>6, <3>1, <3>2
        DEF CommitStep, MarkUpdate, FlushEntries, WriteMarker, ScanTs, ScanUpdate,
            WaitFor, EndWait, ReadSafe, LoopTest, Cas, FlushSafe, Await, Publish, sharedVars
    <2>4. \A u \in Threads : ts'[u].v >= ts[u].v \/ ts'[u].v > clock
      BY <1>2, <2>1, <2>3 DEF OthersKeep
    <2>5. ASSUME cpc'[t] = "isupd"
          PROVE  scan'[t] # t /\ Larger(ts'[scan'[t]].v, rcv'[t], scan'[t], t)
      <3>1. ScanTs(t)
        BY <1>6, <2>2, <2>5
        DEF CommitStep, Announce, ReadOnly, MarkUpdate, FlushEntries, WriteMarker, Flush,
            ScanUpdate, AfterScan, WaitFor, EndWait, ReadSafe, LoopTest, Cas, FlushSafe,
            Await, Publish, Phase
      <3> QED
        BY <2>2, <2>5, <3>1 DEF ScanTs, AfterScan, Phase, sharedVars
    <2> QED
      BY <1>4, <2>1, <2>4, <2>5 DEF OthersKeep, Overtakers
  <1>7. CASE Evict \/ Finished
    BY <1>2, <1>4, <1>7, OtherSteps DEF Overtakers
  <1> QED
    BY <1>5, <1>6, <1>7 DEF PcwmNext
-----------------------------------------------------------------------------
(* LARGER_THAN is a strict order of timestamps and numbers.                *)
LEMMA LargerOrder ==
  \A i, j, k \in Nat : \A u, v, w \in Nat :
     /\ Larger(u, v, i, j) => u >= v /\ ~ Larger(v, u, j, i)
     /\ Larger(u, v, i, j) /\ Larger(v, w, j, k) => Larger(u, w, i, k)
  BY DEF Larger

(* A thread that is ahead and does not move is still ahead.                *)
LEMMA AheadStays ==
  ASSUME NEW k, NEW j, cpc'[k] = cpc[k], jump'[k] = jump[k], rcv'[k] = rcv[k],
         rcv'[j] = rcv[j], Ahead(k, j)
  PROVE  Ahead(k, j)'
  BY DEF Ahead

(* What waits for a marker not above the last one has its writer, after    *)
(* any step.                                                               *)
LEMMA CoveredIsPromised ==
  ASSUME PcwmTypeOK', LastWriter', NEW j \in Threads, rcv'[j] <= lastSafe'
  PROVE  Promised(j)'
  <1>1. lastSafe' \in Nat /\ \A i \in Threads : rcv'[i] \in Nat /\ flushed'[i] \in Nat
    BY PcwmAssumption DEF PcwmTypeOK
  <1>2. CASE \E i \in Threads : flushed'[i] >= lastSafe'
    BY <1>1, <1>2 DEF Promised, Marked
  <1>3. ASSUME NEW w \in Threads, cpc'[w] \in {"loop", "safe"}, rcv'[w] = lastSafe'
        PROVE  Promised(j)'
    BY <1>1, <1>3 DEF Promised, Ahead
  <1> QED
    BY <1>2, <1>3 DEF LastWriter

(* A newer update transaction stands for itself or for one that is newer   *)
(* still: whoever t leaves the marker to, somebody other than t writes it. *)
LEMMA NewerIsPromised ==
  ASSUME PcwmTypeOK, Promises, Updates, NEW t \in Threads, NEW m \in Threads,
         cpc[t] = "isupd", isUpdate[m], Larger(rcv[m], rcv[t], m, t),
         NEW j \in Threads, j = t \/ Larger(rcv[t], rcv[j], t, j)
  PROVE  Marked(j) \/ \E k \in Threads \ {t} : Ahead(k, j)
  <1>0. /\ t \in Nat /\ m \in Nat /\ j \in Nat
        /\ rcv[t] \in Nat /\ rcv[m] \in Nat /\ rcv[j] \in Nat
    BY Ranges
  <1>1. \A i \in Threads : i \in Nat /\ rcv[i] \in Nat /\ flushed[i] \in Nat
    BY Ranges
  <1>2. Larger(rcv[m], rcv[j], m, j)
    BY <1>0 DEF Larger
  <1>3. m # t /\ rcv[m] >= rcv[j]
    BY <1>0, <1>2 DEF Larger
  <1>4. CASE Marked(m)
    BY <1>1, <1>3, <1>4 DEF Marked
  <1>5. ASSUME NEW k \in Threads, Ahead(k, m) PROVE k # t /\ Ahead(k, j)
    <2>1. CASE cpc[k] \in {"put", "loop", "cas", "safe"} /\ rcv[k] >= rcv[m]
      BY <1>1, <1>3, <2>1 DEF Ahead
    <2>2. CASE /\ cpc[k] \in {"close", "marker", "flush"} \cup Waiting
               /\ cpc[k] \in Waiting => ~ jump[k]
               /\ Larger(rcv[k], rcv[m], k, m)
      <3>0. k \in Nat /\ rcv[k] \in Nat
        BY <1>1
      <3>1. Larger(rcv[k], rcv[j], k, j)
        BY <1>0, <1>2, <2>2, <3>0 DEF Larger
      <3>2. k # t
        BY <1>0, <2>2, <3>0 DEF Larger
      <3> QED
        BY <2>2, <3>1, <3>2 DEF Ahead
    <2> QED
      BY <1>5, <2>1, <2>2 DEF Ahead
  <1>6. CASE Promised(m)
    BY <1>4, <1>5, <1>6 DEF Promised
  <1>7. CASE cpc[m] = "await" \/ (cpc[m] \in Waiting /\ jump[m])
    BY <1>6, <1>7 DEF Promises
  <1>8. CASE cpc[m] \in {"publish", "idle"}
    BY <1>4, <1>8 DEF Updates
  <1>9. CASE \/ cpc[m] \in {"close", "marker", "flush", "put", "loop", "cas", "safe"}
             \/ cpc[m] \in Waiting /\ ~ jump[m]
    <2>1. Ahead(m, j)
      BY <1>2, <1>3, <1>9 DEF Ahead, Waiting
    <2> QED
      BY <1>3, <2>1
  <1> QED
    BY <1>7, <1>8, <1>9 DEF Updates, Pushing, Waiting

(* Whoever is ahead stays ahead until its marker is flushed, is covered by *)
(* another, or is left to a newer transaction.                             *)
LEMMA PromisesStep ==
  ASSUME PcwmInv, PcwmTypeOK', FlushedOwn, LastWriter', Promises, Updates, Overtakers,
         PcwmNext
  PROVE  Promises'
  <1>1. PcwmTypeOK /\ PlacesAgree /\ Timestamps
    BY DEF PcwmInv
  <1>2. \A i \in Threads : i \in Nat /\ rcv[i] \in Nat
    BY <1>1, Ranges
  <1>3. ASSUME NEW j \in Threads, Marked(j), rcv'[j] = rcv[j] PROVE Promised(j)'
    BY <1>2, <1>3, MarkedStep DEF Promised
  <1>4. ASSUME NEW j \in Threads, NEW k \in Threads, Ahead(k, j), cpc'[k] = cpc[k],
               jump'[k] = jump[k], rcv'[k] = rcv[k], rcv'[j] = rcv[j]
        PROVE  Promised(j)'
    BY <1>4, AheadStays DEF Promised
  <1>5. ASSUME NEW t \in Threads, TemplateStep(t) PROVE Promises'
    <2>1. Prepares(t)
      BY <1>1, <1>5, TemplatePrepares
    <2>2. ASSUME NEW j \in Threads, cpc'[j] = "await" \/ (cpc'[j] \in Waiting /\ jump'[j])
          PROVE  Promised(j)'
      <3>1. j # t
        BY <2>1, <2>2 DEF Prepares, Waiting
      <3>2. Promised(j) /\ rcv'[j] = rcv[j]
        BY <2>1, <2>2, <3>1 DEF Prepares, OthersKeep, Promises
      <3>3. ASSUME NEW k \in Threads, Ahead(k, j) PROVE k # t
        BY <2>1, <3>3 DEF Prepares, Ahead, Waiting
      <3> QED
        BY <1>3, <1>4, <2>1, <3>2, <3>3 DEF Prepares, OthersKeep, Promised
    <2> QED
      BY <2>2 DEF Promises
  <1>6. ASSUME NEW t \in Threads, CommitStep(t) PROVE Promises'
    <2>1. OthersKeep(t) /\ UNCHANGED rcv
      BY <1>1, <1>6, CommitKeeps
    <2>2. /\ cpc \in [Threads -> Phases] /\ jump \in [Threads -> BOOLEAN]
          /\ flushed \in [Threads -> 0 .. MaxClock]
      BY <1>1 DEF PcwmTypeOK
    <2>3. ASSUME NEW j \in Threads, Marked(j) \/ \E k \in Threads \ {t} : Ahead(k, j)
          PROVE  Promised(j)'
      BY <1>3, <1>4, <2>1, <2>3 DEF OthersKeep
    (* It is enough to look at what t was ahead of, and at t itself.       *)
    <2>4. SUFFICES /\ \A j \in Threads : Ahead(t, j) => Promised(j)'
                   /\ cpc'[t] = "await" \/ (cpc'[t] \in Waiting /\ jump'[t])
                         => Promised(t)'
      <3>1. ASSUME NEW j \in Threads \ {t},
                   cpc'[j] = "await" \/ (cpc'[j] \in Waiting /\ jump'[j])
            PROVE  Promised(j)'
        <4>1. Promised(j)
          BY <2>1, <3>1 DEF OthersKeep, Promises
        <4> QED
          BY <2>3, <2>4, <4>1 DEF Promised
      <3> QED
        BY <2>4, <3>1 DEF Promises
    <2>5. ASSUME cpc[t] = "await" \/ (cpc[t] \in Waiting /\ jump[t]) PROVE Promised(t)'
      <3>1. Promised(t)
        BY <2>5 DEF Promises
      <3>2. ~ Ahead(t, t)
        BY <1>2, <2>5 DEF Ahead, Larger, Waiting
      <3> QED
        BY <2>3, <3>1, <3>2 DEF Promised
    <2>6. ASSUME \/ Ahead(t, t)'
                 \/ cpc'[t] \notin {"await"} \cup Waiting
                 \/ cpc'[t] \in Waiting /\ ~ jump'[t]
                 \/ cpc[t] = "await" \/ (cpc[t] \in Waiting /\ jump[t])
          PROVE  cpc'[t] = "await" \/ (cpc'[t] \in Waiting /\ jump'[t]) => Promised(t)'
      BY <2>5, <2>6 DEF Promised, Waiting
    <2> USE DEF Phase
    <2>7. CASE ReadSafe(t) \/ LoopTest(t)
      <3>1. /\ cpc[t] \in {"put", "loop"}
            /\ cpc'[t] \in {"loop", "cas", "safe"} \/ (cpc'[t] = "await" /\ rcv[t] <= lastSafe)
            /\ lastSafe' = lastSafe /\ lastSafe \in Nat
        BY <1>1, <1>2, <2>2, <2>7, Ranges DEF ReadSafe, LoopTest, sharedVars
      <3>2. \A j \in Threads : Ahead(t, j) => rcv[j] <= rcv[t]
        BY <3>1 DEF Ahead, Waiting, Larger
      <3>3. CASE cpc'[t] \in {"loop", "cas", "safe"}
        BY <2>1, <2>6, <3>2, <3>3 DEF Ahead, Promised, Waiting
      <3>4. CASE rcv[t] <= lastSafe
        <4>1. ASSUME NEW j \in Threads, rcv[j] <= rcv[t] PROVE Promised(j)'
          <5>1. rcv'[j] <= lastSafe'
            BY <1>2, <2>1, <3>1, <3>4, <4>1
          <5> QED
            BY <5>1, CoveredIsPromised
        <4> QED
          BY <1>2, <3>2, <4>1
      <3> QED
        BY <3>1, <3>3, <3>4
    <2>8. CASE ScanUpdate(t)
      <3>1. cpc[t] = "isupd" /\ cpc'[t] \in {"scan", "wait"} /\ scan[t] \in Threads
        BY <1>1, <2>2, <2>8, ThreadNumber DEF ScanUpdate, AfterScan, PlacesAgree, PcwmTypeOK
      <3>2. CASE jump[t] \/ ~ isUpdate[scan[t]]
        <4>1. jump'[t] = jump[t]
          BY <1>1, <2>2, <2>8, <3>1, <3>2 DEF ScanUpdate, PcwmTypeOK
        <4> QED
          BY <2>1, <2>5, <3>1, <4>1 DEF Ahead, Promised, Waiting
      <3>3. CASE isUpdate[scan[t]]
        <4>1. Larger(rcv[scan[t]], rcv[t], scan[t], t)
          BY <3>1, <3>3 DEF Overtakers, Updates
        <4>2. ASSUME NEW j \in Threads, j = t \/ Larger(rcv[t], rcv[j], t, j)
              PROVE  Promised(j)'
          BY <1>1, <2>3, <3>1, <3>3, <4>1, <4>2, NewerIsPromised
        <4>3. \A j \in Threads : Ahead(t, j) => Larger(rcv[t], rcv[j], t, j)
          BY <3>1 DEF Ahead
        <4> QED
          BY <4>2, <4>3
      <3> QED
        BY <3>2, <3>3
    <2>9. CASE EndWait(t)
      <3>1. cpc[t] = "wait" /\ cpc'[t] = IF jump[t] THEN "await" ELSE "put"
        BY <2>2, <2>9 DEF EndWait
      <3>2. \A j \in Threads : Ahead(t, j) => ~ jump[t] /\ rcv[t] >= rcv[j]
        BY <1>2, <3>1, LargerOrder DEF Ahead, Waiting
      <3> QED
        BY <2>1, <2>5, <3>1, <3>2 DEF Ahead, Promised, Waiting
    <2>10. CASE FlushSafe(t)
      <3>1. cpc[t] = "safe" /\ cpc'[t] = "publish" /\ flushed'[t] = rcv[t]
        BY <2>2, <2>10 DEF FlushSafe
      <3>2. \A j \in Threads : Ahead(t, j) => rcv[t] >= rcv[j]
        BY <3>1 DEF Ahead, Waiting
      <3> QED
        BY <2>1, <3>1, <3>2 DEF Promised, Marked, Waiting
    <2>11. CASE Cas(t)
      <3>1. cpc[t] = "cas" /\ cpc'[t] = "loop"
        BY <2>2, <2>11 DEF Cas
      <3> QED
        BY <2>1, <3>1 DEF Ahead, Promised, Waiting
    <2>12. CASE FlushEntries(t) \/ WriteMarker(t) \/ Flush(t)
      <3>1. \/ cpc[t] = "close" /\ cpc'[t] = "marker"
            \/ cpc[t] = "marker" /\ cpc'[t] = "flush"
            \/ cpc[t] = "flush" /\ cpc'[t] = "scan" /\ ~ jump'[t]
        BY <2>2, <2>12 DEF FlushEntries, WriteMarker, Flush
      <3> QED
        BY <2>1, <3>1 DEF Ahead, Promised, Waiting
    <2>13. CASE ScanTs(t) \/ \E k \in Threads : WaitFor(t, k)
      <3>1. cpc[t] \in Waiting /\ cpc'[t] \in Waiting /\ jump'[t] = jump[t]
        BY <2>2, <2>13 DEF ScanTs, AfterScan, WaitFor, Waiting
      <3> QED
        BY <2>1, <2>5, <3>1 DEF Ahead, Promised, Waiting
    <2>14. CASE Announce(t) \/ ReadOnly(t) \/ MarkUpdate(t) \/ Await(t) \/ Publish(t)
      <3>1. /\ cpc[t] \in {"announce", "update", "await", "publish"}
            /\ cpc'[t] \in {"update", "close", "idle", "publish"}
        BY <2>2, <2>14 DEF Announce, ReadOnly, MarkUpdate, Await, Publish
      <3> QED
        BY <3>1 DEF Ahead, Waiting
    <2> QED
      BY <1>6, <2>7, <2>8, <2>9, <2>10, <2>11, <2>12, <2>13, <2>14 DEF CommitStep
  <1>7. CASE Evict \/ Finished
    <2>1. UNCHANGED <<cpc, rcv, jump>>
      BY <1>7, OtherSteps
    <2> QED
      BY <1>3, <1>4, <2>1 DEF Promises, Promised
  <1> QED
    BY <1>5, <1>6, <1>7 DEF PcwmNext
-----------------------------------------------------------------------------
(* In the initial states nobody waits and the marker is 0.                 *)
LEMMA MarkInitInv == PcwmInit => MarkInv
  <1> SUFFICES ASSUME PcwmInit PROVE MarkInv
    OBVIOUS
  <1>1. PcwmInv
    BY PcwmInitInv
  <1>2. 0 \in Threads
    BY HtmAssumption DEF Threads
  <1>3. LastWriter
    BY <1>2 DEF LastWriter, PcwmInit
  <1>4. Promises /\ Updates /\ Overtakers /\ FlushedOwn
    BY DEF Promises, Updates, Overtakers, FlushedOwn, PcwmInit, Waiting
  <1> QED
    BY <1>1, <1>3, <1>4 DEF MarkInv

(* A step that changes nothing.                                            *)
LEMMA MarkStutterInv == MarkInv /\ UNCHANGED pcwmVars => MarkInv'
  BY PcwmStutterInv
  DEF MarkInv, Promises, Promised, Marked, Ahead, Larger, LastWriter, Updates, Overtakers,
      FlushedOwn, pcwmVars, threadVars, sharedVars, logVars

(* The invariant of Pcwm_proofs and the promises hold in every state.      *)
THEOREM MarkInvariant == PcwmSpec => []MarkInv
  <1>1. MarkInv /\ PcwmNext => MarkInv'
    <2> SUFFICES ASSUME MarkInv, PcwmNext PROVE MarkInv'
      OBVIOUS
    <2>1. PcwmInv' /\ PcwmTypeOK'
      BY PcwmNextInv DEF MarkInv, PcwmInv
    <2>2. FlushedOwn' /\ LastWriter'
      BY <2>1, FlushedStep, LastWriterStep DEF MarkInv
    <2>3. Updates' /\ Overtakers' /\ Promises'
      BY <2>1, <2>2, UpdatesStep, OvertakersStep, PromisesStep DEF MarkInv
    <2> QED
      BY <2>1, <2>2, <2>3 DEF MarkInv
  <1> QED
    BY <1>1, MarkInitInv, MarkStutterInv, PTL DEF PcwmSpec

(* A thread in waitTheMarker finds its marker flushed, or a thread that    *)
(* has not left it to others and whose marker will cover it.               *)
THEOREM MarkerIsPromised == PcwmSpec => []MarkerPromised
  <1>1. MarkInv => MarkerPromised
    <2> SUFFICES ASSUME MarkInv, NEW t \in Threads, cpc[t] = "await", ~ Marked(t)
                 PROVE  WaitsFor(t) # {}
      BY DEF MarkerPromised
    <2>1. PICK k \in Threads : Ahead(k, t)
      BY DEF MarkInv, Promises, Promised
    <2>2. rcv[k] >= rcv[t]
      <3>1. rcv[k] \in Nat /\ rcv[t] \in Nat
        BY Ranges DEF MarkInv, PcwmInv
      <3> QED
        BY <2>1, <3>1 DEF Ahead, Larger
    <2>3. cpc[k] \in Pushing
      BY <2>1 DEF Ahead, Waiting, Pushing
    <2> QED
      BY <2>2, <2>3 DEF WaitsFor
  <1> QED
    BY <1>1, MarkInvariant, PTL
=============================================================================
