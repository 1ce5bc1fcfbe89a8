------------------------------- MODULE Clocks -------------------------------
(***************************************************************************)
(* The two commit protocols that order the logs by their commit markers    *)
(* only: with physical clocks (impl_pc.c, the default binding) a thread    *)
(* waits for every older transaction before it writes its marker, with     *)
(* logical clocks (impl_lc.c) it writes the marker first and waits for the *)
(* older ones before it returns. Both run under the retry template, whose  *)
(* reset_timestamp and renew_timestamp (impl_pcwm.c) write the word that   *)
(* both protocols publish their timestamp in.                              *)
(*                                                                         *)
(* The commit phase of thread t is cpc[t]:                                 *)
(*   idle     between transactions                                         *)
(*   body     in the retry template, see hpc[t]                            *)
(*   stamped  pc: readClockVal taken, still inside HTM or the lock         *)
(*   announce committed; the timestamp is about to be published            *)
(*   close    published; the log's entries are about to be flushed         *)
(*   marker   pc: in wait_commit, first at the threads of toRead[t], then  *)
(*            at those of waiting[t]; then the commit marker is written    *)
(*   fence    it is written and flushed, the fence is next                 *)
(*   done     pc: the marker is durable, "flush done!" is next             *)
(*   readts   lc: a round of wait_commit_lc, at the threads of toRead[t]   *)
(*   readin   lc: the same thread's isInTX is read next                    *)
(*   ret      lc: about to clear isInTX and return                         *)
(***************************************************************************)
EXTENDS HtmSgl

CONSTANTS MaxClock,     \* largest value of the time-stamp counter
          Protocols     \* the bindings installed: "pc", "lc"

ASSUME ClocksAssumption == /\ MaxClock \in Nat /\ N * MaxTx < MaxClock
                           /\ Protocols \subseteq {"pc", "lc"}

VARIABLES protocol,     \* the binding of this process
          clock,        \* the time-stamp counter, or gs_globalClock for lc
          ts,           \* gs_ts_array[t].comm.ts: value and bit 63
          inTx,         \* gs_ts_array[t].comm.isInTX
          cpc,          \* place of each thread in the commit protocol
          rcv,          \* readClockVal of each thread
          update,       \* whether the thread's log has entries
          toRead,       \* threads a pass over the others has still to read
          waiting,      \* pc: threads not discarded by the first pass
          target,       \* lc: targetWaitFor
          seen,         \* lc: otherTS
          allDone,      \* lc: whether numDoneThrs counts all read so far
          hist,         \* update transactions committed so far
          marked,       \* those whose commit marker was written
          entries,      \* those whose entries are durable
          durable,      \* those whose marker is durable
          acked         \* those that returned to the application

waitVars   == <<toRead, waiting, target, seen, allDone>>
threadVars == <<rcv, update, waitVars>>
logVars    == <<hist, marked, entries, durable, acked>>
clocksVars == <<htmVars, protocol, clock, ts, inTx, cpc, threadVars, logVars>>

Word(v, done) == [v |-> v, done |-> done]
Invalid == Word(MaxClock + 1, TRUE)
None == -1

Larger(v, w, i, j) == v > w \/ (v = w /\ i > j)

Tx == [t : Threads, v : 0 .. MaxClock]
MyTx(t) == [t |-> t, v |-> rcv[t]]

Pc == protocol = "pc"
Lc == protocol = "lc"

ClocksInit == /\ HtmInit
              /\ protocol \in Protocols
              /\ clock = 0
              /\ ts = [t \in Threads |-> Word(0, FALSE)]
              /\ inTx = [t \in Threads |-> FALSE]
              /\ cpc = [t \in Threads |-> "idle"]
              /\ rcv = [t \in Threads |-> 0]
              /\ update = [t \in Threads |-> FALSE]
              /\ toRead = [t \in Threads |-> {}]
              /\ waiting = [t \in Threads |-> {}]
              /\ target = [t \in Threads |-> None]
              /\ seen = [t \in Threads |-> 0]
              /\ allDone = [t \in Threads |-> FALSE]
              /\ hist = {} /\ marked = {} /\ entries = {} /\ durable = {}
              /\ acked = {}

Phase(t, from, to) == /\ cpc[t] = from
                      /\ cpc' = [cpc EXCEPT ![t] = to]

SetTs(t, v, done) == ts' = [ts EXCEPT ![t] = Word(v, done)]

(* rdtsc. With lc nothing but logical clocks are compared with its value,  *)
(* which is larger than any of them.                                       *)
RenewTs(t) == IF Lc THEN SetTs(t, MaxClock, FALSE) /\ UNCHANGED clock
              ELSE /\ clock < MaxClock
                   /\ clock' = clock + 1
                   /\ SetTs(t, clock + 1, FALSE)

ResetTs(t) == ts' = [ts EXCEPT ![t] = Invalid] /\ UNCHANGED clock
-----------------------------------------------------------------------------
(* Bound: one thread begins more than one transaction.                     *)
MayRepeat(t) == begun[t] = 0 \/ \A u \in Threads \ {t} : begun[u] <= 1

(* NV_HTM_BEGIN, first on_before_htm_begin, then the retry template with   *)
(* its hooks.                                                              *)
CEnter(t) == /\ Enter(t)
             /\ MayRepeat(t)
             /\ Phase(t, "idle", "body")
             /\ IF Lc THEN inTx' = [inTx EXCEPT ![t] = TRUE] /\ UNCHANGED <<clock, ts>>
                ELSE RenewTs(t) /\ UNCHANGED inTx
             /\ UNCHANGED <<protocol, threadVars, logVars>>

CheckedFree(t) == /\ CheckFree(t) \/ Unblock(t) \/ Subscribe(t) \/ Acquire(t)
                  /\ cpc[t] = "body"
                  /\ UNCHANGED <<protocol, clock, ts, inTx, cpc, threadVars, logVars>>

Hidden(t) == /\ CheckTaken(t) \/ Fallback(t)
             /\ ResetTs(t)
             /\ UNCHANGED <<protocol, inTx, cpc, threadVars, logVars>>

(* Mutant: AFTER_SGL_BEGIN empty, as before renew_timestamp.               *)
RenewedInHtmOnly(t) == /\ \/ Renew(t) /\ RenewTs(t)
                          \/ RenewLocked(t) /\ UNCHANGED <<clock, ts>>
                       /\ UNCHANGED <<protocol, inTx, cpc, threadVars, logVars>>

Renewed(t) == /\ Renew(t) \/ RenewLocked(t)
              /\ RenewTs(t)
              /\ UNCHANGED <<protocol, inTx, cpc, threadVars, logVars>>

(* on_htm_abort_pc, which install_bindings_lc leaves in place.             *)
CAborts(t) == /\ AbortTaken(t) \/ Abort(t) \/ AbortFault(t)
              /\ RenewTs(t)
              /\ cpc' = [cpc EXCEPT ![t] = "body"]
              /\ UNCHANGED <<protocol, inTx, threadVars, logVars>>

(* The end of the body. on_before_htm_commit_pc: rdtscp reads a later time *)
(* than the thread's last rdtsc, not necessarily than another thread's.    *)
Stamp(t) == /\ hpc[t] \in {"htm", "sgl"}
            /\ Phase(t, "body", "stamped")
            /\ update' \in {[update EXCEPT ![t] = u] : u \in BOOLEAN}
            /\ IF Lc THEN UNCHANGED <<clock, rcv>>
               ELSE \E now \in {clock, clock + 1} :
                       /\ now <= MaxClock
                       /\ now > ts[t].v \/ ts[t] = Invalid
                       /\ clock' = now
                       /\ rcv' = [rcv EXCEPT ![t] = now]
            /\ UNCHANGED <<htmVars, protocol, ts, inTx, waitVars, logVars>>

(* HTM_SGL_commit. on_before_htm_commit_lc's ++gs_globalClock is part of   *)
(* the transaction, isolated like its other accesses.                      *)
CCommit(t) == LET tick == Lc /\ update[t] IN
              /\ CommitHtm(t) \/ Release(t)
              /\ Phase(t, "stamped", "announce")
              /\ clock' = IF tick THEN clock + 1 ELSE clock
              /\ rcv' = IF tick THEN [rcv EXCEPT ![t] = clock + 1] ELSE rcv
              /\ hist' = IF update[t] THEN hist \cup {[t |-> t, v |-> rcv'[t]]} ELSE hist
              /\ UNCHANGED <<protocol, ts, inTx, update, waitVars, marked, entries, durable,
                             acked>>
-----------------------------------------------------------------------------
(* on_after_htm_commit_pc and on_after_htm_commit_lc                       *)
Announce(t) == /\ Pc \/ update[t]
               /\ Phase(t, "announce", "close")
               /\ SetTs(t, rcv[t], FALSE)
               /\ UNCHANGED <<htmVars, protocol, clock, inTx, threadVars, logVars>>

PcReadOnly(t) == /\ ~ update[t]
                 /\ Phase(t, "close", "idle")
                 /\ SetTs(t, rcv[t], TRUE)
                 /\ UNCHANGED <<htmVars, protocol, clock, inTx, threadVars, logVars>>

LcReadOnly(t) == /\ Lc /\ ~ update[t]
                 /\ Phase(t, "announce", "ret")
                 /\ UNCHANGED <<htmVars, protocol, clock, ts, inTx, threadVars, logVars>>

Others(t) == Threads \ {t}

(* Mutant: the entries are flushed without the fence before the marker.    *)
FlushEntriesUnfenced(t) == /\ update[t]
                           /\ Phase(t, "close", "marker")
                           /\ toRead' = [toRead EXCEPT ![t] = IF Pc THEN Others(t) ELSE {}]
                           /\ UNCHANGED <<htmVars, protocol, clock, ts, inTx, rcv, update,
                                          waiting, target, seen, allDone, logVars>>

(* FLUSH_RANGE of the entries and a fence. Only pc waits before the marker. *)
FlushEntries(t) == /\ update[t]
                   /\ Phase(t, "close", "marker")
                   /\ entries' = entries \cup {MyTx(t)}
                   /\ toRead' = [toRead EXCEPT ![t] = IF Pc THEN Others(t) ELSE {}]
                   /\ UNCHANGED <<htmVars, protocol, clock, ts, inTx, rcv, update, waiting,
                                  target, seen, allDone, hist, marked, durable, acked>>

WriteMarker(t) == /\ toRead[t] = {} /\ waiting[t] = {}
                  /\ Phase(t, "marker", "fence")
                  /\ marked' = marked \cup {MyTx(t)}
                  /\ UNCHANGED <<htmVars, protocol, clock, ts, inTx, threadVars, hist,
                                 entries, durable, acked>>

(* FENCE_PREV_FLUSHES, and then pc's "flush done!".                        *)
PcFence(t) == /\ Pc
              /\ Phase(t, "fence", "done")
              /\ durable' = durable \cup {MyTx(t)}
              /\ UNCHANGED <<htmVars, protocol, clock, ts, inTx, threadVars, hist, marked,
                             entries, acked>>

PcReturn(t) == /\ Phase(t, "done", "idle")
               /\ SetTs(t, rcv[t], TRUE)
               /\ acked' = acked \cup {MyTx(t)}
               /\ UNCHANGED <<htmVars, protocol, clock, inTx, threadVars, hist, marked,
                              entries, durable>>

(* Mutant: targetWaitFor is initialised with nbThreads.                    *)
LcFenceTarget(t) == /\ Lc
                    /\ Phase(t, "fence", "readts")
                    /\ durable' = durable \cup {MyTx(t)}
                    /\ inTx' = [inTx EXCEPT ![t] = FALSE]
                    /\ toRead' = [toRead EXCEPT ![t] = Others(t)]
                    /\ target' = [target EXCEPT ![t] = N]
                    /\ allDone' = [allDone EXCEPT ![t] = TRUE]
                    /\ UNCHANGED <<htmVars, protocol, clock, ts, rcv, update, waiting, seen,
                                   hist, marked, entries, acked>>

LcFence(t) == /\ Lc
              /\ Phase(t, "fence", "readts")
              /\ durable' = durable \cup {MyTx(t)}
              /\ inTx' = [inTx EXCEPT ![t] = FALSE]
              /\ toRead' = [toRead EXCEPT ![t] = Others(t)]
              /\ target' = [target EXCEPT ![t] = None]
              /\ allDone' = [allDone EXCEPT ![t] = TRUE]
              /\ UNCHANGED <<htmVars, protocol, clock, ts, rcv, update, waiting, seen, hist,
                             marked, entries, acked>>

LcReturn(t) == /\ Phase(t, "ret", "idle")
               /\ inTx' = [inTx EXCEPT ![t] = FALSE]
               /\ acked' = IF update[t] THEN acked \cup {MyTx(t)} ELSE acked
               /\ UNCHANGED <<htmVars, protocol, clock, ts, threadVars, hist, marked,
                              entries, durable>>
-----------------------------------------------------------------------------
(* The threads are read in the order of their numbers.                     *)
Next1(S) == CHOOSE i \in S : \A j \in S : i <= j

(* wait_commit_pc_simple, first pass: a snapshot of every other thread.    *)
Older(t, i) == ~ ts[i].done /\ ~ Larger(ts[i].v, rcv[t], i, t)

(* Mutant: the snapshot discards what has no bit 63 instead.               *)
ScanNegated(t) == LET i == Next1(toRead[t]) IN
          /\ cpc[t] = "marker" /\ toRead[t] # {}
          /\ toRead' = [toRead EXCEPT ![t] = @ \ {i}]
          /\ waiting' = [waiting EXCEPT ![t] =
                            IF ts[i].done /\ ~ Larger(ts[i].v, rcv[t], i, t)
                            THEN @ \cup {i} ELSE @]
          /\ UNCHANGED <<htmVars, protocol, clock, ts, inTx, cpc, rcv, update, target, seen,
                         allDone, logVars>>

Scan(t) == LET i == Next1(toRead[t]) IN
           /\ cpc[t] = "marker" /\ toRead[t] # {}
           /\ toRead' = [toRead EXCEPT ![t] = @ \ {i}]
           /\ waiting' = [waiting EXCEPT ![t] = IF Older(t, i) THEN @ \cup {i} ELSE @]
           /\ UNCHANGED <<htmVars, protocol, clock, ts, inTx, cpc, rcv, update, target, seen,
                          allDone, logVars>>

(* Second pass: spins on those still older and not flushed.                *)
WaitFor(t) == LET i == Next1(waiting[t]) IN
              /\ cpc[t] = "marker" /\ toRead[t] = {} /\ waiting[t] # {}
              /\ ~ Older(t, i)
              /\ waiting' = [waiting EXCEPT ![t] = @ \ {i}]
              /\ UNCHANGED <<htmVars, protocol, clock, ts, inTx, cpc, rcv, update, toRead,
                             target, seen, allDone, logVars>>

(* wait_commit_lc: a round reads the timestamp and then isInTX of every    *)
(* other thread, or of the thread that had the timestamp before.           *)
ReadTs(t) == /\ toRead[t] # {}
             /\ Phase(t, "readts", "readin")
             /\ seen' = [seen EXCEPT ![t] = ts[Next1(toRead[t])].v]
             /\ UNCHANGED <<htmVars, protocol, clock, ts, inTx, rcv, update, toRead,
                            waiting, target, allDone, logVars>>

ReadIn(t) == LET i == Next1(toRead[t]) IN
             /\ Phase(t, "readin", "readts")
             /\ toRead' = [toRead EXCEPT ![t] = @ \ {i}]
             /\ target' = [target EXCEPT ![t] = IF seen[t] = rcv[t] - 1 THEN i ELSE @]
             /\ allDone' = [allDone EXCEPT ![t] =
                               @ /\ (rcv[t] < seen[t] \/ (rcv[t] > seen[t] /\ ~ inTx[i]))]
             /\ UNCHANGED <<htmVars, protocol, clock, ts, inTx, rcv, update, waiting, seen,
                            logVars>>

(* Mutant: a round that fails is not begun again.                          *)
EndRoundStuck(t) == /\ toRead[t] = {}
                    /\ Phase(t, "readts", IF allDone[t] THEN "ret" ELSE "readts")
                    /\ UNCHANGED <<htmVars, protocol, clock, ts, inTx, threadVars, logVars>>

EndRound(t) == /\ toRead[t] = {}
               /\ Phase(t, "readts", IF allDone[t] THEN "ret" ELSE "readts")
               /\ toRead' = [toRead EXCEPT ![t] =
                                IF allDone[t] THEN {}
                                ELSE IF target[t] = None THEN Others(t) ELSE {target[t]}]
               /\ allDone' = [allDone EXCEPT ![t] = TRUE]
               /\ UNCHANGED <<htmVars, protocol, clock, ts, inTx, rcv, update, waiting,
                              target, seen, logVars>>

(* The cache may write the marker's line back at any time.                 *)
EvictMarker(x) == /\ x \in marked \ durable
                  /\ durable' = durable \cup {x}
                  /\ UNCHANGED <<htmVars, protocol, clock, ts, inTx, cpc, threadVars, hist,
                                 marked, entries, acked>>
-----------------------------------------------------------------------------
Finished == /\ \A t \in Threads : cpc[t] = "idle" /\ begun[t] > 0
            /\ UNCHANGED clocksVars

TemplateStep(t) == \/ CEnter(t) \/ CheckedFree(t) \/ Hidden(t) \/ Renewed(t) \/ CAborts(t)
                   \/ Stamp(t) \/ CCommit(t)

CommitStep(t) == \/ Announce(t) \/ PcReadOnly(t) \/ LcReadOnly(t) \/ FlushEntries(t)
                 \/ Scan(t) \/ WaitFor(t) \/ WriteMarker(t) \/ PcFence(t) \/ PcReturn(t)
                 \/ LcFence(t) \/ ReadTs(t) \/ ReadIn(t) \/ EndRound(t) \/ LcReturn(t)

ClocksNext == \/ Finished \/ \E x \in marked : EvictMarker(x)
              \/ \E t \in Threads : TemplateStep(t) \/ CommitStep(t)

ClocksSpec == ClocksInit /\ [][ClocksNext]_clocksVars

(* As for the template: threads are preemptively scheduled, a doomed       *)
(* transaction aborts, other aborts are the hardware's choice, and every   *)
(* thread begins a first transaction.                                      *)
Healthy(t) == hpc[t] = "htm" => hpc'[t] # "top"

ClocksFairSpec == /\ ClocksSpec
                  /\ \A t \in Threads :
                        WF_clocksVars(/\ TemplateStep(t) \/ CommitStep(t)
                                      /\ cpc[t] # "idle" \/ begun[t] = 0
                                      /\ Healthy(t))
-----------------------------------------------------------------------------
ClocksTypeOK ==
    /\ HtmTypeOK
    /\ protocol \in Protocols
    /\ clock \in 0 .. MaxClock
    /\ ts \in [Threads -> [v : 0 .. MaxClock, done : BOOLEAN] \cup {Invalid}]
    /\ inTx \in [Threads -> BOOLEAN]
    /\ cpc \in [Threads -> {"idle", "body", "stamped", "announce", "close", "marker",
                            "fence", "done", "readts", "readin", "ret"}]
    /\ rcv \in [Threads -> 0 .. MaxClock]
    /\ update \in [Threads -> BOOLEAN]
    /\ toRead \in [Threads -> SUBSET Threads]
    /\ waiting \in [Threads -> SUBSET Threads]
    /\ target \in [Threads -> Threads \cup {None}]
    /\ seen \in [Threads -> 0 .. MaxClock + 1]
    /\ allDone \in [Threads -> BOOLEAN]
    /\ hist \subseteq Tx /\ marked \subseteq Tx /\ entries \subseteq Tx
    /\ durable \subseteq Tx /\ acked \subseteq Tx

(* A marker found in persistent memory vouches for its log, whatever the   *)
(* cache writes back and when: "Log must hit memory before the commit      *)
(* marker".                                                                *)
NoTornLog == durable \subseteq entries

(* "need to ensure commit marker order": when a transaction's marker is    *)
(* written, in the cache even, every older transaction's is durable,       *)
(* although the thread decides from a snapshot of the others' timestamps.  *)
MarkerOrder == Pc => \A x \in marked, y \in hist : y.v < x.v => y \in durable

(* With physical clocks the protocol implements the durable history, where *)
(* a crash recovers the logs that have a marker.                           *)
OfPc(S) == IF Pc THEN S ELSE {}
History == INSTANCE DurableHistory WITH hist <- OfPc(hist), stable <- OfPc(durable),
                                        acked <- OfPc(acked)
PcDurable == History!HistorySpec

(* With logical clocks the replayer "can detect "holes" in the log and     *)
(* discard those TXs", and wait_commit_lc is "done after the commit marker *)
(* is persistent": a transaction that returned has no hole before it.      *)
NoHoleBefore == Lc => \A x \in acked, y \in hist : y.v <= x.v => y \in durable

(* Every transaction that begins returns, with either protocol.            *)
EveryTxReturns == \A t \in Threads : cpc[t] # "idle" ~> cpc[t] = "idle"
=============================================================================
